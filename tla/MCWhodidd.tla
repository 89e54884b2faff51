------------------------------ MODULE MCWhodidd ------------------------------
(* Small instances of the daemon for TLC.  The pids other than init, and   *)
(* the watchers, differ in name only: no guard orders or singles them out. *)
EXTENDS Claims, WhodiddInv

PidSymmetry == Permutations(Pid \ {InitPid})

Symmetry == {f @@ g : f \in PidSymmetry, g \in Permutations(Watcher)}
=============================================================================
