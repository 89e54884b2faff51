----------------------------- MODULE MCChronicle -----------------------------
(* A small instance of the daemon and chronicle for TLC; the watchers,     *)
(* and the pids other than init, differ in name only.                      *)
EXTENDS Chronicle

Symmetry == {f @@ g : f \in Permutations(Pid \ {InitPid}), g \in Permutations(Watcher)}
=============================================================================
