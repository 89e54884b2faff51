-------------------------------- MODULE Claims --------------------------------
(***************************************************************************)
(* What the repository's comments and README say of the daemon and the     *)
(* code does not keep.  Each is checked by a run of its own that ends in   *)
(* the behaviour that breaks it.                                           *)
(***************************************************************************)
EXTENDS Attribution

(* whodidd.rs:897-899, "an unpersisted one carries its exit in memory      *)
(* until (and if) something makes it worth recording": with every queue    *)
(* drained, a stored process that is gone has its exit stored too.         *)
ExitReachesGraph ==
    Quiet /\ graphUp /\ Undisturbed /\ ~missed =>
        \A r \in rows : r.exit = None => Alive(r.inc)

(* README.md:199, "a recycled pid never inherits a dead process's          *)
(* identity": an event is bound to a row of its own writer or to nothing.  *)
RecycledPidInheritsNothing ==
    \A e \in events : e.start # None =>
        \A r \in Keyed(rows, e.pid, e.start) : r.inc = e.inc
=============================================================================
