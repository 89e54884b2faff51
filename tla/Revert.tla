-------------------------------- MODULE Revert --------------------------------
(***************************************************************************)
(* Planning the undo of a command, src/src/revert.rs: a pure function of   *)
(* the command's manifest and of what the snapshots hold.                  *)
(***************************************************************************)
EXTENDS FileTree, FiniteSetsExt

CONSTANTS
    Refused,    \* paths with a refused prefix
    Outside     \* paths outside the live root

(* An event of the manifest: a rename names its other end. *)
FileEvent == [path: Path, other: Option(Path), ts: Nat]

Step == [do: {"restore", "remove", "skip"}, path: Path, from: Option(Nat)]

-----------------------------------------------------------------------------
(* The touches of a manifest in order, two to an event: a rename touches   *)
(* its other end too, for anything else there is none.                     *)
Touch(events, k) ==
    LET e == events[(k + 1) \div 2]
    IN  [path |-> IF k % 2 = 1 THEN e.path ELSE e.other, ts |-> e.ts]

MutFirstTouches(events) ==
    {k \in 1 .. 2 * Len(events) :
        /\ Touch(events, k).path # None
        /\ \A j \in k + 1 .. 2 * Len(events) : Touch(events, j).path # Touch(events, k).path}

(* Where each path is touched first. *)
FirstTouches(events) ==
    {k \in 1 .. 2 * Len(events) :
        /\ Touch(events, k).path # None
        /\ \A j \in 1 .. k - 1 : Touch(events, j).path # Touch(events, k).path}

(* The newest snapshot at or before ts, of those named for the second they *)
(* were taken in.  The code compares any other name as text, too: such a   *)
(* snapshot is left out.                                                   *)
SnapshotBefore(S, ts) ==
    LET older == {s \in DOMAIN S : S[s] # None /\ s <= ts}
    IN  IF older = {} THEN None ELSE Max(older)

(* Restore what the snapshot has, remove what it has not, leave alone what *)
(* no snapshot speaks for.                                                 *)
StepFor(S, t) ==
    LET s == SnapshotBefore(S, t.ts)
    IN  IF t.path \in Refused \cup Outside \/ s = None
        THEN [do |-> "skip", path |-> t.path, from |-> None]
        ELSE IF S[s][t.path] # None
        THEN [do |-> "restore", path |-> t.path, from |-> s]
        ELSE [do |-> "remove", path |-> t.path, from |-> None]

(* Restores, then removals from the deepest up, then what is left alone. *)
Turn(st) ==
    CASE st.do = "restore" -> 0
      [] st.do = "remove" -> Cardinality(Path) + 1 - Depth(st.path)
      [] OTHER -> Cardinality(Path) + 1

(* In turn, and in the order of the first touches where the turn is one. *)
Plan(events, S) ==
    LET touched == FirstTouches(events)
        step(k) == StepFor(S, Touch(events, k))
        upTo(k) == {j \in touched :
                        \/ Turn(step(j)) < Turn(step(k))
                        \/ Turn(step(j)) = Turn(step(k)) /\ j <= k}
    IN  [i \in 1 .. Cardinality(touched) |->
            step(CHOOSE k \in touched : Cardinality(upTo(k)) = i)]
=============================================================================
