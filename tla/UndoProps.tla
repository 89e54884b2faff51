------------------------------ MODULE UndoProps ------------------------------
(***************************************************************************)
(* What an undo promises to the owner of the tree.                         *)
(***************************************************************************)
EXTENDS Undo

Touched == (UNION {{manifest[i].path, manifest[i].other} : i \in DOMAIN manifest}) \ {None}

(* The snapshot an undo of the manifest goes by for p: the newest one by   *)
(* the first time p was touched.                                           *)
FirstTouch(p) ==
    Min({manifest[i].ts : i \in {j \in DOMAIN manifest :
                                    p \in {manifest[j].path, manifest[j].other}}})

GoesBy(p) == SnapshotBefore(planned, FirstTouch(p))

Undoable == {p \in Touched \ (Refused \cup Outside) : GoesBy(p) # None}

-----------------------------------------------------------------------------
TypeOK ==
    /\ live \in [Path -> Option(Node)] /\ IsTree(live)
    /\ snaps \in [0 .. MaxTime -> Option([Path -> Option(Kept)])]
    /\ taker \in [name: Option(0 .. MaxTime), todo: SUBSET Path]
    /\ now \in 0 .. MaxTime
    /\ ops \in Nat /\ mishaps \in Nat
    /\ pending \in Seq(Event) /\ manifest \in Seq(FileEvent)
    /\ before \in [Path -> {<<>>} \cup {<<x>> : x \in Option(Kept)}]
    /\ phase \in {"idle", "apply", "copy", "done"}
    /\ steps \in Seq(Step) /\ handle \in Option(Path)
    /\ phase = "copy" => steps # <<>> /\ Head(steps).do = "restore"
    /\ failed \in Nat /\ kept \in Nat /\ runs \in Nat
    /\ planned \in [0 .. MaxTime -> Option([Path -> Option(Kept)])]
    /\ calm \in BOOLEAN
    /\ settled \in Option([Path -> Option(Kept)])

(* An undo that reports no failure has undone: what had a pre-image holds  *)
(* it, what had none is gone, or is a directory still in use (README.md:   *)
(* 120-128, 146-152), also when an earlier undo was cut off half way.      *)
UndoneUnlessReported ==
    phase = "done" /\ calm /\ failed = 0 =>
        \A p \in Undoable :
            LET image == planned[GoesBy(p)][p]
            IN  IF image # None THEN Copy(live[p]) = image
                ELSE live[p] = None \/ Inside(live, p) # {}

(* "Re-applying is safe" (README.md:129): another undo changes nothing and *)
(* has nothing to complain about.                                          *)
ReapplyIsSafe ==
    phase = "done" /\ settled # None =>
        /\ failed = 0
        /\ \A p \in Path : Copy(live[p]) = settled[p]

(* chronicle touches what the command touched and nothing else, other than *)
(* to make a directory for what it restores; whatever a bystander put into *)
(* the command's directories stays (README.md:146-152).                    *)
OnlyTouchedChanges ==
    [][phase' # phase \/ steps' # steps =>
          \A p \in Path : Copy(live'[p]) # Copy(live[p]) =>
              \/ p \in Touched \ (Refused \cup Outside)
              \/ phase = "copy" /\ p = handle
              \/ live[p] = None /\ \E q \in Touched : p \in Up[q]]_vars

-----------------------------------------------------------------------------
(* revert.rs:16-19, "if that snapshot has no such file, the command        *)
(* created it": whatever the plan would delete was not there before the    *)
(* command, when nobody else has been at work and nothing has failed.      *)
RemovesOnlyCreated ==
    phase = "apply" /\ mishaps = 0 =>
        \A i \in DOMAIN steps :
            steps[i].do = "remove" /\ live[steps[i].path] # None =>
                before[steps[i].path] = <<None>>

(* revert.rs:48-49, "put that version back": a file that is restored holds *)
(* what its snapshot held when the undo was planned.                       *)
VersionPutBack ==
    phase = "done" /\ calm /\ failed = 0 =>
        \A p \in Undoable :
            LET image == planned[GoesBy(p)][p]
            IN  image # None => Copy(live[p]) = image
=============================================================================
