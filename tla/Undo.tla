--------------------------------- MODULE Undo ---------------------------------
(***************************************************************************)
(* Undoing a command: chronicle revert --apply (src/src/bin/chronicle.rs)  *)
(* with the snapshots of snapshot.sh, on a tree that the command, and      *)
(* bystanders, change.  The daemon's part is reduced to what the manifest  *)
(* needs of it: the command's events are recorded in order, some time      *)
(* after they happened, under the path they have by then.                  *)
(***************************************************************************)
EXTENDS Revert

CONSTANTS
    Start,         \* trees the command may find
    Mode,          \* SNAPSHOT_MODE: "hardlink", "full" or "btrfs"
    MaxOps,        \* bound: what the command does
    MaxTime,       \* bound: seconds
    MaxRuns,       \* bound: runs of chronicle revert
    MaxMishaps     \* bound: what bystanders do, calls that fail, processes killed

ASSUME StartAssumption ==
    /\ Start \subseteq [Path -> Option(Node)]
    /\ \A T \in Start : IsTree(T) /\ \A p \in Path : T[p] # None => T[p].links = {}
ASSUME ModeAssumption == Mode \in {"hardlink", "full", "btrfs"}
ASSUME BoundAssumption ==
    /\ MaxOps \in Nat /\ MaxTime \in Nat /\ MaxRuns \in Nat /\ MaxMishaps \in Nat

VARIABLES
    live,          \* the live tree
    snaps,         \* second -> the snapshot of that name, None if there is none
    taker,         \* the snapshot being taken and what is left to copy
    now,
    ops, mishaps,  \* how much the command has done, how much has come between
    pending,       \* the command's events the daemon has not recorded
    manifest,      \* what events_by_tree returns for the command
    phase,         \* where chronicle stands
    steps,         \* what is left of its plan
    handle,        \* the path of the file std::fs::copy has open, if any
    failed, kept,  \* what it will report
    runs,
    before,        \* history: path -> what the command found there, <<>> if untouched
    planned,       \* history: the snapshots the plan was made with
    calm,          \* history: nobody has changed the tree or the manifest since
    settled        \* history: the tree an undo left, while nothing disturbs it

treeVars == <<live, snaps, taker, now>>
commandVars == <<ops, pending, manifest, before>>
chronicleVars == <<phase, steps, handle, failed, kept, runs, planned>>
vars == <<treeVars, commandVars, chronicleVars, mishaps, calm, settled>>

Actor == {"command", "bystander"}

(* "legacy" events carry the file itself, "fid" ones its directory and name. *)
Event == [sort: {"legacy", "fid"}, path: Option(Path), other: Option(Path)]

NoTaker == [name |-> None, todo |-> {}]

Init ==
    /\ live \in Start
    /\ snaps = [s \in 0 .. MaxTime |-> None]
    /\ taker = NoTaker /\ now = 0
    /\ ops = 0 /\ mishaps = 0
    /\ pending = <<>> /\ manifest = <<>>
    /\ before = [p \in Path |-> <<>>]
    /\ phase = "idle" /\ steps = <<>> /\ handle = None
    /\ failed = 0 /\ kept = 0 /\ runs = 0
    /\ planned = snaps
    /\ calm = FALSE /\ settled = None

Mishap == mishaps < MaxMishaps /\ mishaps' = mishaps + 1 /\ settled' = None
Succeeds == UNCHANGED <<mishaps, settled>>

Tick ==
    /\ now < MaxTime
    /\ now' = now + 1
    /\ UNCHANGED <<live, snaps, taker, commandVars, chronicleVars, mishaps, calm, settled>>

-----------------------------------------------------------------------------
(* snapshot.sh: a free name, then the copy, entry by entry unless btrfs    *)
(* does it at once.  The name taken by an earlier run is waited out.       *)
TakeSnapshot ==
    /\ taker = NoTaker /\ snaps[now] = None
    /\ IF Mode = "btrfs"
       THEN /\ snaps' = [snaps EXCEPT ![now] = [p \in Path |-> Copy(live[p])]]
            /\ UNCHANGED taker
       ELSE /\ snaps' = [snaps EXCEPT ![now] = [p \in Path |-> None]]
            /\ taker' = [name |-> now,
                         todo |-> {p \in Path : Above[p] = None /\ live[p] # None}]
    /\ settled' = None
    /\ UNCHANGED <<live, now, commandVars, chronicleVars, mishaps, calm>>

(* One entry of cp -a or cp -al; what has vanished meanwhile is passed by. *)
CopyEntry(p) ==
    /\ p \in taker.todo
    /\ LET s == taker.name
       IN  /\ snaps' = [snaps EXCEPT ![s][p] = Copy(live[p])]
           /\ live' = IF Mode = "hardlink" /\ IsFile(live, p)
                      THEN [live EXCEPT ![p].links = @ \cup {<<s, p>>}] ELSE live
    /\ taker' = [taker EXCEPT !.todo = (@ \ {p}) \cup Inside(live, p)]
    /\ settled' = None
    /\ UNCHANGED <<now, commandVars, chronicleVars, mishaps, calm>>

SnapshotEnds ==
    /\ taker.name # None
    /\ \/ taker.todo = {} /\ Succeeds
       \/ taker.todo # {} /\ Mishap
    /\ taker' = NoTaker
    /\ UNCHANGED <<live, snaps, now, commandVars, chronicleVars, calm>>

-----------------------------------------------------------------------------
(* What the command and bystanders do to the tree. *)

(* The ends of an event that a change of the tree moves or takes away: the *)
(* daemon asks for the file's, or its directory's, path only later.  The   *)
(* path of an unlinked file reads "... (deleted)": it stands for nothing.  *)
EndAt(e, x, path) == IF x # None /\ e.sort = "legacy" THEN path[x] ELSE x

Relocated(Q, path) ==
    [i \in DOMAIN Q |-> [Q[i] EXCEPT !.path = EndAt(Q[i], @, path)]]

Unlinked(p) == [q \in Path |-> IF q = p THEN None ELSE q]
Moved(p, r) == [q \in Path |-> IF q = p THEN r ELSE IF q = r THEN None ELSE q]

EndIn(x, d) == IF x # None /\ Above[x] = d THEN None ELSE x

Orphaned(Q, d) ==
    [i \in DOMAIN Q |->
        IF Q[i].sort = "fid"
        THEN [Q[i] EXCEPT !.path = EndIn(@, d), !.other = EndIn(@, d)] ELSE Q[i]]

(* who has done something to p, and to other: Q are the events as they are *)
(* now, to which the command's doing adds one.                             *)
Does(who, Q, sort, p, other) ==
    /\ IF who = "command"
       THEN /\ ops < MaxOps /\ runs = 0
            /\ ops' = ops + 1
            /\ pending' = Append(Q, [sort |-> sort, path |-> p, other |-> other])
            /\ before' = [q \in Path |-> IF q \in {p, other} /\ before[q] = <<>>
                                         THEN <<Copy(live[q])>> ELSE before[q]]
            /\ settled' = None
            /\ UNCHANGED mishaps
       ELSE /\ Mishap
            /\ pending' = Q
            /\ UNCHANGED <<ops, before>>
    /\ calm' = FALSE
    /\ UNCHANGED <<taker, now, manifest, phase, steps, failed, kept, runs, planned>>

(* open(O_TRUNC) and write, or append: in place if the file is there. *)
WriteFile(who, p, v) ==
    /\ Reachable(live, p) /\ ~IsDir(live, p)
    /\ live' = InPlace(live, p, v)
    /\ snaps' = Through(snaps, live[p], v)
    /\ Does(who, pending, IF live[p] = None THEN "fid" ELSE "legacy", p, None)
    /\ UNCHANGED handle

MakeDir(who, p) ==
    /\ Reachable(live, p) /\ live[p] = None
    /\ live' = [live EXCEPT ![p] = Dir]
    /\ Does(who, pending, "fid", p, None)
    /\ UNCHANGED <<snaps, handle>>

Unlink(who, p) ==
    /\ IsFile(live, p)
    /\ live' = [live EXCEPT ![p] = None]
    /\ handle' = IF handle = p THEN None ELSE handle
    /\ Does(who, Relocated(pending, Unlinked(p)), "fid", p, None)
    /\ UNCHANGED snaps

RemoveDir(who, p) ==
    /\ IsDir(live, p) /\ Inside(live, p) = {}
    /\ live' = [live EXCEPT ![p] = None]
    /\ Does(who, Orphaned(pending, p), "fid", p, None)
    /\ UNCHANGED <<snaps, handle>>

Rename(who, p, q) ==
    /\ p # q /\ IsFile(live, p) /\ Reachable(live, q) /\ ~IsDir(live, q)
    /\ live' = [live EXCEPT ![q] = live[p], ![p] = None]
    /\ handle' = IF handle = p THEN q ELSE IF handle = q THEN None ELSE handle
    /\ Does(who, Relocated(pending, Moved(p, q)), "fid", q, p)
    /\ UNCHANGED snaps

(* chmod, chown, touch: an event, and no change a snapshot would show. *)
Attrib(p) ==
    /\ live[p] # None
    /\ Does("command", pending, "fid", p, None)
    /\ UNCHANGED <<live, snaps, handle>>

Act(who) ==
    \/ \E p \in Path, v \in Content : WriteFile(who, p, v)
    \/ \E p \in Path : MakeDir(who, p) \/ Unlink(who, p) \/ RemoveDir(who, p)
    \/ \E p, q \in Path : Rename(who, p, q)

(* The daemon records the next event, if it can still tell its path. *)
Record ==
    /\ pending # <<>>
    /\ pending' = Tail(pending)
    /\ LET e == Head(pending)
           at == IF e.path # None THEN e.path ELSE e.other
           other == IF e.path # None THEN e.other ELSE None
       IN  manifest' = IF at = None THEN manifest
                       ELSE Append(manifest, [path |-> at, other |-> other, ts |-> now])
    /\ calm' = FALSE /\ settled' = None
    /\ UNCHANGED <<treeVars, ops, before, chronicleVars, mishaps>>

-----------------------------------------------------------------------------
(* chronicle revert --apply. *)
PlanUndo ==
    /\ phase \in {"idle", "done"} /\ runs < MaxRuns
    /\ manifest # <<>>
    /\ \E s \in DOMAIN snaps : snaps[s] # None
    /\ steps' = Plan(manifest, snaps)
    /\ planned' = snaps
    /\ phase' = "apply" /\ runs' = runs + 1
    /\ failed' = 0 /\ kept' = 0
    /\ calm' = TRUE
    /\ UNCHANGED <<treeVars, commandVars, handle, mishaps, settled>>

NextIs(do) == phase = "apply" /\ steps # <<>> /\ Head(steps).do = do
NextStep == steps' = Tail(steps)

MutOpenRestoredNoDirs ==
    /\ NextIs("restore")
    /\ LET p == Head(steps).path
           source == snaps[Head(steps).from][p]
       IN  /\ CanMakeDirs(live, p) /\ source.kind = "file" /\ ~IsDir(live, p)
           /\ live' = InPlace(live, p, Blank)
           /\ snaps' = Through(snaps, live[p], Blank)
           /\ handle' = p
    /\ phase' = "copy"
    /\ UNCHANGED <<taker, now, commandVars, steps, failed, kept, runs, planned, mishaps,
                   calm, settled>>

(* create_dir_all, then copy as far as the destination truncated. *)
OpenRestored ==
    /\ NextIs("restore")
    /\ LET p == Head(steps).path
           source == snaps[Head(steps).from][p]
       IN  /\ CanMakeDirs(live, p) /\ source.kind = "file" /\ ~IsDir(live, p)
           /\ live' = InPlace(MakeDirs(live, p), p, Blank)
           /\ snaps' = Through(snaps, live[p], Blank)
           /\ handle' = p
    /\ phase' = "copy"
    /\ UNCHANGED <<taker, now, commandVars, steps, failed, kept, runs, planned, mishaps,
                   calm, settled>>

(* It cannot: a file is in the way of a directory, the pre-image or the    *)
(* destination is one, or the call fails.                                  *)
RestoreFails ==
    /\ NextIs("restore")
    /\ LET p == Head(steps).path
           source == snaps[Head(steps).from][p]
           made == IF CanMakeDirs(live, p) THEN MakeDirs(live, p) ELSE live
       IN  \/ /\ ~CanMakeDirs(live, p) \/ source.kind = "dir" \/ IsDir(made, p)
              /\ live' = made
              /\ Succeeds
           \/ live' \in {live, made} /\ Mishap
    /\ failed' = failed + 1 /\ NextStep
    /\ UNCHANGED <<snaps, taker, now, commandVars, phase, handle, kept, runs, planned, calm>>

(* The data, into the file that was opened, wherever that is now. *)
CopyData ==
    /\ phase = "copy"
    /\ LET v == snaps[Head(steps).from][Head(steps).path].data
       IN  \/ /\ IF handle = None THEN UNCHANGED <<live, snaps>>
                 ELSE /\ live' = InPlace(live, handle, v)
                      /\ snaps' = Through(snaps, live[handle], v)
              /\ UNCHANGED failed /\ Succeeds
           \/ failed' = failed + 1 /\ UNCHANGED <<live, snaps>> /\ Mishap
    /\ phase' = "apply" /\ NextStep /\ handle' = None
    /\ UNCHANGED <<taker, now, commandVars, kept, runs, planned, calm>>

(* A path on the way to p is a file: ENOTDIR, and not "already gone". *)
Gone(p) == live[p] = None /\ CanMakeDirs(live, p)

MutRemoveAll ==
    /\ NextIs("remove")
    /\ LET p == Head(steps).path
           below == {q \in Path : p \in Up[q]}
       IN  live' = [q \in Path |-> IF q = p \/ q \in below THEN None ELSE live[q]]
    /\ NextStep
    /\ UNCHANGED <<snaps, taker, now, commandVars, phase, handle, failed, kept, runs,
                   planned, mishaps, calm, settled>>

MutRemoveMustExist ==
    /\ NextIs("remove")
    /\ LET p == Head(steps).path
       IN  \/ /\ IsFile(live, p) \/ (IsDir(live, p) /\ Inside(live, p) = {})
              /\ live' = [live EXCEPT ![p] = None]
              /\ UNCHANGED <<failed, kept>>
           \/ /\ IsDir(live, p) /\ Inside(live, p) # {}
              /\ kept' = kept + 1 /\ UNCHANGED <<live, failed>>
           \/ live[p] = None /\ failed' = failed + 1 /\ UNCHANGED <<live, kept>>
    /\ NextStep
    /\ UNCHANGED <<snaps, taker, now, commandVars, phase, handle, runs, planned, mishaps,
                   calm, settled>>

(* remove_dir or remove_file; a directory that is not empty is kept.       *)
RemoveCreated ==
    /\ NextIs("remove")
    /\ LET p == Head(steps).path
           full == IsDir(live, p) /\ Inside(live, p) # {}
       IN  \/ /\ IsFile(live, p) \/ (IsDir(live, p) /\ ~full)
              /\ live' = [live EXCEPT ![p] = None]
              /\ pending' = IF IsDir(live, p) THEN Orphaned(pending, p)
                            ELSE Relocated(pending, Unlinked(p))
              /\ UNCHANGED <<failed, kept>> /\ Succeeds
           \/ Gone(p) /\ UNCHANGED <<live, pending, failed, kept>> /\ Succeeds
           \/ full /\ kept' = kept + 1 /\ UNCHANGED <<live, pending, failed>> /\ Succeeds
           \/ /\ live[p] = None /\ ~Gone(p)
              /\ failed' = failed + 1
              /\ UNCHANGED <<live, pending, kept>> /\ Succeeds
           \/ ~full /\ failed' = failed + 1 /\ UNCHANGED <<live, pending, kept>> /\ Mishap
    /\ NextStep
    /\ UNCHANGED <<snaps, taker, now, ops, manifest, before, phase, handle, runs,
                   planned, calm>>

Skip ==
    /\ NextIs("skip")
    /\ NextStep
    /\ UNCHANGED <<treeVars, commandVars, phase, handle, failed, kept, runs, planned,
                   mishaps, calm, settled>>

Finish ==
    /\ phase = "apply" /\ steps = <<>>
    /\ phase' = "done"
    /\ settled' = IF settled = None /\ calm /\ failed = 0 /\ planned = snaps
                  THEN [p \in Path |-> Copy(live[p])] ELSE settled
    /\ UNCHANGED <<treeVars, commandVars, steps, handle, failed, kept, runs, planned,
                   mishaps, calm>>

(* chronicle is interrupted. *)
Killed ==
    /\ phase \in {"apply", "copy"} /\ Mishap
    /\ phase' = "idle" /\ steps' = <<>> /\ handle' = None
    /\ failed' = 0 /\ kept' = 0
    /\ UNCHANGED <<treeVars, commandVars, runs, planned, calm>>

-----------------------------------------------------------------------------
Next ==
    \/ Tick
    \/ TakeSnapshot \/ SnapshotEnds \/ \E p \in Path : CopyEntry(p)
    \/ \E who \in Actor : Act(who)
    \/ \E p \in Path : Attrib(p)
    \/ Record
    \/ PlanUndo \/ OpenRestored \/ RestoreFails \/ CopyData \/ RemoveCreated \/ Skip \/ Finish
    \/ Killed

Spec == Init /\ [][Next]_vars
=============================================================================
