-------------------------------- MODULE Graph --------------------------------
(***************************************************************************)
(* The tables of the causal graph and the statements the daemon and        *)
(* chronicle run on them, src/src/graph.rs.                                *)
(*                                                                         *)
(* A table is a set of rows, a statement an operator on it.  The           *)
(* connection's mutex makes each statement atomic; record_event_full holds *)
(* it over the lookup and the insert, so both are one step.                *)
(***************************************************************************)
EXTENDS ProcTree, FiniteSetsExt

CONSTANTS
    AncestryDepth,     \* the "c.depth < 64" of ancestry
    TreeDepth          \* the "t.depth < 256" of descendants and events_by_tree

ASSUME DepthAssumption == AncestryDepth \in Nat /\ TreeDepth \in Nat

(* A row of "processes", primary key (pid, start_ts).  inc is history. *)
ProcRow == [pid: Pid, start: Nat, ppid: Option(Pid), info: Option(Image),
            exit: Option(Nat), inc: Nat]

(* A row of "events": n is its id and stands for the path and the op too;  *)
(* start is proc_start, inc the number of the process that really wrote.   *)
EventRow == [n: Nat, pid: Pid, ts: Nat, start: Option(Nat), inc: Nat]

Keyed(R, p, s) == {r \in R : r.pid = p /\ r.start = s}

-----------------------------------------------------------------------------
MutRecordExistingByPid(R, p, node) ==
    IF \E r \in R : r.pid = p THEN R
    ELSE R \cup {[pid |-> p, start |-> node.start, ppid |-> node.ppid,
                  info |-> node.info, exit |-> None, inc |-> node.inc]}

(* INSERT OR IGNORE: a row with the key already there is left as it is. *)
RecordExisting(R, p, node) ==
    IF Keyed(R, p, node.start) # {} THEN R
    ELSE R \cup {[pid |-> p, start |-> node.start, ppid |-> node.ppid,
                  info |-> node.info, exit |-> None, inc |-> node.inc]}

MutRecordExitAnyStart(R, p, s, x) ==
    {IF r.pid = p THEN [r EXCEPT !.exit = x] ELSE r : r \in R}

RecordExitAt(R, p, s, x) ==
    {IF r.pid = p /\ r.start = s THEN [r EXCEPT !.exit = x] ELSE r : r \in R}

(* exit_ts IS NULL OR exit_ts >= ts *)
OpenAt(r, ts) == r.exit = None \/ r.exit >= ts

Started(R, p, ts) == {r \in R : r.pid = p /\ r.start <= ts}

Newest(R) == Max({r.start : r \in R})

MutResolveLive(R, p, ts) ==
    LET live == {r \in R : r.pid = p /\ r.exit = None}
    IN  IF live = {} THEN None ELSE Newest(live)

(* The fallback lookup: the newest incarnation that started by ts. *)
LastStarted(R, p, ts) ==
    IF Started(R, p, ts) = {} THEN None ELSE Newest(Started(R, p, ts))

(* The writer of an event recorded now: the newest incarnation whose       *)
(* window holds ts, or else the newest one that started by then.           *)
ResolveWriter(R, p, ts) ==
    LET inWindow == {r \in Started(R, p, ts) : OpenAt(r, ts)}
    IN  IF inWindow # {} THEN Newest(inWindow) ELSE LastStarted(R, p, ts)

-----------------------------------------------------------------------------
(* log_file: the stored binding, or a window match made when asked. *)
QueryStart(R, e) ==
    LET inWindow == {r \in Started(R, e.pid, e.ts) : OpenAt(r, e.ts)}
    IN  IF e.start # None THEN e.start
        ELSE IF inWindow # {} THEN Newest(inWindow)
        ELSE None

(* The process row log_file joins to an event: a set of at most one row. *)
Writer(R, e) == Keyed(R, e.pid, QueryStart(R, e))

(* One hop of ancestry: the parent's rows whose window holds r's start. *)
MutParentRows(R, r) == {q \in R : q.pid = r.ppid}

ParentRows(R, r) == {q \in R : q.pid = r.ppid /\ q.start <= r.start /\ OpenAt(q, r.start)}

(* The rows ancestry returns for the process (p, s), itself included. *)
Ancestry(R, p, s) ==
    LET level[d \in 0 .. AncestryDepth] ==
            IF d = 0 THEN Keyed(R, p, s)
            ELSE UNION {ParentRows(R, r) : r \in level[d - 1]}
    IN  UNION {level[d] : d \in 0 .. AncestryDepth}

MutChildRows(R, r) == {q \in R : q.pid = r.ppid}

(* One hop down of descendants and events_by_tree: the pid alone. *)
ChildRows(R, r) == {q \in R : q.ppid = r.pid}

Descendants(R, p, s) ==
    LET level[d \in 0 .. TreeDepth] ==
            IF d = 0 THEN Keyed(R, p, s)
            ELSE UNION {ChildRows(R, r) : r \in level[d - 1]}
    IN  UNION {level[d] : d \in 0 .. TreeDepth}

MutBelongsToEager(e, r) == e.pid = r.pid /\ e.start = r.start

(* An event belongs to a row by its stored binding or, left unbound, by    *)
(* its pid and a start no later than it: the exit is not looked at.        *)
BelongsTo(e, r) ==
    /\ e.pid = r.pid
    /\ e.start = r.start \/ (e.start = None /\ r.start <= e.ts)

(* The manifest of a process tree. *)
EventsByTree(R, E, p, s) ==
    {e \in E : \E r \in Descendants(R, p, s) : BelongsTo(e, r)}

-----------------------------------------------------------------------------
(* latest_start_ts: the newest life of a pid on record, dead or alive. *)
LatestStart(R, p) ==
    IF \E r \in R : r.pid = p THEN Newest({r \in R : r.pid = p}) ELSE None

MutPrunableUnpinned(R, E, before) == {r \in R : r.exit # None /\ r.exit < before}

MutPrunableOpen(R, E, before) ==
    {r \in R : /\ r.exit = None \/ r.exit < before
               /\ \A e \in E : e.pid = r.pid => e.ts < before}

(* The rows prune deletes: closed before the cutoff, and no event of that  *)
(* pid, whichever life it belongs to, is retained.                         *)
Prunable(R, E, before) ==
    {r \in R : /\ r.exit # None /\ r.exit < before
               /\ \A e \in E : e.pid = r.pid => e.ts < before}

RetainedEvents(E, before) == {e \in E : e.ts >= before}
=============================================================================
