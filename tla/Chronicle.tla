------------------------------ MODULE Chronicle ------------------------------
(***************************************************************************)
(* chronicle beside the running daemon, src/src/bin/chronicle.rs: prune,   *)
(* which deletes from the tables the daemon inserts into, and trace, which *)
(* runs a command and reports what the graph says it touched.  It is a     *)
(* process of its own with a connection of its own, so that a statement is *)
(* atomic and two statements are two steps.                                *)
(***************************************************************************)
EXTENDS Attribution

CONSTANTS
    MaxPrunes,     \* bound: runs of prune --apply
    MaxTraces      \* bound: runs of trace, 0 or 1

ASSUME ChronicleAssumption == MaxPrunes \in Nat /\ MaxTraces \in {0, 1}

VARIABLES
    cutoff,        \* the cutoff of a prune that has deleted its processes
    prunes,        \* prunes so far
    tracer,        \* where the trace stands
    traced,        \* the number of the process it spawned
    picked,        \* start_ts
    manifest       \* what it reported

pruneVars == <<cutoff, prunes>>
traceVars == <<tracer, traced, picked, manifest>>
chronicleVars == <<vars, pruneVars, traceVars>>

ChronicleInit ==
    /\ Init
    /\ cutoff = None /\ prunes = 0
    /\ tracer = "off" /\ traced = 0 /\ picked = None /\ manifest = {}

TheRest == <<kernelVars, up, graphUp, tree, log, refused, threadVars, connector,
             closing, faults, crashes>>

-----------------------------------------------------------------------------
(* prune --apply: the processes first, while the events that pin them      *)
(* still exist.  The cutoff is any time expression, the future included.   *)
PruneProcesses ==
    /\ cutoff = None /\ prunes < MaxPrunes
    /\ prunes' = prunes + 1
    /\ \E before \in 0 .. now + 1 :
          /\ cutoff' = before
          /\ rows' = rows \ Prunable(rows, events, before)
    /\ UNCHANGED <<TheRest, events, traceVars>>

PruneEvents ==
    /\ cutoff # None
    /\ events' = RetainedEvents(events, cutoff)
    /\ cutoff' = None
    /\ UNCHANGED <<TheRest, rows, prunes, traceVars>>

(* The second statement fails or chronicle is killed: the first one stays. *)
PruneStopsHalfWay ==
    /\ cutoff # None
    /\ cutoff' = None
    /\ UNCHANGED <<vars, prunes, traceVars>>

-----------------------------------------------------------------------------
TracedPid == procs[traced].pid

(* Command::spawn: the command is a process like any other. *)
Spawn ==
    /\ tracer = "off" /\ MaxTraces = 1
    /\ \E q \in Pid, p \in Pid : Settled(p) /\ Fork(q, p)
    /\ tracer' = "poll" /\ traced' = Len(procs) + 1
    /\ UNCHANGED <<daemonVars, pruneVars, picked, manifest>>

(* The loop of 40 polls: it ends with the first row under the child's pid, *)
(* or with none.                                                           *)
Poll ==
    /\ tracer = "poll"
    /\ tracer' = "wait"
    /\ picked' = LatestStart(rows, TracedPid)
    /\ UNCHANGED <<vars, pruneVars, traced, manifest>>

(* child.wait(): it reaps the command, whose pid is free only then. *)
Wait ==
    /\ tracer = "wait" /\ ~Alive(traced)
    /\ tracer' = "settle"
    /\ UNCHANGED <<vars, pruneVars, traced, picked, manifest>>

Unreaped == tracer \in {"poll", "wait"} /\ ~Alive(traced)

(* 600 ms later: look once more for a start, if there was none yet. *)
LookAgain ==
    /\ tracer = "settle"
    /\ tracer' = "report"
    /\ picked' = IF picked # None THEN picked ELSE LatestStart(rows, TracedPid)
    /\ UNCHANGED <<vars, pruneVars, traced, manifest>>

(* The manifest, empty when the daemon never recorded the process. *)
Report ==
    /\ tracer = "report"
    /\ tracer' = "done"
    /\ manifest' = IF picked = None THEN {}
                   ELSE EventsByTree(rows, events, TracedPid, picked)
    /\ UNCHANGED <<vars, pruneVars, traced, picked>>

-----------------------------------------------------------------------------
ChronicleNext ==
    \/ /\ Next
       /\ Unreaped => holder'[TracedPid] = 0
       /\ UNCHANGED <<pruneVars, traceVars>>
    \/ PruneProcesses \/ PruneEvents \/ PruneStopsHalfWay
    \/ Spawn \/ Poll \/ Wait \/ LookAgain \/ Report

ChronicleSpec == ChronicleInit /\ [][ChronicleNext]_chronicleVars

-----------------------------------------------------------------------------
(* Pruning "would silently turn an attributed write back into an anonymous *)
(* one" if it took a row a retained event can bind to (graph.rs:556-561):  *)
(* no step of prune changes the writer log names for an event it keeps.    *)
RetainedStayAttributed ==
    [][prunes' # prunes =>
          \A e \in RetainedEvents(events, cutoff') : Writer(rows', e) = Writer(rows, e)]_chronicleVars

(* The daemon never writes a row again once its node is marked persisted,  *)
(* so a row of a process still running that prune took would leave all its *)
(* later writes anonymous (proctree.rs:148, graph.rs:572).                 *)
PruneSparesTheLiving ==
    NoRecycling =>
        \A p \in Pid : tree[p] # None /\ tree[p].persisted /\ tree[p].exited = None =>
            \E r \in Keyed(rows, p, tree[p].start) : r.inc = tree[p].inc /\ r.exit = None

(* The real parents of a process, itself included. *)
Forebears(i) ==
    LET line[d \in 0 .. MaxProcs] ==
            IF d = 0 THEN {i}
            ELSE line[d - 1] \cup {procs[j].parent : j \in line[d - 1] \ {0}}
    IN  line[MaxProcs]

(* "report everything it and its descendants touched", and nothing of the  *)
(* processes that write meanwhile (chronicle.rs:215-220), orphans included, *)
(* as long as no pid has been handed out twice.                            *)
TraceReportsItsOwn ==
    tracer = "done" /\ NoRecycling =>
        \A e \in manifest : traced \in Forebears(e.inc)
=============================================================================
