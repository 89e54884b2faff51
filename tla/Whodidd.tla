------------------------------- MODULE Whodidd -------------------------------
(***************************************************************************)
(* The daemon, src/src/bin/whodidd.rs: the watcher threads (legacy and     *)
(* fid), the proc-connector thread and the eviction thread, which share    *)
(* the process table (one mutex), the graph (one mutex) and the append-    *)
(* only log, on a machine that forks, execs, exits and writes meanwhile.   *)
(* An action is what a thread does between taking a lock and giving it     *)
(* back, or one system call.                                               *)
(***************************************************************************)
EXTENDS Kernel

CONSTANTS
    Grace,         \* EXITED_GRACE_SECS
    QuickReuse,    \* may a pid come back while the daemon still remembers it?
    MaxFaults,     \* bound: calls that fail
    MaxCrashes     \* bound: deaths of the daemon

ASSUME GraceAssumption == Grace \in Nat
ASSUME QuickReuseAssumption == QuickReuse \in BOOLEAN
ASSUME FaultAssumption == MaxFaults \in Nat /\ MaxCrashes \in Nat

VARIABLES
    up,            \* the daemon runs
    graphUp,       \* graph is Some(_), not None
    tree,          \* the ProcTree
    rows, events,  \* the tables of graph.db
    log,           \* the lines of the JSONL log
    pc,            \* watcher -> where its thread stands
    cur,           \* watcher -> the event it is handling
    chain,         \* watcher -> what persist_chain has left to write
    stamp,         \* watcher -> the ts of record_event_full
    refused,       \* history: events whose line was never written to the log
    known,         \* watcher -> history: was cur's writer tracked when taken?
    connector,     \* where the proc-connector thread stands
    closing,       \* the exit it is about to write through
    faults, crashes

threadVars == <<pc, cur, chain, stamp, known>>
daemonVars == <<up, graphUp, tree, rows, events, log, refused, threadVars,
                connector, closing, faults, crashes>>
vars == <<kernelVars, daemonVars>>

NoEvent == OwnEvent
NoClosing == [pid |-> None, start |-> 0, exit |-> 0]

LogLine == [n: Nat, pid: Pid, info: Option(Image)]

Init ==
    /\ KernelInit
    /\ up = FALSE /\ graphUp = FALSE
    /\ tree = EmptyTable
    /\ rows = {} /\ events = {} /\ log = <<>> /\ refused = {}
    /\ pc = [w \in Watcher |-> "off"]
    /\ cur = [w \in Watcher |-> NoEvent]
    /\ chain = [w \in Watcher |-> <<>>]
    /\ stamp = [w \in Watcher |-> 0]
    /\ known = [w \in Watcher |-> FALSE]
    /\ connector = "off" /\ closing = NoClosing
    /\ faults = 0 /\ crashes = 0

(* A call whose error the code swallows or reports and goes on. *)
Fails == faults < MaxFaults /\ faults' = faults + 1
Succeeds == UNCHANGED faults

(* A write of the daemon's own to the log or the database, as the watchers *)
(* see it; the kernel merges it with one it has queued last.               *)
Echoed(Q) ==
    [w \in Watcher |->
        IF w \in OwnEvents \cap watching /\ (Q[w] = <<>> \/ Q[w][Len(Q[w])] # OwnEvent)
        THEN Append(Q[w], OwnEvent) ELSE Q[w]]

-----------------------------------------------------------------------------
(* The environment.  A pid is handed out again only once it is settled:    *)
(* never in the second of its last life's end, nor before the connector    *)
(* has read all about that life; and, unless QuickReuse, when the rest of  *)
(* the daemon has nothing left that names it: pids take longer than the    *)
(* grace to come round.                                                    *)
Unread(p) == \E i \in 1 .. Len(netlink) : p \in {netlink[i].pid, netlink[i].parent}

Remembered(p) ==
    \/ tree[p] # None
    \/ closing.pid = p
    \/ \E w \in Watcher :
          \/ cur[w].pid = p
          \/ pc[w] # "stopped" /\ \E i \in 1 .. Len(fanotify[w]) : fanotify[w][i].pid = p
          \/ \E i \in 1 .. Len(chain[w]) : chain[w][i].pid = p

Settled(p) ==
    /\ freed[p] # None => freed[p] < now
    /\ ~Unread(p)
    /\ \A r \in rows : p \in {r.pid, r.ppid} => r.start < now
    /\ \A e \in events : e.pid = p => e.ts < now
    /\ \A x \in Pid : tree[x] # None /\ (x = p \/ tree[x].ppid = p) => tree[x].start < now
    /\ Remembered(p) => QuickReuse

Machine ==
    /\ \/ \E q \in Pid, p \in Pid : Settled(p) /\ Fork(q, p)
       \/ \E p \in Pid, im \in Image : Exec(p, im)
       \/ \E p \in Pid : Exit(p)
       \/ \E w \in Watcher, p \in Pid : Write(w, p)
       \/ Tick
    /\ UNCHANGED daemonVars

-----------------------------------------------------------------------------
(* main(): open the graph or go on without one, seed the table from /proc  *)
(* or leave it empty, and start the threads.                               *)
Bootstrapped ==
    [p \in Pid |->
        IF holder[p] = 0 THEN None
        ELSE NewNode(ProcParent(p), ProcImage(p), now, holder[p])]

Boot ==
    /\ ~up
    /\ up' = TRUE
    /\ \/ graphUp' = TRUE /\ tree' = Bootstrapped /\ Succeeds
       \/ graphUp' = TRUE /\ tree' = EmptyTable /\ Fails
       \/ graphUp' = FALSE /\ tree' \in {Bootstrapped, EmptyTable} /\ Fails
    /\ missed' = FALSE
    /\ UNCHANGED <<now, procs, holder, freed, execs, written, netlink, subscribed,
                   watching, fanotify, rows, events, log, refused, threadVars,
                   connector, closing, crashes>>

(* proc_connector up to its loop: it listens, or reports and gives up. *)
Listen ==
    /\ up /\ connector = "off"
    /\ \/ connector' = "recv" /\ subscribed' = TRUE /\ Succeeds
       \/ connector' = "stopped" /\ UNCHANGED subscribed /\ Fails
    /\ UNCHANGED <<now, procs, holder, freed, execs, written, netlink, missed, watching,
                   fanotify, up, graphUp, tree, rows, events, log, refused, threadVars,
                   closing, crashes>>

(* A watcher up to its loop.  It is over when the mark is refused or, its  *)
(* group marked for good, the mount cannot be opened.  Errors that exit()  *)
(* the process are Crash.                                                  *)
Watch(w) ==
    /\ up /\ pc[w] = "off"
    /\ \/ /\ pc' = [pc EXCEPT ![w] = "idle"]
          /\ watching' = watching \cup {w} /\ Succeeds
       \/ /\ pc' = [pc EXCEPT ![w] = "stopped"]
          /\ watching' \in {watching, watching \cup {w}} /\ Fails
    /\ UNCHANGED <<now, procs, holder, freed, execs, written, netlink, subscribed, missed,
                   fanotify, up, graphUp, tree, rows, events, log, refused, cur, chain,
                   stamp, known, connector, closing, crashes>>

(* The process is killed: its memory and its sockets are gone, what it     *)
(* handed to SQLite and to the log file is kept.                           *)
Crash ==
    /\ up /\ crashes < MaxCrashes
    /\ crashes' = crashes + 1
    /\ up' = FALSE /\ graphUp' = FALSE
    /\ tree' = EmptyTable
    /\ pc' = [w \in Watcher |-> "off"]
    /\ cur' = [w \in Watcher |-> NoEvent]
    /\ chain' = [w \in Watcher |-> <<>>]
    /\ stamp' = [w \in Watcher |-> 0]
    /\ known' = [w \in Watcher |-> FALSE]
    /\ connector' = "off" /\ closing' = NoClosing
    /\ netlink' = <<>> /\ subscribed' = FALSE
    /\ watching' = {} /\ fanotify' = [w \in Watcher |-> <<>>]
    /\ UNCHANGED <<now, procs, holder, freed, execs, written, missed, rows, events, log, refused, faults>>

-----------------------------------------------------------------------------
(* A watcher thread. *)

(* read() fails: the loop breaks and the thread is over, its group unread. *)
ReadError(w) ==
    /\ pc[w] = "idle" /\ Fails
    /\ pc' = [pc EXCEPT ![w] = "stopped"]
    /\ UNCHANGED <<kernelVars, up, graphUp, tree, rows, events, log, refused, cur, chain,
                   stamp, known, connector, closing, crashes>>

(* An event nothing can be written of: its file's path cannot be told, for *)
(* instance because the directory is gone when the record is resolved.     *)
DropEvent(w) ==
    /\ pc[w] = "idle" /\ fanotify[w] # <<>> /\ Fails
    /\ Head(fanotify[w]).pid # Self
    /\ fanotify' = [fanotify EXCEPT ![w] = Tail(@)]
    /\ refused' = refused \cup {Head(fanotify[w]).n}
    /\ UNCHANGED <<now, procs, holder, freed, execs, written, netlink, subscribed, missed,
                   watching, up, graphUp, tree, rows, events, log, threadVars, connector,
                   closing, crashes>>

(* is_self: an event of the daemon's own writing is read and dropped. *)
IgnoreOwn(w) ==
    /\ pc[w] = "idle" /\ fanotify[w] # <<>>
    /\ Head(fanotify[w]).pid = Self
    /\ fanotify' = [fanotify EXCEPT ![w] = Tail(@)]
    /\ UNCHANGED <<now, procs, holder, freed, execs, written, netlink, subscribed,
                   missed, watching, daemonVars>>

AfterChain(c) == IF c = <<>> THEN "stamp" ELSE "insert"

(* Read an event; with a graph, persist_chain copies the chain to write. *)
TakeEvent(w) ==
    /\ pc[w] = "idle" /\ fanotify[w] # <<>>
    /\ LET e == Head(fanotify[w])
       IN  /\ e.pid # Self
           /\ cur' = [cur EXCEPT ![w] = e]
           /\ known' = [known EXCEPT ![w] = tree[e.pid] # None /\ tree[e.pid].inc = e.inc]
           /\ \/ /\ ~graphUp
                 /\ pc' = [pc EXCEPT ![w] = "log"]
                 /\ UNCHANGED chain
              \/ /\ graphUp
                 /\ \E c \in Climbs(tree, e.pid) :
                       /\ chain' = [chain EXCEPT ![w] = ChainOf(tree, c)]
                       /\ pc' = [pc EXCEPT ![w] = AfterChain(c)]
    /\ fanotify' = [fanotify EXCEPT ![w] = Tail(@)]
    /\ UNCHANGED <<now, procs, holder, freed, execs, written, netlink, subscribed, missed,
                   watching, up, graphUp, tree, rows, events, log, refused, stamp,
                   connector, closing, faults, crashes>>

MutInsertRowIgnoresError(w) ==
    /\ pc[w] = "insert"
    /\ \/ rows' = RecordExisting(rows, Head(chain[w]).pid, Head(chain[w]).node) /\ Succeeds
       \/ UNCHANGED rows /\ Fails
    /\ pc' = [pc EXCEPT ![w] = IF Head(chain[w]).node.exited = None THEN "mark" ELSE "exit"]
    /\ UNCHANGED <<kernelVars, up, graphUp, tree, events, log, refused, cur, chain, stamp,
                   known, connector, closing, crashes>>

(* record_existing for the next link; when it fails the link is skipped,   *)
(* neither closed nor marked.                                              *)
InsertRow(w) ==
    /\ pc[w] = "insert"
    /\ \/ /\ LET item == Head(chain[w])
             IN  /\ rows' = RecordExisting(rows, item.pid, item.node)
                 /\ pc' = [pc EXCEPT ![w] = IF item.node.exited = None THEN "mark" ELSE "exit"]
          /\ fanotify' = Echoed(fanotify)
          /\ UNCHANGED chain /\ Succeeds
       \/ /\ Fails
          /\ chain' = [chain EXCEPT ![w] = Tail(@)]
          /\ pc' = [pc EXCEPT ![w] = AfterChain(Tail(chain[w]))]
          /\ UNCHANGED <<rows, fanotify>>
    /\ UNCHANGED <<now, procs, holder, freed, execs, written, netlink, subscribed, missed,
                   watching, up, graphUp, tree, events, log, refused, cur, stamp, known,
                   connector, closing, crashes>>

(* record_exit_at for a link that had exited when it was copied. *)
WriteExit(w) ==
    /\ pc[w] = "exit"
    /\ pc' = [pc EXCEPT ![w] = "mark"]
    /\ LET item == Head(chain[w])
       IN  \/ /\ rows' = RecordExitAt(rows, item.pid, item.node.start, item.node.exited)
              /\ fanotify' = Echoed(fanotify)
              /\ Succeeds
           \/ UNCHANGED <<rows, fanotify>> /\ Fails
    /\ UNCHANGED <<now, procs, holder, freed, execs, written, netlink, subscribed, missed,
                   watching, up, graphUp, tree, events, log, refused, cur, chain, stamp,
                   known, connector, closing, crashes>>

Mark(w) ==
    /\ pc[w] = "mark"
    /\ tree' = MarkPersisted(tree, Head(chain[w]).pid)
    /\ chain' = [chain EXCEPT ![w] = Tail(@)]
    /\ pc' = [pc EXCEPT ![w] = AfterChain(Tail(chain[w]))]
    /\ UNCHANGED <<kernelVars, up, graphUp, rows, events, log, refused, cur, stamp, known,
                   connector, closing, faults, crashes>>

(* now_ts(), read before record_event_full takes the connection's lock. *)
Stamp(w) ==
    /\ pc[w] = "stamp"
    /\ stamp' = [stamp EXCEPT ![w] = now]
    /\ pc' = [pc EXCEPT ![w] = "record"]
    /\ UNCHANGED <<kernelVars, up, graphUp, tree, rows, events, log, refused, cur, chain,
                   known, connector, closing, faults, crashes>>

Recorded(w, start) ==
    [n |-> cur[w].n, pid |-> cur[w].pid, ts |-> stamp[w], start |-> start, inc |-> cur[w].inc]

Resolved(w) == ResolveWriter(rows, cur[w].pid, stamp[w])

(* A lookup that fails reads as one that found nothing. *)
ResolvedAmiss(w) == {LastStarted(rows, cur[w].pid, stamp[w]), None}

MutRecordEventKnownOnly(w) ==
    /\ pc[w] = "record"
    /\ pc' = [pc EXCEPT ![w] = "log"]
    /\ events' = IF Resolved(w) = None THEN events
                 ELSE events \cup {Recorded(w, Resolved(w))}
    /\ UNCHANGED <<kernelVars, up, graphUp, tree, rows, log, refused, cur, chain, stamp,
                   known, connector, closing, faults, crashes>>

MutRecordEventGivesUp(w) ==
    /\ pc[w] = "record"
    /\ \/ /\ events' = events \cup {Recorded(w, Resolved(w))}
          /\ pc' = [pc EXCEPT ![w] = "log"]
          /\ UNCHANGED cur /\ Succeeds
       \/ /\ pc' = [pc EXCEPT ![w] = "idle"]
          /\ cur' = [cur EXCEPT ![w] = NoEvent]
          /\ UNCHANGED events /\ Fails
    /\ UNCHANGED <<kernelVars, up, graphUp, tree, rows, log, refused, chain, stamp, known,
                   connector, closing, crashes>>

(* record_event_full: resolve the writer and insert the event. *)
RecordEvent(w) ==
    /\ pc[w] = "record"
    /\ pc' = [pc EXCEPT ![w] = "log"]
    /\ \/ /\ \/ events' = events \cup {Recorded(w, Resolved(w))} /\ Succeeds
             \/ \E start \in ResolvedAmiss(w) :
                   events' = events \cup {Recorded(w, start)} /\ Fails
          /\ fanotify' = Echoed(fanotify)
       \/ UNCHANGED <<events, fanotify>> /\ Fails
    /\ UNCHANGED <<now, procs, holder, freed, execs, written, netlink, subscribed, missed,
                   watching, up, graphUp, tree, rows, log, refused, cur, chain, stamp,
                   known, connector, closing, crashes>>

(* The identity of a line: the table's or, for a stranger, /proc's. *)
Identity(p) == IF tree[p] # None THEN tree[p].info ELSE ProcImage(p)

(* One line of the append-only log, or an error nobody looks at; the       *)
(* thread is done with the event.                                          *)
AppendLog(w) ==
    /\ pc[w] = "log"
    /\ \/ /\ log' = Append(log, [n |-> cur[w].n, pid |-> cur[w].pid,
                                 info |-> Identity(cur[w].pid)])
          /\ fanotify' = Echoed(fanotify)
          /\ UNCHANGED refused /\ Succeeds
       \/ refused' = refused \cup {cur[w].n} /\ UNCHANGED <<log, fanotify>> /\ Fails
    /\ pc' = [pc EXCEPT ![w] = "idle"]
    /\ cur' = [cur EXCEPT ![w] = NoEvent]
    /\ stamp' = [stamp EXCEPT ![w] = 0]
    /\ known' = [known EXCEPT ![w] = FALSE]
    /\ UNCHANGED <<now, procs, holder, freed, execs, written, netlink, subscribed, missed,
                   watching, up, graphUp, tree, rows, events, chain, connector,
                   closing, crashes>>

WatcherStep(w) ==
    \/ Watch(w) \/ IgnoreOwn(w) \/ TakeEvent(w) \/ InsertRow(w) \/ WriteExit(w)
    \/ Mark(w) \/ Stamp(w) \/ RecordEvent(w) \/ AppendLog(w)

-----------------------------------------------------------------------------
(* The proc-connector thread. *)
Receives(kind) ==
    /\ connector = "recv" /\ netlink # <<>>
    /\ Head(netlink).kind = kind
    /\ netlink' = Tail(netlink)

RecvFork ==
    /\ Receives("fork")
    /\ LET m == Head(netlink)
       IN  tree' = OnFork(tree, m.parent, m.pid, now, m.inc)
    /\ UNCHANGED <<now, procs, holder, freed, execs, written, subscribed, missed, watching,
                   fanotify, up, graphUp, rows, events, log, refused, threadVars,
                   connector, closing, faults, crashes>>

(* The image and the parent are read from /proc now, not at the exec. *)
RecvExec ==
    /\ Receives("exec")
    /\ LET m == Head(netlink)
       IN  tree' = OnExec(tree, m.pid, ProcImage(m.pid), ProcParent(m.pid), now, m.inc)
    /\ UNCHANGED <<now, procs, holder, freed, execs, written, subscribed, missed, watching,
                   fanotify, up, graphUp, rows, events, log, refused, threadVars,
                   connector, closing, faults, crashes>>

MutRecvExitUnguarded ==
    /\ Receives("exit")
    /\ LET p == Head(netlink).pid
       IN  /\ tree' = OnExit(tree, p, now)
           /\ connector' = "close"
           /\ closing' = [pid |-> p, start |-> ExitWriteThrough(tree, p), exit |-> now]
    /\ UNCHANGED <<now, procs, holder, freed, execs, written, subscribed, missed,
                   watching, fanotify, up, graphUp, rows, events, log, refused, threadVars,
                   faults, crashes>>

(* on_exit under the lock; the row of a persisted node is closed next. *)
RecvExit ==
    /\ Receives("exit")
    /\ LET p == Head(netlink).pid
           start == ExitWriteThrough(tree, p)
       IN  /\ tree' = OnExit(tree, p, now)
           /\ IF start # None /\ graphUp
              THEN connector' = "close" /\ closing' = [pid |-> p, start |-> start, exit |-> now]
              ELSE UNCHANGED <<connector, closing>>
    /\ UNCHANGED <<now, procs, holder, freed, execs, written, subscribed, missed, watching,
                   fanotify, up, graphUp, rows, events, log, refused, threadVars, faults, crashes>>

(* record_exit_at, outside the table's lock. *)
CloseRow ==
    /\ connector = "close"
    /\ \/ /\ rows' = RecordExitAt(rows, closing.pid, closing.start, closing.exit)
          /\ fanotify' = Echoed(fanotify)
          /\ Succeeds
       \/ UNCHANGED <<rows, fanotify>> /\ Fails
    /\ connector' = "recv" /\ closing' = NoClosing
    /\ UNCHANGED <<now, procs, holder, freed, execs, written, netlink, subscribed, missed,
                   watching, up, graphUp, tree, events, log, refused, threadVars, crashes>>

(* ENOBUFS: the loop breaks and the thread is over; nobody restarts it. *)
RecvOverrun ==
    /\ Receives("overrun")
    /\ connector' = "stopped" /\ subscribed' = FALSE
    /\ UNCHANGED <<now, procs, holder, freed, execs, written, missed, watching, fanotify,
                   up, graphUp, tree, rows, events, log, refused, threadVars, closing,
                   faults, crashes>>

ConnectorStep ==
    \/ Listen \/ RecvFork \/ RecvExec \/ RecvExit \/ CloseRow \/ RecvOverrun

(* The eviction thread's turn; the period is left open. *)
Evict ==
    /\ up
    /\ tree' = EvictStale(tree, now - Grace)
    /\ UNCHANGED <<kernelVars, up, graphUp, rows, events, log, refused, threadVars,
                   connector, closing, faults, crashes>>

-----------------------------------------------------------------------------
Next ==
    \/ Machine
    \/ Boot \/ Crash
    \/ \E w \in Watcher : WatcherStep(w) \/ ReadError(w) \/ DropEvent(w)
    \/ ConnectorStep
    \/ Evict

(* The scheduler runs every thread that can run, and a supervisor starts   *)
(* the daemon; nothing makes the machine fork, exec, exit or write.        *)
Fairness ==
    /\ WF_vars(Boot)
    /\ WF_vars(ConnectorStep)
    /\ \A w \in Watcher : WF_vars(WatcherStep(w))

Spec == Init /\ [][Next]_vars

FairSpec == Spec /\ Fairness
=============================================================================
