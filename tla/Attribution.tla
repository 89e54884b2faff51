----------------------------- MODULE Attribution -----------------------------
(***************************************************************************)
(* What the daemon's table, graph and log promise about who wrote what.    *)
(***************************************************************************)
EXTENDS Whodidd

(* No step may have failed and the daemon never died. *)
Undisturbed == faults = 0 /\ crashes = 0

(* Every queue drained and every thread waiting for more. *)
Quiet ==
    /\ up /\ connector = "recv" /\ netlink = <<>>
    /\ \A w \in Watcher : pc[w] = "idle" /\ fanotify[w] = <<>>

(* A row the pid's earlier life left open, though that process is gone. *)
LeftOpen(p, inc) ==
    \E r \in rows : r.pid = p /\ r.inc # inc /\ r.exit = None /\ ~Alive(r.inc)

(* The parent a row names: the process that forked it or, for a process    *)
(* whose parent died before the daemon looked, the one that adopted it.    *)
RealParent(r) == IF r.ppid = InitPid THEN 1 ELSE procs[r.inc].parent

(* No pid was handed out twice. *)
NoRecycling ==
    \A i, j \in 1 .. Len(procs) : procs[i].pid = procs[j].pid => i = j

-----------------------------------------------------------------------------
Place == {"off", "idle", "insert", "exit", "mark", "stamp", "record", "log", "stopped"}

(* The shape of the daemon's variables: a thread past the queue handles a  *)
(* stranger's event, and one that writes a chain has some left to write.   *)
DaemonTypeOK ==
    /\ up \in BOOLEAN /\ graphUp \in BOOLEAN
    /\ tree \in Tables
    /\ rows \subseteq ProcRow
    /\ events \subseteq EventRow
    /\ log \in Seq(LogLine) /\ refused \subseteq Nat
    /\ pc \in [Watcher -> Place]
    /\ cur \in [Watcher -> Event]
    /\ \A w \in Watcher : pc[w] \notin {"off", "idle", "stopped"} => cur[w].pid \in Pid
    /\ chain \in [Watcher -> Seq(ChainItem)]
    /\ \A w \in Watcher : pc[w] \in {"insert", "exit", "mark"} => chain[w] # <<>>
    /\ stamp \in [Watcher -> Nat]
    /\ known \in [Watcher -> BOOLEAN]
    /\ connector \in {"off", "recv", "close", "stopped"}
    /\ closing \in [pid: Option(Pid), start: Nat, exit: Nat]
    /\ faults \in Nat /\ crashes \in Nat

(* The shape of every variable. *)
TypeOK == KernelTypeOK /\ DaemonTypeOK

(* A node marked persisted has its row: the connector decides by the mark  *)
(* alone whether an exit is written through (whodidd.rs:896), and          *)
(* unpersisted_chain where to stop, so a mark without a row loses both.    *)
PersistedMeansStored ==
    \A p \in Pid : tree[p] # None /\ tree[p].persisted =>
        \E r \in Keyed(rows, p, tree[p].start) : r.inc = tree[p].inc

(* The row of q comes next: a watcher has still to write q and, after it,  *)
(* p, in a chain copied from the table.  With p's row there already that   *)
(* is a chain that goes round, the pid of a forebear having been given to  *)
(* a descendant, or one that another watcher writes at the same time.      *)
ParentUnderWay(q, p) ==
    \E w \in Watcher : \E i, j \in 1 .. Len(chain[w]) :
        i < j /\ chain[w][i].pid = q /\ chain[w][j].pid = p

(* Root first (whodidd.rs:263): whoever finds a child's row finds the row  *)
(* of its parent, even between two statements of persist_chain and with    *)
(* both watchers at work, as long as the parent is still in the table; or  *)
(* else a watcher is about to write the parent, and the child after it.    *)
AncestorsStored ==
    Undisturbed /\ ~missed =>
        \A r \in rows : \A q \in Pid :
            r.ppid = q /\ tree[q] # None /\ tree[q].start <= r.start =>
                Keyed(rows, q, tree[q].start) # {} \/ ParentUnderWay(q, r.pid)

(* An edge ancestry follows from a row is the real one (graph.rs:426): it  *)
(* may lack the parent, it never shows another life of the parent's pid,   *)
(* unless that life's row was wrongly left open.                           *)
EdgesAreReal ==
    Undisturbed =>
        \A r \in rows : \A q \in ParentRows(rows, r) :
            q.inc = RealParent(r) \/ LeftOpen(q.pid, RealParent(r))

(* A row is closed only when its own process is gone: an exit, which names *)
(* a bare pid, never closes another life of that pid (graph.rs:236-242).   *)
ClosedMeansGone == \A r \in rows : r.exit # None => ~Alive(r.inc)

(* An event whose writer was in the table when the watcher took it is      *)
(* bound to that writer's row, whatever the other threads evict, close or  *)
(* persist meanwhile (graph.rs:273-288).                                   *)
KnownWriterAttributed ==
    faults = 0 =>
        \A w \in Watcher :
            pc[w] = "log" /\ graphUp /\ known[w] /\ ~LeftOpen(cur[w].pid, cur[w].inc) =>
                \E e \in events, r \in rows :
                    /\ e.n = cur[w].n
                    /\ r.pid = e.pid /\ r.start = e.start /\ r.inc = cur[w].inc

(* "The graph is the queryable index built from" the log (README.md:194):  *)
(* a line of the log has its event, also when the daemon died in between.  *)
IndexCoversLog ==
    faults = 0 => \A i \in 1 .. Len(log) : \E e \in events : e.n = log[i].n

(* r is s or, by true parents, below it, each of the line stored.  A row   *)
(* that names no parent, as an exec of a process never heard of before may *)
(* leave one, hangs below no other.                                        *)
StoredLine(r, s) ==
    LET line[d \in 0 .. TreeDepth] ==
            IF d = 0 THEN {r}
            ELSE UNION {{q \in rows : x.ppid # None /\ q.inc = RealParent(x)} : x \in line[d - 1]}
    IN  \E d \in 0 .. TreeDepth : s \in line[d]

WrittenBelow(s) == {e \in events : \E r \in rows : r.inc = e.inc /\ StoredLine(r, s)}

(* Recorded unbound, in a second before the one the fork (or else an exec) *)
(* of its writer was read in.                                              *)
TooEarly(e) == e.start = None /\ \E r \in rows : r.inc = e.inc /\ e.ts < r.start

(* "Everything it and its descendants touched" (chronicle.rs:215): as long *)
(* as no pid is reused, the manifest of a stored process holds nothing     *)
(* that others wrote, and lacks nothing its stored tree wrote but what was *)
(* recorded too early.  That no later query recovers: "start_ts <= ts"     *)
(* (graph.rs:512) keeps it out for good, though graph.rs:362-373 is        *)
(* confident that both streams have long since settled by then.            *)
TreeManifestTrue ==
    Undisturbed /\ NoRecycling =>
        \A s \in rows :
            LET found == EventsByTree(rows, events, s.pid, s.start)
                made == WrittenBelow(s)
            IN  found \subseteq made /\ \A e \in made \ found : TooEarly(e)

-----------------------------------------------------------------------------
(* "Exit marks, it does not remove" (proctree.rs:19): a process leaves the *)
(* table of a running daemon only when its exit was received more than     *)
(* Grace seconds before.                                                   *)
PendingWriterKept ==
    [][\A p \in Pid :
          up /\ up' /\ tree[p] # None /\ tree'[p] = None =>
              tree[p].exited # None /\ tree[p].exited + Grace < now]_vars

-----------------------------------------------------------------------------
(* The log implements the audit trail: pending with a watcher are the      *)
(* events of others its group still holds and the one it is handling.      *)
Reports(q) == {q[i].n : i \in {j \in 1 .. Len(q) : q[j].pid # Self}}

PendingOf(w) == Reports(fanotify[w]) \cup (IF cur[w] = NoEvent THEN {} ELSE {cur[w].n})

Audit == INSTANCE AuditTrail WITH
    Source <- Watcher,
    MaxReports <- MaxWrites,
    reported <- written,
    pending <- [w \in Watcher |-> PendingOf(w)],
    trail <- [i \in 1 .. Len(log) |-> log[i].n],
    lost <- refused

(* Every line of the log is one reported event, none of the daemon's own   *)
(* (whodidd.rs:103-115), none twice, in the order of its watcher, with     *)
(* graph errors, a lost connector and a crash (whodidd.rs:321-324).        *)
LogIsAuditTrail == Audit!Spec

(* Every file event the kernel reported gets its line, in spite of errors  *)
(* of the graph and of the watchers reading the daemon's own writes,       *)
(* unless the log itself refuses it, its watcher's thread is over or the   *)
(* daemon died.                                                            *)
EveryWriteLogged ==
    \A n \in 1 .. MaxWrites :
        written >= n ~> \/ \E i \in 1 .. Len(log) : log[i].n = n
                        \/ n \in refused
                        \/ crashes > 0
                        \/ \E w \in Watcher : pc[w] = "stopped"
                              /\ \E i \in 1 .. Len(fanotify[w]) : fanotify[w][i].n = n
=============================================================================
