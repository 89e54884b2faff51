----------------------------- MODULE WriterProofs -----------------------------
(***************************************************************************)
(* An event whose writer the table knew is bound to that writer's row, for *)
(* every value of the constants with QuickReuse = FALSE: the watcher's     *)
(* copies, rows and lookups are steps apart, and the other watcher, the    *)
(* connector, the eviction and deaths of the daemon come in between.  From *)
(* the same invariant: the edges that ancestry follows are the real ones,  *)
(* as long as the daemon does not die (EdgeInv, the second part), and the  *)
(* rows of the ancestors are there as soon as a row is (LineInv, the last).*)
(***************************************************************************)
EXTENDS ExitProofs

(* By s the rows of the other lives of p are over: they started before,    *)
(* and those that were closed ended no later.                              *)
Over(p, i, s) ==
    \A r \in rows : r.pid = p /\ r.inc # i => r.start < s /\ (r.exit # None => r.exit <= s)

(* What means the latest life of a pid starts when its earlier ones, as    *)
(* far as they are closed, are over.                                       *)
LivesInOrder ==
    /\ \A p \in Pid : tree[p] # None => Over(p, tree[p].inc, tree[p].start)
    /\ \A w \in Watcher : \A i \in 1 .. Len(chain[w]) :
          Over(chain[w][i].pid, chain[w][i].node.inc, chain[w][i].node.start)
    /\ \A q \in rows : IsLatest(q.inc, q.pid) => Over(q.pid, q.inc, q.start)

(* No exit is before its start or in the future, wherever it is kept. *)
ExitTimes ==
    /\ \A r \in rows : r.exit # None => r.start <= r.exit /\ r.exit <= now
    /\ \A p \in Pid : tree[p] # None /\ tree[p].exited # None => tree[p].exited <= now
    /\ \A w \in Watcher : \A i \in 1 .. Len(chain[w]) :
          LET node == chain[w][i].node
          IN  /\ node.start <= now
              /\ node.exited # None => node.start <= node.exited /\ node.exited <= now
    /\ closing.start <= closing.exit /\ closing.exit <= now

(* The exit being written is that of the latest life of its pid. *)
ClosingLatest ==
    \A r \in rows : r.pid = closing.pid /\ r.start = closing.start => IsLatest(r.inc, r.pid)

(* An event that will be handled, or is, is of the latest life of its pid. *)
EventsLatest ==
    \A w \in Watcher :
        /\ cur[w].pid \in Pid => IsLatest(cur[w].inc, cur[w].pid)
        /\ pc[w] # "stopped" => \A i \in 1 .. Len(fanotify[w]) :
              fanotify[w][i].pid \in Pid => IsLatest(fanotify[w][i].inc, fanotify[w][i].pid)

(* The writer's row, from a start no later than t. *)
Stored(p, i, t) == \E r \in rows : r.pid = p /\ r.inc = i /\ r.start <= t

Attributed(w) ==
    \E e \in events, r \in rows :
        /\ e.n = cur[w].n
        /\ r.pid = e.pid /\ r.start = e.start /\ r.inc = cur[w].inc

(* Where the writer is, from the moment the event was taken: the last link *)
(* of the chain, then a row, at last the event's.                          *)
WriterAt(w) ==
    /\ pc[w] \in {"insert", "exit", "mark"} =>
          LET last == chain[w][Len(chain[w])]
          IN  last.pid = cur[w].pid /\ last.node.inc = cur[w].inc
    /\ pc[w] = "stamp" => Stored(cur[w].pid, cur[w].inc, now)
    /\ pc[w] = "record" => Stored(cur[w].pid, cur[w].inc, stamp[w])
    /\ pc[w] = "log" /\ ~LeftOpen(cur[w].pid, cur[w].inc) => Attributed(w)

WriterOnItsWay == faults = 0 /\ graphUp => \A w \in Watcher : known[w] => WriterAt(w)

(* The inductive invariant behind KnownWriterAttributed. *)
WriterParts == LivesInOrder /\ ExitTimes /\ ClosingLatest /\ EventsLatest /\ WriterOnItsWay

WriterInv == IInv /\ ExitInv /\ WriterParts

-----------------------------------------------------------------------------
(* What a step of the daemon may do to what names a life: rows keep their  *)
(* names and only those of a latest life are closed, a new row is that of  *)
(* a link; ...                                                             *)
SameName(q, r) == q.pid = r.pid /\ q.start = r.start /\ q.inc = r.inc

RowsGrow ==
    /\ \A r \in rows : \E q \in rows' :
          SameName(q, r) /\ (q.exit = r.exit \/ IsLatest(r.inc, r.pid))
    /\ \A q \in rows' :
          \/ \E r \in rows :
                /\ SameName(q, r)
                /\ \/ q.exit = r.exit
                   \/ /\ IsLatest(r.inc, r.pid)
                      /\ q.exit \in Nat /\ q.start <= q.exit /\ q.exit <= now
          \/ /\ q.exit = None
             /\ \E w \in Watcher : \E i \in 1 .. Len(chain[w]) :
                   /\ q.pid = chain[w][i].pid /\ q.start = chain[w][i].node.start
                   /\ q.inc = chain[w][i].node.inc

(* ... a node stays in place or is one of the latest life, of this second; *)
NodesGrow ==
    \A p \in Pid : tree'[p] # None =>
        \/ /\ tree[p] # None
           /\ tree'[p].start = tree[p].start /\ tree'[p].inc = tree[p].inc
           /\ tree'[p].exited = tree[p].exited \/ tree'[p].exited = now
        \/ /\ tree'[p].start = now /\ tree'[p].exited = None
           /\ IsLatest(tree'[p].inc, p)

(* ... links are copied from the table, and so is an exit to be written.   *)
LinksCopied ==
    \A w \in Watcher : \A i \in 1 .. Len(chain'[w]) :
        \/ \E k \in 1 .. Len(chain[w]) : chain'[w][i] = chain[w][k]
        \/ /\ chain'[w][i].pid \in Pid /\ tree[chain'[w][i].pid] # None
           /\ chain'[w][i].node = tree[chain'[w][i].pid]

ExitCopied ==
    \/ closing' = closing
    \/ closing' = NoClosing
    \/ \E p \in Pid : /\ tree[p] # None
                      /\ closing' = [pid |-> p, start |-> tree[p].start, exit |-> now]

DaemonStep == UNCHANGED <<now, procs, holder>> /\ RowsGrow /\ NodesGrow /\ LinksCopied /\ ExitCopied

(* Over stays true of a latest life. *)
LEMMA OverStays ==
    ASSUME TypeOK, LatestLives, RowsGrow, NEW p \in Pid, NEW i, NEW s, IsLatest(i, p), Over(p, i, s)
    PROVE  Over(p, i, s)'
<1> SUFFICES ASSUME NEW q \in rows', q.pid = p, q.inc # i
             PROVE  q.start < s /\ (q.exit # None => q.exit <= s)
  BY DEF Over
<1>1. ASSUME NEW r \in rows, SameName(q, r),
             q.exit = r.exit \/ IsLatest(r.inc, r.pid)
      PROVE  q.start < s /\ (q.exit # None => q.exit <= s)
  <2>1. r.pid = p /\ r.inc # i /\ q.start = r.start
    BY <1>1 DEF SameName
  <2>2. ~IsLatest(r.inc, r.pid)
    BY <2>1, LatestUnique
  <2> QED
    BY <1>1, <2>1, <2>2 DEF Over
<1>2. ASSUME NEW w \in Watcher, NEW k \in 1 .. Len(chain[w]),
             q.pid = chain[w][k].pid, q.inc = chain[w][k].node.inc
      PROVE  FALSE
  <2>1. IsLatest(q.inc, p)
    BY <1>2 DEF LatestLives
  <2> QED
    BY <2>1, LatestUnique
<1> QED
  BY <1>1, <1>2 DEF RowsGrow

(* By now every other life than the latest is over. *)
LEMMA LatestOver ==
    ASSUME TypeOK, LatestLives, ExitTimes, NEW p \in Pid, NEW i, IsLatest(i, p)
    PROVE  Over(p, i, now)
<1> SUFFICES ASSUME NEW r \in rows, r.pid = p, r.inc # i
             PROVE  r.start < now /\ (r.exit # None => r.exit <= now)
  BY DEF Over
<1>1. ~IsLatest(r.inc, r.pid)
  BY LatestUnique
<1> QED
  BY <1>1 DEF LatestLives, ExitTimes

LEMMA NodesOver ==
    ASSUME WriterInv, DaemonStep, NEW p \in Pid, tree'[p] # None
    PROVE  Over(p, tree[p].inc, tree[p].start)'
<1>1. TypeOK /\ LatestLives /\ RowsGrow /\ ExitTimes /\ LivesInOrder
  BY DEF WriterInv, IInv, Meanings, DaemonStep, WriterParts
<1>2. PICK i, s : i = tree'[p].inc /\ s = tree'[p].start
  OBVIOUS
<1>3. IsLatest(i, p) /\ Over(p, i, s)
  <2>1. CASE /\ tree[p] # None
             /\ tree'[p].start = tree[p].start /\ tree'[p].inc = tree[p].inc
    BY <1>1, <1>2, <2>1 DEF LatestLives, LivesInOrder
  <2>2. CASE tree'[p].start = now /\ IsLatest(tree'[p].inc, p)
    BY <1>1, <1>2, <2>2, LatestOver
  <2> QED
    BY <2>1, <2>2 DEF DaemonStep, NodesGrow
<1>4. \A q \in rows' : q.pid = p /\ q.inc # i => q.start < s /\ (q.exit # None => q.exit <= s)
  BY <1>1, <1>3, OverStays DEF Over
<1> QED
  BY <1>2, <1>4 DEF Over

LEMMA OrderKept ==
    ASSUME WriterInv, DaemonStep
    PROVE  LivesInOrder'
<1>1. TypeOK /\ LatestLives /\ RowsGrow /\ ExitTimes /\ LivesInOrder
  BY DEF WriterInv, IInv, Meanings, DaemonStep, WriterParts
<1>2. \A p \in Pid : tree'[p] # None => Over(p, tree[p].inc, tree[p].start)'
  BY NodesOver
<1>3. ASSUME NEW w \in Watcher, NEW k \in 1 .. Len(chain[w])
      PROVE  /\ IsLatest(chain[w][k].node.inc, chain[w][k].pid)
             /\ \A q \in rows' : q.pid = chain[w][k].pid /\ q.inc # chain[w][k].node.inc =>
                   /\ q.start < chain[w][k].node.start
                   /\ q.exit # None => q.exit <= chain[w][k].node.start
  <2>1. PICK p, i, s : p \in Pid /\ p = chain[w][k].pid /\ i = chain[w][k].node.inc /\ s = chain[w][k].node.start
    BY <1>1, LinkType
  <2>2. IsLatest(i, p) /\ Over(p, i, s)
    BY <1>1, <2>1 DEF LatestLives, LivesInOrder
  <2>3. Over(p, i, s)'
    BY <1>1, <2>1, <2>2, OverStays
  <2> QED
    BY <2>1, <2>2, <2>3 DEF Over
<1>4. ASSUME NEW w \in Watcher, NEW i \in 1 .. Len(chain'[w])
      PROVE  Over(chain[w][i].pid, chain[w][i].node.inc, chain[w][i].node.start)'
  <2>1. ASSUME NEW k \in 1 .. Len(chain[w]), chain'[w][i] = chain[w][k]
        PROVE  Over(chain[w][i].pid, chain[w][i].node.inc, chain[w][i].node.start)'
    BY <1>3, <2>1 DEF Over
  <2>2. ASSUME NEW p \in Pid, p = chain'[w][i].pid, tree[p] # None, chain'[w][i].node = tree[p]
        PROVE  Over(chain[w][i].pid, chain[w][i].node.inc, chain[w][i].node.start)'
    <3>1. IsLatest(tree[p].inc, p) /\ Over(p, tree[p].inc, tree[p].start)
      BY <1>1, <2>2 DEF LatestLives, LivesInOrder
    <3>2. PICK n, s : n = tree[p].inc /\ s = tree[p].start
      OBVIOUS
    <3>3. \A q \in rows' : q.pid = p /\ q.inc # n => q.start < s /\ (q.exit # None => q.exit <= s)
      BY <1>1, <3>1, <3>2, OverStays DEF Over
    <3> QED
      BY <2>2, <3>2, <3>3 DEF Over
  <2> QED
    BY <2>1, <2>2 DEF DaemonStep, LinksCopied
<1>5. ASSUME NEW q \in rows', IsLatest(q.inc, q.pid)'
      PROVE  Over(q.pid, q.inc, q.start)'
  <2>1. IsLatest(q.inc, q.pid)
    BY <1>5, LatestSame DEF DaemonStep
  <2>2. ASSUME NEW r \in rows, SameName(q, r)
        PROVE  \A x \in rows' : x.pid = q.pid /\ x.inc # q.inc =>
                  x.start < q.start /\ (x.exit # None => x.exit <= q.start)
    <3>1. PICK p, i, s : p \in Pid /\ p = q.pid /\ i = q.inc /\ s = q.start
      BY <1>1, <2>2 DEF SameName, TypeOK, DaemonTypeOK, ProcRow
    <3>2. Over(p, i, s)
      BY <1>1, <2>1, <2>2, <3>1 DEF LivesInOrder, SameName
    <3> QED
      BY <1>1, <2>1, <3>1, <3>2, OverStays DEF Over
  <2>3. ASSUME NEW w \in Watcher, NEW k \in 1 .. Len(chain[w]),
               q.pid = chain[w][k].pid, q.start = chain[w][k].node.start,
               q.inc = chain[w][k].node.inc
        PROVE  \A x \in rows' : x.pid = q.pid /\ x.inc # q.inc =>
                  x.start < q.start /\ (x.exit # None => x.exit <= q.start)
    BY <1>3, <2>3
  <2>4. \A x \in rows' : x.pid = q.pid /\ x.inc # q.inc =>
           x.start < q.start /\ (x.exit # None => x.exit <= q.start)
    BY <1>1, <2>2, <2>3 DEF RowsGrow
  <2> QED
    BY <2>4 DEF Over
<1> QED
  BY <1>2, <1>4, <1>5 DEF LivesInOrder
LEMMA TimesKept ==
    ASSUME WriterInv, DaemonStep
    PROVE  ExitTimes'
<1>1. TypeOK /\ NodeTimes /\ RowsGrow /\ ExitTimes /\ now' = now
  BY DEF WriterInv, IInv, ExitInv, ExitParts, DaemonStep, WriterParts
<1>2. now \in Nat
  BY <1>1 DEF TypeOK, KernelTypeOK
<1>3. ASSUME NEW q \in rows', q.exit # None PROVE q.start <= q.exit /\ q.exit <= now
  BY <1>1, <1>3 DEF RowsGrow, SameName, ExitTimes
<1>4. ASSUME NEW p \in Pid, tree'[p] # None, tree'[p].exited # None PROVE tree'[p].exited <= now
  BY <1>1, <1>2, <1>4 DEF DaemonStep, NodesGrow, ExitTimes
<1>5. ASSUME NEW w \in Watcher, NEW i \in 1 .. Len(chain'[w])
      PROVE  /\ chain'[w][i].node.start <= now
             /\ chain'[w][i].node.exited # None =>
                   /\ chain'[w][i].node.start <= chain'[w][i].node.exited
                   /\ chain'[w][i].node.exited <= now
  <2>1. CASE \E k \in 1 .. Len(chain[w]) : chain'[w][i] = chain[w][k]
    BY <1>1, <2>1 DEF ExitTimes
  <2>2. ASSUME NEW p \in Pid, tree[p] # None, chain'[w][i].node = tree[p]
        PROVE  /\ chain'[w][i].node.start <= now
               /\ chain'[w][i].node.exited # None =>
                     /\ chain'[w][i].node.start <= chain'[w][i].node.exited
                     /\ chain'[w][i].node.exited <= now
    BY <1>1, <2>2 DEF ExitTimes, NodeTimes
  <2> QED
    BY <2>1, <2>2 DEF DaemonStep, LinksCopied
<1>6. closing'.start <= closing'.exit /\ closing'.exit <= now
  <2>1. CASE closing' = closing
    BY <1>1, <2>1 DEF ExitTimes
  <2>2. CASE closing' = NoClosing
    BY <1>2, <2>2 DEF NoClosing
  <2>3. ASSUME NEW p \in Pid, tree[p] # None,
               closing' = [pid |-> p, start |-> tree[p].start, exit |-> now]
        PROVE  closing'.start <= closing'.exit /\ closing'.exit <= now
    BY <1>1, <1>2, <2>3 DEF NodeTimes
  <2> QED
    BY <2>1, <2>2, <2>3 DEF DaemonStep, ExitCopied
<1> QED
  BY <1>1, <1>3, <1>4, <1>5, <1>6 DEF ExitTimes

LEMMA ClosingKept ==
    ASSUME WriterInv, TypeOK', DaemonStep
    PROVE  ClosingLatest'
<1>1. TypeOK /\ LatestLives /\ RowsGrow /\ ClosingLatest /\ LivesInOrder
  BY DEF WriterInv, IInv, Meanings, DaemonStep, WriterParts
<1>2. SUFFICES ASSUME NEW q \in rows', q.pid = closing'.pid, q.start = closing'.start
               PROVE  IsLatest(q.inc, q.pid)
  BY LatestSame DEF ClosingLatest, DaemonStep
<1>3. q.pid \in Pid /\ q.start \in Nat
  BY DEF TypeOK, DaemonTypeOK, ProcRow
<1>4. ASSUME NEW w \in Watcher, NEW i \in 1 .. Len(chain[w]),
             q.pid = chain[w][i].pid, q.inc = chain[w][i].node.inc
      PROVE  IsLatest(q.inc, q.pid)
  BY <1>1, <1>4 DEF LatestLives
<1>5. ASSUME NEW r \in rows, SameName(q, r) PROVE IsLatest(q.inc, q.pid)
  <2>1. CASE closing' = closing
    BY <1>1, <1>2, <1>5, <2>1 DEF ClosingLatest, SameName
  <2>2. closing' # NoClosing
    BY <1>2, <1>3, PidAssumption DEF NoClosing
  <2>3. ASSUME NEW p \in Pid, tree[p] # None,
               closing' = [pid |-> p, start |-> tree[p].start, exit |-> now]
        PROVE  IsLatest(q.inc, q.pid)
    <3>1. r.pid = p /\ r.start = tree[p].start /\ r.start \in Nat
      BY <1>2, <1>3, <1>5, <2>3 DEF SameName
    <3>2. r.inc = tree[p].inc
      BY <1>1, <2>3, <3>1 DEF LivesInOrder, Over
    <3> QED
      BY <1>1, <1>5, <2>3, <3>1, <3>2 DEF LatestLives, SameName
  <2> QED
    BY <2>1, <2>2, <2>3 DEF DaemonStep, ExitCopied
<1> QED
  BY <1>1, <1>4, <1>5 DEF RowsGrow

(* The queues of events: an event is taken from the front or was there.    *)
QueuesRead ==
    \A w \in Watcher :
        /\ \A i \in 1 .. Len(fanotify'[w]) :
              \/ fanotify'[w][i].pid \notin Pid
              \/ \E k \in 1 .. Len(fanotify[w]) : fanotify'[w][i] = fanotify[w][k]
        /\ pc'[w] # "stopped" => pc[w] # "stopped"
        /\ \/ cur'[w] = cur[w]
           \/ cur'[w].pid \notin Pid
           \/ /\ pc[w] # "stopped"
              /\ \E k \in 1 .. Len(fanotify[w]) : cur'[w] = fanotify[w][k]

LEMMA EventsStay ==
    ASSUME EventsLatest, UNCHANGED procs, QueuesRead
    PROVE  EventsLatest'
<1>1. \A i, p : IsLatest(i, p)' <=> IsLatest(i, p)
  BY LatestSame
<1>2. SUFFICES ASSUME NEW w \in Watcher
               PROVE  /\ cur'[w].pid \in Pid => IsLatest(cur'[w].inc, cur'[w].pid)
                      /\ pc'[w] # "stopped" => \A i \in 1 .. Len(fanotify'[w]) :
                            fanotify'[w][i].pid \in Pid =>
                                IsLatest(fanotify'[w][i].inc, fanotify'[w][i].pid)
  BY <1>1 DEF EventsLatest
<1>3. cur'[w].pid \in Pid => IsLatest(cur'[w].inc, cur'[w].pid)
  BY DEF EventsLatest, QueuesRead
<1>4. ASSUME pc'[w] # "stopped", NEW i \in 1 .. Len(fanotify'[w]), fanotify'[w][i].pid \in Pid
      PROVE  IsLatest(fanotify'[w][i].inc, fanotify'[w][i].pid)
  BY <1>4 DEF EventsLatest, QueuesRead
<1> QED
  BY <1>3, <1>4

(* A row left open by an earlier life of p stays open. *)
LEMMA OpenStays ==
    ASSUME TypeOK, RowsGrow, UNCHANGED <<procs, holder>>,
           NEW p \in Pid, NEW i, IsLatest(i, p), LeftOpen(p, i)
    PROVE  LeftOpen(p, i)'
<1>1. PICK r \in rows : r.pid = p /\ r.inc # i /\ r.exit = None /\ ~Alive(r.inc)
  BY DEF LeftOpen
<1>2. PICK q \in rows' : SameName(q, r) /\ (q.exit = r.exit \/ IsLatest(r.inc, r.pid))
  BY DEF RowsGrow
<1>3. q.pid = p /\ q.inc # i /\ q.exit = None
  BY <1>1, <1>2, LatestUnique DEF SameName
<1>4. ~Alive(q.inc)'
  BY <1>1, <1>2 DEF Alive, SameName
<1> QED
  BY <1>3, <1>4 DEF LeftOpen

LEMMA StoredStays ==
    ASSUME RowsGrow, NEW p, NEW i, NEW t, Stored(p, i, t)
    PROVE  \E q \in rows' : q.pid = p /\ q.inc = i /\ q.start <= t
<1>1. PICK r \in rows : r.pid = p /\ r.inc = i /\ r.start <= t
  BY DEF Stored
<1> QED
  BY <1>1 DEF RowsGrow, SameName

(* The thread w is not the one that steps. *)
Calm(w) ==
    /\ faults' = 0 /\ graphUp' => faults = 0 /\ graphUp
    /\ events \subseteq events'
    /\ pc'[w] = pc[w] /\ cur'[w] = cur[w] /\ chain'[w] = chain[w] /\ stamp'[w] = stamp[w]
    /\ known'[w] = known[w]

LEMMA WayKept ==
    ASSUME TypeOK, EventsLatest, DaemonStep, NEW w \in Watcher, Calm(w), WriterAt(w)
    PROVE  WriterAt(w)'
<1>1. RowsGrow /\ UNCHANGED <<now, procs, holder>>
  BY DEF DaemonStep
<1>2. PICK p, i : p = cur[w].pid /\ i = cur[w].inc
  OBVIOUS
<1>3. cur'[w].pid = p /\ cur'[w].inc = i /\ cur'[w].n = cur[w].n
  BY <1>2 DEF Calm
<1>4. ASSUME pc'[w] \in {"insert", "exit", "mark"}
      PROVE  /\ chain'[w][Len(chain'[w])].pid = p
             /\ chain'[w][Len(chain'[w])].node.inc = i
  BY <1>2, <1>4 DEF Calm, WriterAt
<1>5. ASSUME pc'[w] = "stamp" PROVE Stored(p, i, now)'
  <2>1. Stored(p, i, now)
    BY <1>2, <1>5 DEF Calm, WriterAt
  <2> QED
    BY <1>1, <2>1, StoredStays DEF Stored
<1>6. ASSUME pc'[w] = "record" PROVE \E q \in rows' : q.pid = p /\ q.inc = i /\ q.start <= stamp'[w]
  <2>1. Stored(p, i, stamp[w])
    BY <1>2, <1>6 DEF Calm, WriterAt
  <2> QED
    BY <1>1, <2>1, StoredStays DEF Calm
<1>7. ASSUME pc'[w] = "log", ~LeftOpen(p, i)'
      PROVE  \E e \in events', q \in rows' :
                e.n = cur[w].n /\ q.pid = e.pid /\ q.start = e.start /\ q.inc = i
  <2>1. pc[w] = "log" /\ p \in Pid
    BY <1>2, <1>7 DEF Calm, TypeOK, DaemonTypeOK
  <2>2. IsLatest(i, p)
    BY <1>2, <2>1 DEF EventsLatest
  <2>3. ~LeftOpen(p, i)
    BY <1>1, <1>7, <2>1, <2>2, OpenStays
  <2>4. PICK e \in events, r \in rows :
           e.n = cur[w].n /\ r.pid = e.pid /\ r.start = e.start /\ r.inc = i
    BY <1>2, <2>1, <2>3 DEF WriterAt, Attributed
  <2>5. PICK q \in rows' : SameName(q, r)
    BY <1>1, <2>4 DEF RowsGrow
  <2>6. e \in events'
    BY DEF Calm
  <2> QED
    BY <2>4, <2>5, <2>6 DEF SameName
<1>8. \A x, y : LeftOpen(x, y)' <=> \E r \in rows' : r.pid = x /\ r.inc # y /\ r.exit = None /\ ~Alive(r.inc)'
  BY DEF LeftOpen
<1> QED
  BY <1>3, <1>4, <1>5, <1>6, <1>7, <1>8 DEF WriterAt, Stored, Attributed, LeftOpen

(* A step of the daemon, whose threads either stand or know where the      *)
(* writer is when they have stepped.                                       *)
LEMMA DaemonKeeps ==
    ASSUME WriterInv, TypeOK', DaemonStep, QueuesRead,
           \A w \in Watcher :
               Calm(w) \/ (faults' = 0 /\ graphUp' /\ known'[w] => WriterAt(w)')
    PROVE  WriterParts'
<1>1. TypeOK /\ EventsLatest /\ WriterOnItsWay
  BY DEF WriterInv, IInv, WriterParts
<1>2. ASSUME NEW w \in Watcher, faults' = 0, graphUp', known'[w] PROVE WriterAt(w)'
  <2>1. CASE Calm(w)
    <3>1. WriterAt(w)
      BY <1>1, <1>2, <2>1 DEF Calm, WriterOnItsWay
    <3> QED
      BY <1>1, <2>1, <3>1, WayKept
  <2> QED
    BY <1>2, <2>1
<1>3. WriterOnItsWay'
  BY <1>2 DEF WriterOnItsWay
<1>4. EventsLatest'
  BY <1>1, EventsStay DEF DaemonStep
<1> QED
  BY <1>3, <1>4, OrderKept, TimesKept, ClosingKept DEF WriterParts

-----------------------------------------------------------------------------
(* The kinds of steps. *)
LEMMA RowsSame ==
    ASSUME UNCHANGED rows
    PROVE  RowsGrow
  BY DEF RowsGrow, SameName

LEMMA RowsClosed ==
    ASSUME TypeOK, NEW p, NEW s \in Nat, NEW x \in Nat, s <= x, x <= now,
           rows' = RecordExitAt(rows, p, s, x),
           \A r \in rows : r.pid = p /\ r.start = s => IsLatest(r.inc, r.pid)
    PROVE  RowsGrow
<1> DEFINE Closed(r) == IF r.pid = p /\ r.start = s THEN [r EXCEPT !.exit = x] ELSE r
<1>1. rows \in SUBSET ProcRow
  BY DEF TypeOK, DaemonTypeOK
<1>2. \A r \in rows : /\ SameName(Closed(r), r)
                      /\ \/ Closed(r).exit = r.exit
                         \/ r.pid = p /\ r.start = s /\ Closed(r).exit = x
  BY <1>1 DEF ProcRow, SameName
<1>3. \A r \in rows :
         \/ Closed(r).exit = r.exit
         \/ /\ IsLatest(r.inc, r.pid)
            /\ Closed(r).exit \in Nat /\ Closed(r).start <= Closed(r).exit /\ Closed(r).exit <= now
  BY <1>2 DEF SameName
<1>4. rows' = {Closed(r) : r \in rows}
  BY DEF RecordExitAt
<1>5. \A q \in rows' : \E r \in rows : q = Closed(r)
  BY <1>4
<1>6. \A r \in rows : Closed(r) \in rows'
  BY <1>4
<1> HIDE DEF Closed
<1> QED
  BY <1>2, <1>3, <1>5, <1>6 DEF RowsGrow

LEMMA RowAdded ==
    ASSUME TypeOK, NEW w \in Watcher, NEW k \in 1 .. Len(chain[w]),
           rows' = RecordExisting(rows, chain[w][k].pid, chain[w][k].node)
    PROVE  RowsGrow
<1>1. rows \in SUBSET ProcRow /\ chain[w][k].pid \in Pid /\ chain[w][k].node \in ProcNode
  BY LinkType DEF TypeOK, DaemonTypeOK
<1>2. /\ rows \subseteq rows'
      /\ \A q \in rows' : \/ q \in rows
                         \/ /\ q.pid = chain[w][k].pid /\ q.start = chain[w][k].node.start
                            /\ q.inc = chain[w][k].node.inc /\ q.exit = None
  BY <1>1, RecordExistingStores
<1> QED
  BY <1>2 DEF RowsGrow, SameName

(* Nothing that names a life is touched. *)
LEMMA QuietStep ==
    ASSUME UNCHANGED <<now, procs, holder, tree, rows, chain, closing>>
    PROVE  DaemonStep
<1>1. NodesGrow /\ LinksCopied /\ ExitCopied
  BY DEF NodesGrow, LinksCopied, ExitCopied
<1> QED
  BY <1>1, RowsSame DEF DaemonStep

(* Nothing is said of a thread that handles no event. *)
LEMMA NoWay ==
    ASSUME NEW w, pc'[w] \in {"off", "idle", "stopped"}
    PROVE  WriterAt(w)'
  BY DEF WriterAt

LEMMA FaultsFirst ==
    ASSUME TypeOK, Fails
    PROVE  faults' # 0
  BY DEF Fails, TypeOK, DaemonTypeOK

(* ------------------------------- watchers ------------------------------ *)
LEMMA IdleWriter ==
    ASSUME WriterInv, TypeOK', NEW w \in Watcher,
           Watch(w) \/ IgnoreOwn(w) \/ ReadError(w) \/ DropEvent(w) \/ AppendLog(w)
    PROVE  WriterParts'
<1>1. TypeOK
  BY DEF WriterInv, IInv
<1>2. UNCHANGED <<now, procs, holder, tree, rows, chain, closing>>
  BY DEF Watch, IgnoreOwn, ReadError, DropEvent, AppendLog, kernelVars, daemonVars, threadVars
<1>3. pc'[w] \in {"off", "idle", "stopped"}
  BY <1>1 DEF Watch, IgnoreOwn, ReadError, DropEvent, AppendLog, daemonVars, threadVars,
              TypeOK, DaemonTypeOK
<1>4. ASSUME NEW v \in Watcher \ {w} PROVE Calm(v)
  <2>1. /\ pc'[v] = pc[v] /\ cur'[v] = cur[v] /\ chain'[v] = chain[v] /\ stamp'[v] = stamp[v]
        /\ known'[v] = known[v] /\ events \subseteq events'
    BY <1>1 DEF Watch, IgnoreOwn, ReadError, DropEvent, AppendLog, daemonVars, threadVars,
                TypeOK, DaemonTypeOK
  <2>2. faults' = 0 /\ graphUp' => faults = 0 /\ graphUp
    BY <1>1, FaultsFirst DEF Watch, IgnoreOwn, ReadError, DropEvent, AppendLog, daemonVars, Succeeds
  <2> QED
    BY <2>1, <2>2 DEF Calm
<1>5. QueuesRead
  <2>1. \A v \in Watcher : pc'[v] # "stopped" => pc[v] # "stopped"
    BY <1>1 DEF Watch, IgnoreOwn, ReadError, DropEvent, AppendLog, daemonVars, threadVars,
                TypeOK, DaemonTypeOK
  <2>2. \A v \in Watcher : cur'[v] = cur[v] \/ cur'[v].pid \notin Pid
    <3>1. NoEvent.pid \notin Pid
      BY SelfAssumption DEF NoEvent, OwnEvent
    <3> QED
      BY <1>1, <3>1 DEF Watch, IgnoreOwn, ReadError, DropEvent, AppendLog, daemonVars, threadVars,
                        TypeOK, DaemonTypeOK
  <2>3. \A v \in Watcher : \A i \in 1 .. Len(fanotify'[v]) :
           \/ fanotify'[v][i].pid \notin Pid
           \/ \E k \in 1 .. Len(fanotify[v]) : fanotify'[v][i] = fanotify[v][k]
    <3>1. CASE UNCHANGED fanotify
      BY <3>1
    <3>2. CASE fanotify' = Echoed(fanotify)
      BY <1>1, <3>2, OwnEchoes
    <3>3. CASE fanotify[w] # <<>> /\ fanotify' = [fanotify EXCEPT ![w] = Tail(@)]
      BY <1>1, <3>3, TookHead
    <3> QED
      BY <3>1, <3>2, <3>3 DEF Watch, IgnoreOwn, ReadError, DropEvent, AppendLog, kernelVars
  <2> QED
    BY <2>1, <2>2, <2>3 DEF QueuesRead
<1>6. DaemonStep
  BY <1>2, QuietStep
<1>7. \A v \in Watcher : Calm(v) \/ (faults' = 0 /\ graphUp' /\ known'[v] => WriterAt(v)')
  BY <1>3, <1>4, NoWay
<1> QED
  BY <1>5, <1>6, <1>7, DaemonKeeps

(* What the steps of a watcher that handles an event have in common: the   *)
(* others stand, and it keeps its event.                                   *)
LEMMA HandlingWriter ==
    ASSUME WriterInv, TypeOK', NEW w \in Watcher, DaemonStep,
           UNCHANGED <<cur, known, graphUp>>, Succeeds \/ Fails,
           events \subseteq events',
           \A v \in Watcher \ {w} : pc'[v] = pc[v] /\ chain'[v] = chain[v] /\ stamp'[v] = stamp[v],
           pc[w] # "stopped", fanotify' \in {fanotify, Echoed(fanotify)},
           faults' = 0 /\ faults = 0 /\ graphUp /\ known[w] /\ WriterAt(w) => WriterAt(w)'
    PROVE  WriterParts'
<1>1. TypeOK /\ WriterOnItsWay
  BY DEF WriterInv, IInv, WriterParts
<1>2. faults' = 0 => faults = 0
  BY <1>1, FaultsFirst DEF Succeeds
<1>3. QueuesRead
  <2>1. \A v \in Watcher : \A i \in 1 .. Len(fanotify'[v]) :
           \/ fanotify'[v][i].pid \notin Pid
           \/ \E k \in 1 .. Len(fanotify[v]) : fanotify'[v][i] = fanotify[v][k]
    <3>1. CASE UNCHANGED fanotify
      BY <3>1
    <3>2. CASE fanotify' = Echoed(fanotify)
      BY <1>1, <3>2, OwnEchoes
    <3> QED
      BY <3>1, <3>2
  <2> QED
    BY <2>1 DEF QueuesRead
<1>4. \A v \in Watcher \ {w} : Calm(v)
  BY <1>2 DEF Calm
<1>5. faults' = 0 /\ graphUp' /\ known'[w] => WriterAt(w)'
  BY <1>1, <1>2 DEF WriterOnItsWay
<1> QED
  BY <1>3, <1>4, <1>5, DaemonKeeps

LEMMA InsertRowWriter ==
    ASSUME WriterInv, TypeOK', NEW w \in Watcher, InsertRow(w)
    PROVE  WriterParts'
<1>1. TypeOK /\ pc[w] = "insert" /\ chain[w] # <<>>
  BY DEF WriterInv, IInv, InsertRow, TypeOK, DaemonTypeOK
<1>2. UNCHANGED <<now, procs, holder, tree, closing, cur, known, graphUp, events, stamp>>
  BY DEF InsertRow
<1>3. /\ Succeeds \/ Fails
      /\ fanotify' \in {fanotify, Echoed(fanotify)}
      /\ \A v \in Watcher \ {w} : pc'[v] = pc[v] /\ chain'[v] = chain[v]
  BY <1>1 DEF InsertRow, TypeOK, DaemonTypeOK
<1>4. NodesGrow /\ ExitCopied
  BY <1>2 DEF NodesGrow, ExitCopied
<1>5. CASE /\ rows' = RecordExisting(rows, Head(chain[w]).pid, Head(chain[w]).node)
           /\ UNCHANGED chain
           /\ pc' = [pc EXCEPT ![w] = IF Head(chain[w]).node.exited = None
                                     THEN "mark" ELSE "exit"]
  <2>1. 1 \in 1 .. Len(chain[w]) /\ Head(chain[w]) = chain[w][1]
    BY <1>1 DEF TypeOK, DaemonTypeOK
  <2>2. RowsGrow
    BY <1>1, <1>5, <2>1, RowAdded
  <2>3. DaemonStep
    BY <1>2, <1>4, <1>5, <2>2 DEF DaemonStep, LinksCopied
  <2>4. pc'[w] \in {"exit", "mark"}
    BY <1>1, <1>5 DEF TypeOK, DaemonTypeOK
  <2>5. WriterAt(w) => WriterAt(w)'
    BY <1>1, <1>2, <1>5, <2>4 DEF WriterAt
  <2> QED
    BY <1>1, <1>2, <1>3, <2>3, <2>5, HandlingWriter
<1>6. CASE /\ Fails /\ UNCHANGED rows
           /\ chain' = [chain EXCEPT ![w] = Tail(@)]
           /\ pc' = [pc EXCEPT ![w] = AfterChain(Tail(chain[w]))]
  <2>1. LinksCopied
    BY <1>1, <1>6, ChainShrinks DEF LinksCopied
  <2>2. DaemonStep
    BY <1>2, <1>4, <1>6, <2>1, RowsSame DEF DaemonStep
  <2>3. faults' # 0
    BY <1>1, <1>6, FaultsFirst
  <2> QED
    BY <1>1, <1>2, <1>3, <2>2, <2>3, HandlingWriter
<1> QED
  BY <1>5, <1>6 DEF InsertRow

LEMMA WriteExitWriter ==
    ASSUME WriterInv, TypeOK', NEW w \in Watcher, WriteExit(w)
    PROVE  WriterParts'
<1>1. /\ TypeOK /\ LatestLives /\ LivesInOrder /\ ExitTimes /\ LinkExited
      /\ pc[w] = "exit" /\ chain[w] # <<>>
  BY DEF WriterInv, IInv, Meanings, ExitInv, ExitParts, WriterParts, WriteExit, TypeOK, DaemonTypeOK
<1>2. UNCHANGED <<now, procs, holder, tree, closing, cur, known, graphUp, events, stamp, chain>>
  BY DEF WriteExit
<1>3. /\ Succeeds \/ Fails
      /\ fanotify' \in {fanotify, Echoed(fanotify)}
      /\ \A v \in Watcher \ {w} : pc'[v] = pc[v]
      /\ pc'[w] = "mark"
  BY <1>1 DEF WriteExit, TypeOK, DaemonTypeOK
<1>4. RowsGrow
  <2>1. PICK item : item = Head(chain[w])
    OBVIOUS
  <2>2. 1 \in 1 .. Len(chain[w]) /\ item = chain[w][1]
    BY <1>1, <2>1 DEF TypeOK, DaemonTypeOK
  <2>3. /\ item.node.exited # None /\ item.node.exited \in Nat
        /\ item.node.start \in Nat /\ item.pid \in Pid
    BY <1>1, <2>1, HeadOfChain DEF LinkExited, Option
  <2>4. item.node.start <= item.node.exited /\ item.node.exited <= now
    BY <1>1, <2>2, <2>3 DEF ExitTimes
  <2>5. ASSUME NEW r \in rows, r.pid = item.pid, r.start = item.node.start
        PROVE  IsLatest(r.inc, r.pid)
    <3>1. IsLatest(item.node.inc, item.pid) /\ Over(item.pid, item.node.inc, item.node.start)
      BY <1>1, <2>2 DEF LatestLives, LivesInOrder
    <3>2. r.inc = item.node.inc
      BY <2>3, <2>5, <3>1 DEF Over
    <3> QED
      BY <2>5, <3>1, <3>2
  <2>6. \/ UNCHANGED rows
        \/ rows' = RecordExitAt(rows, item.pid, item.node.start, item.node.exited)
    BY <2>1 DEF WriteExit
  <2> QED
    BY <1>1, <2>3, <2>4, <2>5, <2>6, RowsSame, RowsClosed
<1>5. DaemonStep
  BY <1>2, <1>4 DEF DaemonStep, NodesGrow, LinksCopied, ExitCopied
<1>6. WriterAt(w) => WriterAt(w)'
  BY <1>1, <1>2, <1>3 DEF WriterAt
<1> QED
  BY <1>1, <1>2, <1>3, <1>5, <1>6, HandlingWriter

LEMMA MarkWriter ==
    ASSUME WriterInv, TypeOK', NEW w \in Watcher, Mark(w)
    PROVE  WriterParts'
<1>1. /\ TypeOK /\ HeadStored /\ ExitTimes /\ pc[w] = "mark" /\ chain[w] # <<>> /\ tree \in Tables
  BY DEF WriterInv, IInv, Meanings, WriterParts, Mark, TypeOK, DaemonTypeOK
<1>2. UNCHANGED <<now, procs, holder, rows, closing, cur, known, graphUp, events, stamp, fanotify>>
  BY DEF Mark, kernelVars
<1>3. /\ Succeeds
      /\ \A v \in Watcher \ {w} : pc'[v] = pc[v] /\ chain'[v] = chain[v]
      /\ pc'[w] = AfterChain(Tail(chain[w])) /\ chain'[w] = Tail(chain[w])
  BY <1>1 DEF Mark, Succeeds, TypeOK, DaemonTypeOK
<1>4. PICK item : item = Head(chain[w])
  OBVIOUS
<1>5. /\ Len(chain[w]) \in Nat /\ 1 \in 1 .. Len(chain[w]) /\ item = chain[w][1]
      /\ Len(Tail(chain[w])) = Len(chain[w]) - 1
      /\ \A i \in 1 .. Len(Tail(chain[w])) : Tail(chain[w])[i] = chain[w][i + 1]
      /\ Tail(chain[w]) \in Seq(ChainItem)
      /\ Tail(chain[w]) = <<>> <=> Len(chain[w]) = 1
  <2>1. PICK c \in Seq(ChainItem) : c = chain[w]
    BY <1>1 DEF TypeOK, DaemonTypeOK
  <2>2. c # <<>> /\ item = Head(c)
    BY <1>1, <1>4, <2>1
  <2>3. /\ Len(c) \in Nat /\ 1 \in 1 .. Len(c) /\ Head(c) = c[1]
        /\ Tail(c) \in Seq(ChainItem) /\ Len(Tail(c)) = Len(c) - 1
        /\ \A i \in 1 .. Len(Tail(c)) : Tail(c)[i] = c[i + 1]
    BY <2>2
  <2>4. PICK t \in Seq(ChainItem) : t = Tail(c)
    BY <2>3
  <2>5. t = <<>> <=> Len(t) = 0
    OBVIOUS
  <2>6. Tail(c) = <<>> <=> Len(c) = 1
    BY <2>3, <2>4, <2>5
  <2> QED
    BY <2>1, <2>2, <2>3, <2>6
<1>6. item.pid \in Pid
  BY <1>1, <1>4, HeadOfChain
<1>7. DaemonStep
  <2>1. tree' = MarkPersisted(tree, item.pid)
    BY <1>4 DEF Mark
  <2>2. \A q \in Pid \ {item.pid} : tree'[q] = tree[q]
    BY <1>1, <1>6, <2>1, MarkPersistedTable
  <2>3. /\ tree[item.pid] = None => tree'[item.pid] = None
        /\ tree[item.pid] # None => /\ tree'[item.pid].start = tree[item.pid].start
                                    /\ tree'[item.pid].inc = tree[item.pid].inc
                                    /\ tree'[item.pid].exited = tree[item.pid].exited
    BY <1>1, <1>6, <2>1, MarkPersistedTable
  <2>4. NodesGrow
    BY <2>2, <2>3 DEF NodesGrow
  <2>5. LinksCopied
    <3>1. /\ chain' = [chain EXCEPT ![w] = Tail(@)]
          /\ pc' = [pc EXCEPT ![w] = AfterChain(Tail(chain[w]))]
      BY <1>1 DEF Mark
    <3> QED
      BY <1>1, <3>1, ChainShrinks DEF LinksCopied
  <2> QED
    BY <1>2, <2>4, <2>5, RowsSame DEF DaemonStep, ExitCopied
<1>8. ASSUME WriterAt(w) PROVE WriterAt(w)'
  <2>1. /\ chain[w][Len(chain[w])].pid = cur[w].pid
        /\ chain[w][Len(chain[w])].node.inc = cur[w].inc
    BY <1>1, <1>8 DEF WriterAt
  <2>2. CASE Len(chain[w]) = 1
    <3>1. pc'[w] = "stamp"
      BY <1>3, <1>5, <2>2 DEF AfterChain
    <3>2. PICK r \in rows : r.pid = item.pid /\ r.start = item.node.start /\ r.inc = item.node.inc
      BY <1>1, <1>4 DEF HeadStored, Keyed
    <3>3. r.start <= now
      BY <1>1, <1>5, <3>2 DEF ExitTimes
    <3> QED
      BY <1>2, <1>5, <2>1, <2>2, <3>1, <3>2, <3>3 DEF WriterAt, Stored
  <2>3. CASE Len(chain[w]) # 1
    <3>1. pc'[w] = "insert"
      BY <1>3, <1>5, <2>3 DEF AfterChain
    <3>2. Tail(chain[w])[Len(Tail(chain[w]))] = chain[w][Len(chain[w])]
      BY <1>5, <2>3
    <3> QED
      BY <1>2, <1>3, <2>1, <3>1, <3>2 DEF WriterAt
  <2> QED
    BY <2>2, <2>3
<1> QED
  BY <1>1, <1>2, <1>3, <1>7, <1>8, HandlingWriter

LEMMA StampWriter ==
    ASSUME WriterInv, TypeOK', NEW w \in Watcher, Stamp(w)
    PROVE  WriterParts'
<1>1. TypeOK /\ pc[w] = "stamp"
  BY DEF WriterInv, IInv, Stamp
<1>2. UNCHANGED <<now, procs, holder, tree, rows, chain, closing, cur, known, graphUp, events, fanotify>>
  BY DEF Stamp, kernelVars
<1>3. /\ Succeeds
      /\ \A v \in Watcher \ {w} : pc'[v] = pc[v] /\ stamp'[v] = stamp[v]
      /\ pc'[w] = "record" /\ stamp'[w] = now
  BY <1>1 DEF Stamp, Succeeds, TypeOK, DaemonTypeOK
<1>4. WriterAt(w) => WriterAt(w)'
  BY <1>1, <1>2, <1>3 DEF WriterAt, Stored
<1> QED
  BY <1>1, <1>2, <1>3, <1>4, QuietStep, HandlingWriter

(* The lookup finds the writer's row unless an earlier life left one open. *)
LEMMA RecordEventWriter ==
    ASSUME WriterInv, TypeOK', NEW w \in Watcher, RecordEvent(w)
    PROVE  WriterParts'
<1>1. /\ TypeOK /\ EventsLatest /\ LivesInOrder /\ ExitTimes /\ LatestLives /\ NamesTrue
      /\ pc[w] = "record" /\ cur[w].pid \in Pid /\ rows \in SUBSET ProcRow /\ stamp[w] \in Nat
  BY DEF WriterInv, IInv, Meanings, ExitInv, ExitParts, WriterParts, RecordEvent, TypeOK, DaemonTypeOK
<1>2. UNCHANGED <<now, procs, holder, tree, rows, chain, closing, cur, known, graphUp, stamp>>
  BY DEF RecordEvent
<1>3. /\ Succeeds \/ Fails
      /\ \A v \in Watcher \ {w} : pc'[v] = pc[v]
      /\ pc'[w] = "log" /\ fanotify' \in {fanotify, Echoed(fanotify)}
      /\ events \subseteq events'
  BY <1>1 DEF RecordEvent, TypeOK, DaemonTypeOK
<1>4. ASSUME faults' = 0, WriterAt(w), ~LeftOpen(cur[w].pid, cur[w].inc) PROVE Attributed(w)'
  <2>1. events' = events \cup {Recorded(w, Resolved(w))}
    BY <1>1, <1>4, FaultsFirst DEF RecordEvent
  <2>2. PICK p, i, ts : p = cur[w].pid /\ i = cur[w].inc /\ ts = stamp[w]
    OBVIOUS
  <2>3. PICK own \in rows : own.pid = p /\ own.inc = i /\ own.start <= ts
    BY <1>1, <1>4, <2>2 DEF WriterAt, Stored
  <2>4. IsLatest(i, p)
    BY <1>1, <2>2 DEF EventsLatest
  <2>5. Over(p, i, own.start)
    BY <1>1, <2>3, <2>4 DEF LivesInOrder
  <2>6. ASSUME NEW r \in rows, r.pid = p, r.inc # i
        PROVE  r.start < own.start /\ r.exit # None /\ r.exit <= own.start
    <3>1. ~IsLatest(r.inc, p)
      BY <1>1, <2>4, <2>6, LatestUnique
    <3>2. r.pid \in Pid /\ r.start \in Nat /\ r.inc \in Nat
      BY <1>1 DEF ProcRow
    <3>3. procs[r.inc].pid = p
      BY <1>1, <2>6, <3>2 DEF NamesTrue, Names
    <3>4. ~Alive(r.inc)
      BY <1>1, <2>2, <3>1, <3>3 DEF Alive, LatestLives
    <3>5. r.exit # None
      BY <1>4, <2>2, <2>6, <3>4 DEF LeftOpen
    <3> QED
      BY <2>5, <2>6, <3>5 DEF Over
  <2>7. own.exit # None => own.start <= own.exit
    BY <1>1 DEF ExitTimes
  <2>8. PICK r \in rows : r.pid = p /\ r.inc = i /\ r.start = ResolveWriter(rows, p, ts)
    BY <1>1, <2>2, <2>3, <2>6, <2>7, ResolvesToLatest
  <2>9. PICK e : e = Recorded(w, Resolved(w))
    OBVIOUS
  <2>10. e.n = cur[w].n /\ e.pid = p /\ e.start = ResolveWriter(rows, p, ts)
    BY <2>2, <2>9 DEF Recorded, Resolved
  <2> QED
    BY <1>2, <2>1, <2>2, <2>8, <2>9, <2>10 DEF Attributed
<1>5. LeftOpen(cur[w].pid, cur[w].inc)' <=> LeftOpen(cur[w].pid, cur[w].inc)
  BY <1>2 DEF LeftOpen, Alive
<1>6. faults' = 0 /\ WriterAt(w) => WriterAt(w)'
  BY <1>3, <1>4, <1>5 DEF WriterAt
<1> QED
  BY <1>1, <1>2, <1>3, <1>6, QuietStep, HandlingWriter

(* persist_chain copies its links from the table. *)
LEMMA TakeEventCopies ==
    ASSUME TypeOK, NEW w \in Watcher, TakeEvent(w)
    PROVE  LinksCopied
<1>1. tree \in Tables /\ fanotify[w] # <<>>
  BY DEF TakeEvent, TypeOK, DaemonTypeOK
<1>2. PICK e \in Event : e = Head(fanotify[w]) /\ e.pid \in Pid
  BY <1>1, QueueReads DEF TakeEvent, Event
<1>3. \A v \in Watcher \ {w} : chain'[v] = chain[v]
  BY DEF TakeEvent, TypeOK, DaemonTypeOK
<1>4. \/ UNCHANGED chain
      \/ \E c \in Climbs(tree, e.pid) : chain'[w] = ChainOf(tree, c)
  BY <1>2 DEF TakeEvent, TypeOK, DaemonTypeOK
<1>5. CASE UNCHANGED chain
  BY <1>5 DEF LinksCopied
<1>6. ASSUME NEW c \in Climbs(tree, e.pid), chain'[w] = ChainOf(tree, c)
      PROVE  LinksCopied
  <2>1. \A i \in 1 .. Len(ChainOf(tree, c)) :
           /\ ChainOf(tree, c)[i].pid \in Pid /\ tree[ChainOf(tree, c)[i].pid] # None
           /\ ChainOf(tree, c)[i].node = tree[ChainOf(tree, c)[i].pid]
    BY <1>1, <1>2, ChainOfClimb
  <2> QED
    BY <1>3, <1>6, <2>1 DEF LinksCopied
<1> QED
  BY <1>4, <1>5, <1>6

(* The event is taken: its writer is the last link copied, or its row is   *)
(* there already.                                                          *)
LEMMA TakeEventWriter ==
    ASSUME WriterInv, TypeOK', NEW w \in Watcher, TakeEvent(w)
    PROVE  WriterParts'
<1>1. /\ TypeOK /\ NodeTimes /\ PersistedMeansStored /\ tree \in Tables
      /\ pc[w] = "idle" /\ fanotify[w] # <<>>
  BY DEF WriterInv, IInv, Meanings, ExitInv, ExitParts, TakeEvent, TypeOK, DaemonTypeOK
<1>2. UNCHANGED <<now, procs, holder, tree, rows, closing, events, stamp, graphUp, faults>>
  BY DEF TakeEvent
<1>3. PICK e \in Event : e = Head(fanotify[w]) /\ e.pid \in Pid
  BY <1>1, QueueReads DEF TakeEvent, Event
<1>4. /\ cur'[w] = e
      /\ known'[w] => tree[e.pid] # None /\ tree[e.pid].inc = e.inc
      /\ \A v \in Watcher \ {w} : /\ pc'[v] = pc[v] /\ cur'[v] = cur[v] /\ chain'[v] = chain[v]
                                  /\ known'[v] = known[v]
  BY <1>1, <1>3 DEF TakeEvent, TypeOK, DaemonTypeOK
<1>5. \/ pc'[w] = "log" /\ ~graphUp /\ UNCHANGED chain
      \/ \E c \in Climbs(tree, e.pid) :
            /\ chain' = [chain EXCEPT ![w] = ChainOf(tree, c)]
            /\ chain'[w] = ChainOf(tree, c) /\ pc'[w] = AfterChain(c)
  BY <1>1, <1>3 DEF TakeEvent, TypeOK, DaemonTypeOK
<1>6. QueuesRead
  <2>1. fanotify' = [fanotify EXCEPT ![w] = Tail(@)]
    BY DEF TakeEvent
  <2>2. /\ \A v \in Watcher : \A i \in 1 .. Len(fanotify'[v]) :
              \E k \in 1 .. Len(fanotify[v]) : fanotify'[v][i] = fanotify[v][k]
        /\ \E k \in 1 .. Len(fanotify[w]) : e = fanotify[w][k]
    BY <1>1, <1>3, <2>1, TookHead
  <2> QED
    BY <1>1, <1>4, <2>2 DEF QueuesRead
<1>7. LinksCopied
  BY <1>1, TakeEventCopies
<1>8. DaemonStep
  BY <1>2, <1>7, RowsSame DEF DaemonStep, NodesGrow, ExitCopied
<1>9. ASSUME graphUp', known'[w] PROVE WriterAt(w)'
  <2>1. PICK c \in Climbs(tree, e.pid) : chain'[w] = ChainOf(tree, c) /\ pc'[w] = AfterChain(c)
    BY <1>2, <1>5, <1>9
  <2>2. PICK copy : copy = ChainOf(tree, c)
    OBVIOUS
  <2>3. /\ copy = <<>> <=> c = <<>>
        /\ copy = <<>> => ~Unpersisted(tree, e.pid)
        /\ copy # <<>> => copy[Len(copy)].pid = e.pid /\ copy[Len(copy)].node = tree[e.pid]
    BY <1>1, <1>3, <2>2, ChainOfClimb, ChainEndsAtClimbed
  <2>4. CASE c # <<>>
    <3>1. pc'[w] = "insert" /\ chain'[w] = copy
      BY <2>1, <2>2, <2>4 DEF AfterChain
    <3> QED
      BY <1>4, <1>9, <2>3, <2>4, <3>1 DEF WriterAt
  <2>5. CASE c = <<>>
    <3>1. pc'[w] = "stamp"
      BY <2>1, <2>5 DEF AfterChain
    <3>2. tree[e.pid] # None /\ tree[e.pid].persisted /\ tree[e.pid].inc = e.inc
      BY <1>4, <1>9, <2>3, <2>5 DEF Unpersisted
    <3>3. PICK r \in rows : r.pid = e.pid /\ r.start = tree[e.pid].start /\ r.inc = e.inc
      BY <1>1, <1>3, <3>2 DEF PersistedMeansStored, Keyed
    <3>4. r.start <= now
      BY <1>1, <1>3, <3>2, <3>3 DEF NodeTimes
    <3> QED
      BY <1>2, <1>4, <3>1, <3>3, <3>4 DEF WriterAt, Stored
  <2> QED
    BY <2>4, <2>5
<1>10. \A v \in Watcher \ {w} : Calm(v)
  BY <1>2, <1>4 DEF Calm
<1> QED
  BY <1>6, <1>8, <1>9, <1>10, DaemonKeeps

(* ------------------- the connector, the eviction, main ----------------- *)
LEMMA OtherWriter ==
    ASSUME WriterInv, TypeOK', DaemonStep, UNCHANGED <<threadVars, events>>,
           fanotify' \in {fanotify, Echoed(fanotify)},
           \/ (Succeeds \/ Fails) /\ UNCHANGED graphUp
           \/ \A w \in Watcher : pc[w] = "off"
    PROVE  WriterParts'
<1>1. TypeOK
  BY DEF WriterInv, IInv
<1>2. QueuesRead
  <2>1. \A v \in Watcher : \A i \in 1 .. Len(fanotify'[v]) :
           \/ fanotify'[v][i].pid \notin Pid
           \/ \E k \in 1 .. Len(fanotify[v]) : fanotify'[v][i] = fanotify[v][k]
    <3>1. CASE UNCHANGED fanotify
      BY <3>1
    <3>2. CASE fanotify' = Echoed(fanotify)
      BY <1>1, <3>2, OwnEchoes
    <3> QED
      BY <3>1, <3>2
  <2> QED
    BY <2>1 DEF QueuesRead, threadVars
<1>3. CASE (Succeeds \/ Fails) /\ UNCHANGED graphUp
  <2>1. faults' = 0 /\ graphUp' => faults = 0 /\ graphUp
    BY <1>1, <1>3, FaultsFirst DEF Succeeds
  <2>2. \A w \in Watcher : Calm(w)
    BY <2>1 DEF Calm, threadVars
  <2> QED
    BY <1>2, <2>2, DaemonKeeps
<1>4. CASE \A w \in Watcher : pc[w] = "off"
  <2>1. \A w \in Watcher : WriterAt(w)'
    BY <1>4 DEF WriterAt, threadVars
  <2> QED
    BY <1>2, <2>1, DaemonKeeps
<1> QED
  BY <1>3, <1>4

LEMMA QuietWriter ==
    ASSUME WriterInv, TypeOK', Listen \/ RecvOverrun \/ UNCHANGED vars
    PROVE  WriterParts'
<1>1. UNCHANGED <<now, procs, holder, tree, rows, chain, closing>>
  BY DEF Listen, RecvOverrun, vars, kernelVars, daemonVars, threadVars
<1>2. /\ UNCHANGED <<threadVars, events, graphUp, fanotify>>
      /\ Succeeds \/ Fails
  BY DEF Listen, RecvOverrun, vars, kernelVars, daemonVars, Succeeds
<1> QED
  BY <1>1, <1>2, QuietStep, OtherWriter

LEMMA RecvForkWriter == WriterInv /\ TypeOK' /\ RecvFork => WriterParts'
<1> SUFFICES ASSUME WriterInv, TypeOK', RecvFork PROVE WriterParts'
  OBVIOUS
<1>1. TypeOK /\ LatestLives /\ Receives("fork") /\ tree \in Tables /\ now \in Nat
  BY DEF WriterInv, IInv, Meanings, RecvFork, TypeOK, KernelTypeOK, DaemonTypeOK
<1>2. PICK p \in Pid, q \in Option(Pid), n \in Nat :
         p = Head(netlink).pid /\ q = Head(netlink).parent /\ n = Head(netlink).inc
  BY <1>1, HeadOfNetlink
<1>3. IsLatest(n, p)
  BY <1>1, <1>2, ReadsQueue, MessageType DEF LatestLives
<1>4. tree' = OnFork(tree, q, p, now, n)
  BY <1>2 DEF RecvFork
<1>5. tree'[p] = NewNode(q, None, now, n) /\ \A x \in Pid \ {p} : tree'[x] = tree[x]
  BY <1>1, <1>4, OnForkTable
<1>6. NodesGrow
  BY <1>3, <1>5 DEF NodesGrow, NewNode
<1>7. DaemonStep
  BY <1>6, RowsSame DEF RecvFork, threadVars, DaemonStep, LinksCopied, ExitCopied
<1> QED
  BY <1>7, OtherWriter DEF RecvFork, Succeeds

LEMMA RecvExecWriter == WriterInv /\ TypeOK' /\ RecvExec => WriterParts'
<1> SUFFICES ASSUME WriterInv, TypeOK', RecvExec PROVE WriterParts'
  OBVIOUS
<1>1. TypeOK /\ LatestLives /\ Receives("exec") /\ tree \in Tables /\ now \in Nat
  BY DEF WriterInv, IInv, Meanings, RecvExec, TypeOK, KernelTypeOK, DaemonTypeOK
<1>2. PICK p \in Pid, n \in Nat : p = Head(netlink).pid /\ n = Head(netlink).inc
  BY <1>1, HeadOfNetlink
<1>3. IsLatest(n, p)
  BY <1>1, <1>2, ReadsQueue, MessageType DEF LatestLives
<1>4. PICK im \in Option(Image), q \in Option(Pid) : im = ProcImage(p) /\ q = ProcParent(p)
  BY <1>1, ProcReads
<1>5. tree' = OnExec(tree, p, im, q, now, n)
  BY <1>2, <1>4 DEF RecvExec
<1>6. /\ \A x \in Pid \ {p} : tree'[x] = tree[x]
      /\ tree[p] = None => tree'[p] = NewNode(q, im, now, n)
      /\ tree[p] # None => /\ tree'[p].start = tree[p].start
                           /\ tree'[p].inc = tree[p].inc
                           /\ tree'[p].exited = tree[p].exited
  BY <1>1, <1>5, OnExecTable
<1>7. NodesGrow
  BY <1>3, <1>6 DEF NodesGrow, NewNode
<1>8. DaemonStep
  BY <1>7, RowsSame DEF RecvExec, threadVars, DaemonStep, LinksCopied, ExitCopied
<1> QED
  BY <1>8, OtherWriter DEF RecvExec, Succeeds

LEMMA RecvExitWriter == WriterInv /\ TypeOK' /\ RecvExit => WriterParts'
<1> SUFFICES ASSUME WriterInv, TypeOK', RecvExit PROVE WriterParts'
  OBVIOUS
<1>1. TypeOK /\ Receives("exit") /\ tree \in Tables /\ now \in Nat
  BY DEF WriterInv, IInv, RecvExit, TypeOK, KernelTypeOK, DaemonTypeOK
<1>2. PICK p \in Pid : p = Head(netlink).pid
  BY <1>1, HeadOfNetlink
<1>3. tree' = OnExit(tree, p, now)
  BY <1>2 DEF RecvExit
<1>4. /\ \A x \in Pid \ {p} : tree'[x] = tree[x]
      /\ tree[p] = None => tree'[p] = None
      /\ tree[p] # None => /\ tree'[p].start = tree[p].start
                           /\ tree'[p].inc = tree[p].inc
                           /\ tree'[p].exited = now
  BY <1>1, <1>3, OnExitTable
<1>5. NodesGrow
  BY <1>4 DEF NodesGrow
<1>6. ExitCopied
  BY <1>2 DEF RecvExit, ExitWriteThrough, ExitCopied
<1>7. DaemonStep
  BY <1>5, <1>6, RowsSame DEF RecvExit, threadVars, DaemonStep, LinksCopied
<1> QED
  BY <1>7, OtherWriter DEF RecvExit, Succeeds

LEMMA CloseRowWriter == WriterInv /\ TypeOK' /\ CloseRow => WriterParts'
<1> SUFFICES ASSUME WriterInv, TypeOK', CloseRow PROVE WriterParts'
  OBVIOUS
<1>1. TypeOK /\ ClosingLatest /\ ExitTimes
  BY DEF WriterInv, IInv, WriterParts
<1>2. /\ closing.start \in Nat /\ closing.exit \in Nat
      /\ closing.start <= closing.exit /\ closing.exit <= now
  BY <1>1 DEF TypeOK, DaemonTypeOK, ExitTimes
<1>3. RowsGrow
  <2>1. UNCHANGED rows \/ rows' = RecordExitAt(rows, closing.pid, closing.start, closing.exit)
    BY DEF CloseRow
  <2> QED
    BY <1>1, <1>2, <2>1, RowsSame, RowsClosed DEF ClosingLatest
<1>4. DaemonStep
  BY <1>3 DEF CloseRow, threadVars, DaemonStep, NodesGrow, LinksCopied, ExitCopied
<1> QED
  BY <1>4, OtherWriter DEF CloseRow

LEMMA EvictWriter == WriterInv /\ TypeOK' /\ Evict => WriterParts'
<1> SUFFICES ASSUME WriterInv, TypeOK', Evict PROVE WriterParts'
  OBVIOUS
<1>1. NodesGrow
  BY DEF Evict, EvictStale, NodesGrow
<1>2. DaemonStep
  BY <1>1, RowsSame DEF Evict, kernelVars, threadVars, DaemonStep, LinksCopied, ExitCopied
<1> QED
  BY <1>2, OtherWriter DEF Evict, kernelVars, Succeeds

LEMMA BootWriter == WriterInv /\ TypeOK' /\ Boot => WriterParts'
<1> SUFFICES ASSUME WriterInv, TypeOK', Boot PROVE WriterParts'
  OBVIOUS
<1>1. TypeOK /\ LatestLives /\ \A w \in Watcher : pc[w] = "off"
  BY DEF WriterInv, IInv, Meanings, DownIsEmpty, Boot
<1>2. ASSUME NEW p \in Pid, tree'[p] # None
      PROVE  /\ tree'[p].start = now /\ tree'[p].exited = None
             /\ IsLatest(tree'[p].inc, p)
  <2>1. tree'[p] = NewNode(ProcParent(p), ProcImage(p), now, holder[p]) /\ holder[p] # 0
    BY <1>2, BootNodes
  <2>2. IsLatest(holder[p], p)
    BY <1>1, <2>1 DEF LatestLives
  <2>3. tree'[p].start = now /\ tree'[p].exited = None /\ tree'[p].inc = holder[p]
    BY <2>1 DEF NewNode
  <2> QED
    BY <2>2, <2>3
<1>3. NodesGrow
  BY <1>2 DEF NodesGrow
<1>4. DaemonStep
  BY <1>3, RowsSame DEF Boot, threadVars, DaemonStep, LinksCopied, ExitCopied
<1> QED
  BY <1>1, <1>4, OtherWriter DEF Boot

LEMMA CrashWriter == WriterInv /\ TypeOK' /\ Crash => WriterParts'
<1> SUFFICES ASSUME WriterInv, TypeOK', Crash PROVE WriterParts'
  OBVIOUS
<1>1. NodesGrow /\ LinksCopied /\ ExitCopied
  BY DEF Crash, EmptyTable, NodesGrow, LinksCopied, ExitCopied
<1>2. DaemonStep
  BY <1>1, RowsSame DEF Crash, DaemonStep
<1>3. NoEvent.pid \notin Pid
  BY SelfAssumption DEF NoEvent, OwnEvent
<1>4. /\ \A w \in Watcher : pc'[w] = "off" /\ cur'[w] = NoEvent /\ fanotify'[w] = <<>>
  BY DEF Crash
<1>5. EventsLatest'
  BY <1>3, <1>4 DEF EventsLatest
<1>6. WriterOnItsWay'
  BY <1>4 DEF WriterOnItsWay, WriterAt
<1> QED
  BY <1>2, <1>5, <1>6, OrderKept, TimesKept, ClosingKept DEF WriterParts

(* ----------------------------- the machine ----------------------------- *)
(* No life becomes the latest of a pid but a new one, and none that is     *)
(* remembered stops being it.                                              *)
LEMMA LatestBack ==
    ASSUME TypeOK, Machine, NEW i \in 1 .. Len(procs), NEW p, IsLatest(i, p)'
    PROVE  IsLatest(i, p)
<1>1. /\ Len(procs) \in Nat /\ Len(procs) <= Len(procs') /\ Len(procs') \in Nat
      /\ \A j \in 1 .. Len(procs) : procs'[j].pid = procs[j].pid
  BY AliveBefore DEF TypeOK, KernelTypeOK
<1> QED
  BY <1>1 DEF IsLatest

LEMMA LatestStays ==
    ASSUME TypeOK, QuickReuse = FALSE, Machine, NEW i, NEW x, Remembered(x), IsLatest(i, x)
    PROVE  IsLatest(i, x)'
<1>1. ASSUME NEW q \in Pid, NEW p \in Pid, Settled(p), Fork(q, p) PROVE IsLatest(i, x)'
  <2>1. x # p
    BY <1>1 DEF Settled
  <2>2. PICK m : m = Len(procs) + 1
    OBVIOUS
  <2> QED
    BY <1>1, <2>1, <2>2, LatestFork
<1>2. ASSUME NEW p \in Pid, NEW im \in Image, Exec(p, im) PROVE IsLatest(i, x)'
  BY <1>2, LatestExec
<1>3. CASE UNCHANGED procs
  BY <1>3, LatestSame
<1> QED
  BY <1>1, <1>2, <1>3 DEF Machine, Exit, Write, Tick

LEMMA MachineEvents ==
    ASSUME WriterInv, QuickReuse = FALSE, Machine
    PROVE  EventsLatest'
<1>1. TypeOK /\ LatestLives /\ EventsLatest /\ fanotify \in [Watcher -> Seq(Event)]
  BY DEF WriterInv, IInv, Meanings, WriterParts, TypeOK, KernelTypeOK
<1>2. UNCHANGED <<pc, cur>>
  BY DEF Machine, daemonVars, threadVars
<1>3. ASSUME NEW w \in Watcher, cur[w].pid \in Pid
      PROVE  IsLatest(cur[w].inc, cur[w].pid)'
  <2>1. PICK i, x : i = cur[w].inc /\ x = cur[w].pid
    OBVIOUS
  <2>2. Remembered(x) /\ IsLatest(i, x)
    BY <1>1, <1>3, <2>1 DEF Remembered, EventsLatest
  <2>3. IsLatest(i, x)'
    BY <1>1, <2>2, LatestStays
  <2> QED
    BY <1>2, <2>1, <2>3 DEF IsLatest
<1>4. ASSUME NEW w \in Watcher, pc[w] # "stopped", NEW k \in 1 .. Len(fanotify[w]),
             fanotify[w][k].pid \in Pid
      PROVE  /\ fanotify[w][k].inc \in 1 .. Len(procs')
             /\ procs'[fanotify[w][k].inc].pid = fanotify[w][k].pid
             /\ \A j \in 1 .. Len(procs') : procs'[j].pid = fanotify[w][k].pid =>
                   j <= fanotify[w][k].inc
  <2>1. PICK i, x : i = fanotify[w][k].inc /\ x = fanotify[w][k].pid
    OBVIOUS
  <2>2. Remembered(x) /\ IsLatest(i, x)
    BY <1>1, <1>4, <2>1 DEF Remembered, EventsLatest
  <2>3. IsLatest(i, x)'
    BY <1>1, <2>2, LatestStays
  <2> QED
    BY <2>1, <2>3 DEF IsLatest
<1>5. CASE UNCHANGED fanotify
  BY <1>2, <1>3, <1>4, <1>5 DEF EventsLatest, IsLatest
<1>6. ASSUME NEW w \in Watcher, NEW p \in Pid, Write(w, p)
      PROVE  EventsLatest'
  <2>1. PICK e : e = [pid |-> p, n |-> written + 1, inc |-> holder[p]]
    OBVIOUS
  <2>2. /\ fanotify'[w] = Append(fanotify[w], e)
        /\ \A v \in Watcher \ {w} : fanotify'[v] = fanotify[v]
        /\ UNCHANGED procs /\ holder[p] # 0 /\ e.pid = p /\ e.inc = holder[p]
    BY <1>1, <1>6, <2>1 DEF Write
  <2>3. IsLatest(e.inc, e.pid)
    BY <1>1, <2>2 DEF LatestLives
  <2>4. \A v \in Watcher : \A k \in 1 .. Len(fanotify'[v]) :
           fanotify'[v][k] = e \/ \E j \in 1 .. Len(fanotify[v]) : fanotify'[v][k] = fanotify[v][j]
    <3>1. fanotify[w] \in Seq(Event)
      BY <1>1
    <3>2. \A k \in 1 .. Len(Append(fanotify[w], e)) :
             \/ Append(fanotify[w], e)[k] = e
             \/ k \in 1 .. Len(fanotify[w]) /\ Append(fanotify[w], e)[k] = fanotify[w][k]
      BY <3>1
    <3> QED
      BY <2>2, <3>2
  <2>5. \A i, x : IsLatest(i, x)' <=> IsLatest(i, x)
    BY <2>2, LatestSame
  <2>6. ASSUME NEW v \in Watcher, pc[v] # "stopped", NEW k \in 1 .. Len(fanotify'[v]),
               fanotify'[v][k].pid \in Pid
        PROVE  IsLatest(fanotify'[v][k].inc, fanotify'[v][k].pid)
    BY <1>1, <2>3, <2>4, <2>6 DEF EventsLatest
  <2> QED
    BY <1>1, <1>2, <2>5, <2>6 DEF EventsLatest
<1> QED
  BY <1>5, <1>6 DEF Machine, Fork, Exec, Exit, Tick

LEMMA MachineWriter ==
    ASSUME WriterInv, QuickReuse = FALSE, Machine
    PROVE  WriterParts'
<1>1. /\ TypeOK /\ NamesTrue /\ LivesInOrder /\ ExitTimes /\ ClosingLatest /\ WriterOnItsWay
      /\ tree \in Tables
  BY DEF WriterInv, IInv, ExitInv, ExitParts, WriterParts, TypeOK, DaemonTypeOK
<1>2. UNCHANGED <<tree, chain, rows, closing, events, pc, cur, stamp, known, faults, graphUp>>
  BY DEF Machine, daemonVars, threadVars
<1>3. now \in Nat /\ now' \in Nat /\ now <= now'
  BY <1>1, MachineClock
<1>4. \A r \in rows : /\ r.pid \in Pid /\ r.start \in Nat /\ r.exit \in Option(Nat)
                      /\ r.inc \in 1 .. Len(procs)
  <2>1. ASSUME NEW r \in rows
        PROVE  r.pid \in Pid /\ r.start \in Nat /\ r.exit \in Option(Nat) /\ r.inc \in Nat
    BY <1>1 DEF TypeOK, DaemonTypeOK, ProcRow
  <2> QED
    BY <1>1, <2>1 DEF NamesTrue, Names
<1>5. LivesInOrder'
  <2>1. \A q \in rows : IsLatest(q.inc, q.pid)' => IsLatest(q.inc, q.pid)
    <3> SUFFICES ASSUME NEW q \in rows, IsLatest(q.inc, q.pid)' PROVE IsLatest(q.inc, q.pid)
      OBVIOUS
    <3>1. PICK i, x : i \in 1 .. Len(procs) /\ i = q.inc /\ x = q.pid
      BY <1>4
    <3> QED
      BY <1>1, <3>1, LatestBack
  <2>2. \A p, i, s : Over(p, i, s) => Over(p, i, s)'
    BY <1>2 DEF Over
  <2> QED
    BY <1>1, <1>2, <2>1, <2>2 DEF LivesInOrder
<1>6. ExitTimes'
  <2>1. \A r \in rows : r.exit # None => r.start <= r.exit /\ r.exit <= now'
    BY <1>1, <1>3, <1>4 DEF ExitTimes, Option
  <2>2. \A p \in Pid : tree[p] # None /\ tree[p].exited # None => tree[p].exited <= now'
    <3>1. \A p \in Pid : tree[p] # None => tree[p].exited \in Option(Nat)
      BY <1>1 DEF Tables, Option, ProcNode
    <3> QED
      BY <1>1, <1>3, <3>1 DEF ExitTimes, Option
  <2>3. ASSUME NEW w \in Watcher, NEW i \in 1 .. Len(chain[w])
        PROVE  /\ chain[w][i].node.start <= now'
               /\ chain[w][i].node.exited # None =>
                     /\ chain[w][i].node.start <= chain[w][i].node.exited
                     /\ chain[w][i].node.exited <= now'
    <3>1. chain[w][i].node.start \in Nat /\ chain[w][i].node.exited \in Option(Nat)
      BY <1>1, LinkType DEF ProcNode
    <3> QED
      BY <1>1, <1>3, <3>1 DEF ExitTimes, Option
  <2>4. closing.start <= closing.exit /\ closing.exit <= now'
    <3>1. closing.exit \in Nat
      BY <1>1 DEF TypeOK, DaemonTypeOK
    <3> QED
      BY <1>1, <1>3, <3>1 DEF ExitTimes
  <2> QED
    BY <1>2, <2>1, <2>2, <2>3, <2>4 DEF ExitTimes
<1>7. ClosingLatest'
  <2>1. ASSUME NEW r \in rows, r.pid = closing.pid, r.start = closing.start
        PROVE  IsLatest(r.inc, r.pid)'
    <3>1. PICK i, x : i = r.inc /\ x = r.pid
      OBVIOUS
    <3>2. IsLatest(i, x) /\ Remembered(x)
      BY <1>1, <2>1, <3>1 DEF ClosingLatest, Remembered
    <3>3. IsLatest(i, x)'
      BY <1>1, <3>2, LatestStays
    <3> QED
      BY <3>1, <3>3 DEF IsLatest
  <2> QED
    BY <1>2, <2>1 DEF ClosingLatest, IsLatest
<1>8. WriterOnItsWay'
  <2>1. SUFFICES ASSUME NEW w \in Watcher, WriterAt(w) PROVE WriterAt(w)'
    BY <1>1, <1>2 DEF WriterOnItsWay
  <2>2. \A p, i : LeftOpen(p, i) => LeftOpen(p, i)'
    BY <1>1, <1>2, <1>4, AliveBefore DEF LeftOpen
  <2>3. \A p, i : Stored(p, i, now) => \E r \in rows : r.pid = p /\ r.inc = i /\ r.start <= now'
    BY <1>3, <1>4 DEF Stored
  <2>4. \A p, i, t : Stored(p, i, t) => Stored(p, i, t)'
    BY <1>2 DEF Stored
  <2>5. Attributed(w) => Attributed(w)'
    BY <1>2 DEF Attributed
  <2>6. cur'[w] = cur[w] /\ chain'[w] = chain[w] /\ pc'[w] = pc[w] /\ stamp'[w] = stamp[w] /\ rows' = rows
    BY <1>2
  <2>7. pc'[w] \in {"insert", "exit", "mark"} => WriterAt(w)'
    BY <2>1, <2>6 DEF WriterAt
  <2>8. pc'[w] = "stamp" => WriterAt(w)'
    BY <2>1, <2>3, <2>6 DEF WriterAt, Stored
  <2>9. pc'[w] = "record" => WriterAt(w)'
    BY <2>1, <2>4, <2>6 DEF WriterAt, Stored
  <2>10. pc'[w] = "log" => WriterAt(w)'
    <3>1. LeftOpen(cur[w].pid, cur[w].inc) => LeftOpen(cur[w].pid, cur[w].inc)'
      <4>1. PICK p, i : p = cur[w].pid /\ i = cur[w].inc
        OBVIOUS
      <4>2. LeftOpen(p, i) => LeftOpen(p, i)'
        BY <2>2
      <4> QED
        BY <2>6, <4>1, <4>2 DEF LeftOpen
    <3> QED
      BY <2>1, <2>5, <2>6, <3>1 DEF WriterAt
  <2> QED
    BY <2>7, <2>8, <2>9, <2>10 DEF WriterAt
<1> QED
  BY <1>5, <1>6, <1>7, <1>8, MachineEvents DEF WriterParts

-----------------------------------------------------------------------------
LEMMA InitWriter == Init => WriterInv
<1> SUFFICES ASSUME Init PROVE WriterInv
  OBVIOUS
<1>1. IInv /\ ExitInv
  BY InitIInv, InitExitInv
<1>2. /\ rows = {} /\ now = 0 /\ closing = NoClosing
      /\ \A p \in Pid : tree[p] = None
      /\ \A w \in Watcher : chain[w] = <<>> /\ fanotify[w] = <<>> /\ cur[w] = NoEvent /\ ~known[w]
  BY DEF Init, KernelInit, EmptyTable
<1>3. NoEvent.pid \notin Pid
  BY SelfAssumption DEF NoEvent, OwnEvent
<1>4. LivesInOrder /\ ExitTimes /\ ClosingLatest /\ EventsLatest /\ WriterOnItsWay
  BY <1>2, <1>3 DEF LivesInOrder, ExitTimes, ClosingLatest, EventsLatest, WriterOnItsWay, NoClosing
<1> QED
  BY <1>1, <1>4 DEF WriterInv, WriterParts

LEMMA NextWriter == WriterInv /\ QuickReuse = FALSE /\ [Next]_vars => WriterInv'
<1> SUFFICES ASSUME WriterInv, QuickReuse = FALSE, [Next]_vars PROVE WriterInv'
  OBVIOUS
<1>1. IInv' /\ ExitInv' /\ TypeOK'
  BY NextIInv, NextExitInv DEF WriterInv, IInv
<1>2. ASSUME NEW w \in Watcher, WatcherStep(w) \/ ReadError(w) \/ DropEvent(w)
      PROVE  WriterParts'
  BY <1>1, <1>2, IdleWriter, TakeEventWriter, InsertRowWriter, WriteExitWriter, MarkWriter,
     StampWriter, RecordEventWriter DEF WatcherStep
<1>3. ASSUME ConnectorStep PROVE WriterParts'
  BY <1>1, <1>3, QuietWriter, RecvForkWriter, RecvExecWriter, RecvExitWriter, CloseRowWriter
     DEF ConnectorStep
<1>4. WriterParts'
  BY <1>1, <1>2, <1>3, MachineWriter, BootWriter, CrashWriter, EvictWriter, QuietWriter DEF Next
<1> QED
  BY <1>1, <1>4 DEF WriterInv

(* An event whose writer was in the table when its watcher took it is      *)
(* bound to that writer's row in the graph, in whatever order the other    *)
(* threads evict, close, insert and mark meanwhile and however often the   *)
(* daemon died before (graph.rs:273-288).                                  *)
THEOREM KnownWritersBound == QuickReuse = FALSE => (Spec => []KnownWriterAttributed)
<1>1. WriterInv => KnownWriterAttributed
  BY DEF WriterInv, WriterParts, WriterOnItsWay, WriterAt, Attributed, KnownWriterAttributed
<1>2. CASE QuickReuse = FALSE
  <2>1. WriterInv /\ [Next]_vars => WriterInv'
    BY <1>2, NextWriter
  <2> QED
    BY <1>1, <2>1, InitWriter, PTL DEF Spec
<1> QED
  BY <1>2

-----------------------------------------------------------------------------
(* Whose parent is who.  An entry is what a node, a link or a row says of  *)
(* a process: its pid, its start, the pid of its parent.                   *)
Entry(p, x) == [pid |-> p, start |-> x.start, ppid |-> x.ppid, inc |-> x.inc]

(* What persist_chain has written, or copied to write it. *)
OnRecord ==
    {Entry(r.pid, r) : r \in rows}
        \cup UNION {{Entry(chain[w][i].pid, chain[w][i].node) : i \in 1 .. Len(chain[w])} :
                       w \in Watcher}

Entries == {Entry(p, tree[p]) : p \in {x \in Pid : tree[x] # None}} \cup OnRecord

(* The pid names a parent that is not the one of orphans. *)
Forked(c) == c.ppid \notin {None, InitPid}

(* The parent's pid is that of the process that forked c, ... *)
ParentsNamed ==
    \A c \in Entries : Forked(c) =>
        /\ procs[c.inc].parent \in 1 .. Len(procs)
        /\ procs[procs[c.inc].parent].pid = c.ppid

(* ... which still has it when c starts: ... *)
ParentsLatest ==
    \A c \in Entries : Forked(c) =>
        IsLatest(procs[c.inc].parent, c.ppid) \/ c.start < now

(* ... every later life of the pid starts after c, ... *)
LaterLivesStart ==
    \A c, e \in Entries :
        Forked(c) /\ e.pid = c.ppid /\ procs[c.inc].parent < e.inc => c.start < e.start

(* ... every earlier one that was closed ended before c.                   *)
EarlierLivesEnd ==
    \A c \in Entries, r \in rows :
        /\ Forked(c) /\ r.pid = c.ppid
        /\ r.inc < procs[c.inc].parent /\ r.exit # None
        => r.exit < c.start

(* An exit is of an earlier second, or the node that exited is there yet. *)
Past(p, x) == x < now \/ (tree[p] # None /\ tree[p].exited = x)

ExitsPast ==
    /\ \A r \in rows : r.exit # None =>
          Past(r.pid, r.exit) /\ (r.exit < now \/ IsLatest(r.inc, r.pid))
    /\ \A w \in Watcher : \A i \in 1 .. Len(chain[w]) :
          chain[w][i].node.exited # None => Past(chain[w][i].pid, chain[w][i].node.exited)
    /\ closing.pid # None => Past(closing.pid, closing.exit)

(* A link is of an earlier second, or agrees with its node on the parent. *)
LinksPast ==
    \A w \in Watcher : \A i \in 1 .. Len(chain[w]) :
        LET item == chain[w][i]
        IN  \/ item.node.start < now
            \/ /\ tree[item.pid] # None
               /\ tree[item.pid].start = item.node.start
               /\ tree[item.pid].ppid = item.node.ppid

(* Of a fork that is not read yet, the parent's pid is the parent's still. *)
ParentLatest(m) == IsLatest(procs[m.inc].parent, m.parent)

ForksLatest ==
    \A i \in 1 .. Len(netlink) : netlink[i].kind = "fork" => ParentLatest(netlink[i])

(* init is the first process, and never another. *)
InitIsFirst ==
    /\ holder[InitPid] = 1
    /\ \A i \in 1 .. Len(procs) : procs[i].pid = InitPid => i = 1

(* Before its first start the daemon knows and has written nothing. *)
NothingYet ==
    ~up => rows = {} /\ \A p \in Pid : tree[p] = None

EdgeParts ==
    crashes = 0 =>
        /\ ParentsNamed /\ ParentsLatest /\ LaterLivesStart /\ EarlierLivesEnd
        /\ ExitsPast /\ LinksPast /\ ForksLatest /\ NothingYet

(* The inductive invariant behind EdgesAreReal. *)
EdgeInv == WriterInv /\ InitIsFirst /\ EdgeParts

(* What a step of a daemon that never died does to entries and exits: rows *)
(* keep what they say, and are closed with an exit that was kept; ...      *)
RowsSaid ==
    \A q \in rows' :
        /\ Entry(q.pid, q) \in OnRecord
        /\ q.exit # None =>
              \/ \E r \in rows : q.pid = r.pid /\ q.inc = r.inc /\ q.exit = r.exit
              \/ Past(q.pid, q.exit) /\ IsLatest(q.inc, q.pid)

(* ... a new node is of this second, and its parent has its pid still; ... *)
Fresh(c) ==
    /\ c.start = now /\ IsLatest(c.inc, c.pid)
    /\ Forked(c) => IsLatest(procs[c.inc].parent, c.ppid)

NodesFresh ==
    \A p \in Pid : tree'[p] # None =>
        Entry(p, tree'[p]) \in Entries \/ Fresh(Entry(p, tree'[p]))

(* ... a node is kept with its exit, or was over before this second.       *)
NodesKept ==
    \A p \in Pid : tree[p] # None =>
        \/ /\ tree'[p] # None
           /\ tree'[p].start = tree[p].start /\ tree'[p].ppid = tree[p].ppid
           /\ tree[p].exited # None => tree'[p].exited = tree[p].exited
        \/ tree[p].start < now /\ tree[p].exited # None /\ tree[p].exited < now

ClosingKnown ==
    closing'.pid # None => closing' = closing \/ Past(closing.pid, closing.exit)'

EdgeStep ==
    /\ UNCHANGED <<now, procs, holder>>
    /\ RowsSaid /\ NodesFresh /\ NodesKept /\ LinksCopied /\ ClosingKnown

LEMMA EntryNamed ==
    ASSUME TypeOK, NamesTrue, NEW c \in Entries
    PROVE  /\ c.pid \in Pid /\ c.start \in Nat /\ c.ppid \in Option(Pid)
           /\ c.inc \in 1 .. Len(procs) /\ procs[c.inc].pid = c.pid
<1>1. tree \in Tables /\ rows \in SUBSET ProcRow
  BY DEF TypeOK, DaemonTypeOK
<1>2. ASSUME NEW p \in Pid, tree[p] # None, c = Entry(p, tree[p])
      PROVE  /\ c.pid \in Pid /\ c.start \in Nat /\ c.ppid \in Option(Pid) /\ c.inc \in Nat
             /\ Names(c.pid, c.start, c.inc)
  <2>1. tree[p] \in ProcNode
    BY <1>1, <1>2 DEF Tables, Option
  <2> QED
    BY <1>2, <2>1 DEF Entry, ProcNode, Names
<1>3. ASSUME NEW r \in rows, c = Entry(r.pid, r)
      PROVE  /\ c.pid \in Pid /\ c.start \in Nat /\ c.ppid \in Option(Pid) /\ c.inc \in Nat
             /\ Names(c.pid, c.start, c.inc)
  BY <1>1, <1>3 DEF Entry, ProcRow, Names
<1>4. ASSUME NEW w \in Watcher, NEW i \in 1 .. Len(chain[w]), c = Entry(chain[w][i].pid, chain[w][i].node)
      PROVE  /\ c.pid \in Pid /\ c.start \in Nat /\ c.ppid \in Option(Pid) /\ c.inc \in Nat
             /\ Names(c.pid, c.start, c.inc)
  BY <1>4, LinkType DEF Entry, ProcNode, Names
<1> QED
  BY <1>2, <1>3, <1>4 DEF Entries, OnRecord, NamesTrue

(* Every entry after such a step was there or is fresh. *)
LEMMA EntriesGrow ==
    ASSUME EdgeStep, NEW c \in Entries'
    PROVE  c \in Entries \/ Fresh(c)
<1>1. ASSUME NEW p \in Pid, tree'[p] # None, c = Entry(p, tree'[p])
      PROVE  c \in Entries \/ Fresh(c)
  BY <1>1 DEF EdgeStep, NodesFresh
<1>2. ASSUME NEW r \in rows', c = Entry(r.pid, r) PROVE c \in Entries
  BY <1>2 DEF EdgeStep, RowsSaid, Entries
<1>3. ASSUME NEW w \in Watcher, NEW i \in 1 .. Len(chain'[w]),
             c = Entry(chain'[w][i].pid, chain'[w][i].node)
      PROVE  c \in Entries
  <2>1. ASSUME NEW k \in 1 .. Len(chain[w]), chain'[w][i] = chain[w][k] PROVE c \in Entries
    BY <1>3, <2>1 DEF Entries, OnRecord
  <2>2. ASSUME NEW p \in Pid, chain'[w][i].pid = p, tree[p] # None, chain'[w][i].node = tree[p]
        PROVE  c \in Entries
    BY <1>3, <2>2 DEF Entries, OnRecord
  <2> QED
    BY <2>1, <2>2 DEF EdgeStep, LinksCopied
<1>4. \/ \E p \in Pid : tree'[p] # None /\ c = Entry(p, tree'[p])
      \/ \E r \in rows' : c = Entry(r.pid, r)
      \/ \E w \in Watcher : \E i \in 1 .. Len(chain'[w]) :
             c = Entry(chain'[w][i].pid, chain'[w][i].node)
  BY DEF Entries, OnRecord, Entry
<1> QED
  BY <1>1, <1>2, <1>3, <1>4

(* An exit that is past stays past. *)
LEMMA PastKept ==
    ASSUME EdgeStep, NEW p \in Pid, NEW x \in Nat, Past(p, x)
    PROVE  Past(p, x)'
<1>1. now' = now
  BY DEF EdgeStep
<1>2. CASE x < now
  BY <1>1, <1>2 DEF Past
<1>3. CASE tree[p] # None /\ tree[p].exited = x
  <2>1. CASE /\ tree'[p] # None
             /\ tree[p].exited # None => tree'[p].exited = tree[p].exited
    BY <1>3, <2>1, PidAssumption DEF Past
  <2>2. CASE tree[p].exited # None /\ tree[p].exited < now
    BY <1>1, <1>3, <2>2 DEF Past
  <2> QED
    BY <1>3, <2>1, <2>2 DEF EdgeStep, NodesKept
<1> QED
  BY <1>2, <1>3 DEF Past

(* Who was forked by whom, after such a step. *)
LEMMA StepParents ==
    ASSUME EdgeInv, crashes = 0, EdgeStep, NamesTrue', TypeOK'
    PROVE  ParentsNamed' /\ ParentsLatest' /\ LaterLivesStart'
<1>1. /\ TypeOK /\ NamesTrue /\ ParentsNamed /\ ParentsLatest /\ LaterLivesStart
      /\ UNCHANGED <<now, procs>>
  BY DEF EdgeInv, WriterInv, ExitInv, ExitParts, EdgeParts, EdgeStep
<1>2. Len(procs) \in Nat
  BY <1>1 DEF TypeOK, KernelTypeOK
<1>3. \A c \in Entries' : c \in Entries \/ Fresh(c)
  BY EntriesGrow
<1>4. \A c \in Entries : c.inc \in 1 .. Len(procs) /\ procs[c.inc].pid = c.pid
  BY <1>1, EntryNamed
<1>5. \A c : Fresh(c) => c.inc \in 1 .. Len(procs) /\ procs[c.inc].pid = c.pid
  BY DEF Fresh, IsLatest
<1>6. \A c \in Entries' : Forked(c) =>
         /\ procs[c.inc].parent \in 1 .. Len(procs)
         /\ procs[procs[c.inc].parent].pid = c.ppid
         /\ IsLatest(procs[c.inc].parent, c.ppid) \/ c.start < now
  BY <1>1, <1>3 DEF ParentsNamed, ParentsLatest, Fresh, IsLatest
<1>7. ASSUME NEW c \in Entries', NEW e \in Entries', Forked(c), e.pid = c.ppid,
             procs[c.inc].parent < e.inc
      PROVE  c.start < e.start
  <2>1. e.inc \in 1 .. Len(procs) /\ procs[e.inc].pid = c.ppid
    BY <1>3, <1>4, <1>5, <1>7
  <2>2. ~IsLatest(procs[c.inc].parent, c.ppid)
    <3> SUFFICES ASSUME IsLatest(procs[c.inc].parent, c.ppid) PROVE FALSE
      OBVIOUS
    <3>1. e.inc <= procs[c.inc].parent
      BY <2>1 DEF IsLatest
    <3>2. procs[c.inc].parent \in Nat /\ e.inc \in Nat
      BY <1>2, <1>6, <1>7, <2>1
    <3> QED
      BY <1>7, <3>1, <3>2
  <2>3. c \in Entries /\ c.start < now
    BY <1>3, <1>6, <1>7, <2>2 DEF Fresh
  <2>4. CASE e \in Entries
    BY <1>1, <1>7, <2>3, <2>4 DEF LaterLivesStart
  <2>5. CASE Fresh(e)
    BY <2>3, <2>5 DEF Fresh
  <2> QED
    BY <1>3, <2>4, <2>5
<1>8. ParentsNamed' /\ ParentsLatest'
  BY <1>1, <1>6 DEF ParentsNamed, ParentsLatest, IsLatest, Forked
<1>9. LaterLivesStart'
  BY <1>1, <1>7 DEF LaterLivesStart, Forked
<1> QED
  BY <1>8, <1>9

LEMMA StepExitsPast ==
    ASSUME EdgeInv, crashes = 0, EdgeStep, TypeOK'
    PROVE  ExitsPast' /\ LinksPast'
<1>1. /\ TypeOK /\ ExitsPast /\ LinksPast /\ UNCHANGED <<now, procs>>
      /\ tree \in Tables /\ rows \in SUBSET ProcRow /\ rows' \in SUBSET ProcRow
  BY DEF EdgeInv, WriterInv, IInv, EdgeParts, EdgeStep, TypeOK, DaemonTypeOK
<1>2. \A p \in Pid : tree[p] # None => tree[p].exited \in Option(Nat)
  BY <1>1 DEF Tables, Option, ProcNode
<1>3. \A i, p : IsLatest(i, p)' <=> IsLatest(i, p)
  BY <1>1, LatestSame
<1>4. ASSUME NEW q \in rows', q.exit # None
      PROVE  Past(q.pid, q.exit) /\ (q.exit < now \/ IsLatest(q.inc, q.pid))
  <2>1. ASSUME NEW r \in rows, q.pid = r.pid, q.inc = r.inc, q.exit = r.exit
        PROVE  Past(q.pid, q.exit) /\ (q.exit < now \/ IsLatest(q.inc, q.pid))
    BY <1>1, <1>4, <2>1 DEF ExitsPast
  <2> QED
    BY <1>4, <2>1 DEF EdgeStep, RowsSaid
<1>5. ASSUME NEW q \in rows', q.exit # None
      PROVE  Past(q.pid, q.exit)' /\ (q.exit < now \/ IsLatest(q.inc, q.pid)')
  <2>1. PICK p, x, i : p \in Pid /\ x \in Nat /\ p = q.pid /\ x = q.exit /\ i = q.inc
    BY <1>1, <1>5 DEF ProcRow, Option
  <2>2. Past(p, x)'
    BY <1>4, <1>5, <2>1, PastKept
  <2> QED
    BY <1>3, <1>4, <1>5, <2>1, <2>2 DEF Past
<1>6. ASSUME NEW w \in Watcher, NEW k \in 1 .. Len(chain[w]), chain[w][k].node.exited # None
      PROVE  Past(chain[w][k].pid, chain[w][k].node.exited) /\ chain[w][k].pid \in Pid
             /\ chain[w][k].node.exited \in Nat
  BY <1>1, <1>6, LinkType DEF ExitsPast, ProcNode, Option
<1>7. ASSUME NEW w \in Watcher, NEW i \in 1 .. Len(chain'[w]), chain'[w][i].node.exited # None
      PROVE  Past(chain[w][i].pid, chain[w][i].node.exited)'
  <2>1. PICK p, x : p = chain'[w][i].pid /\ x = chain'[w][i].node.exited
    OBVIOUS
  <2>2. p \in Pid /\ x \in Nat /\ Past(p, x)
    <3>1. ASSUME NEW k \in 1 .. Len(chain[w]), chain'[w][i] = chain[w][k]
          PROVE  p \in Pid /\ x \in Nat /\ Past(p, x)
      BY <1>6, <1>7, <2>1, <3>1
    <3>2. ASSUME chain'[w][i].pid \in Pid, tree[chain'[w][i].pid] # None,
                 chain'[w][i].node = tree[chain'[w][i].pid]
          PROVE  p \in Pid /\ x \in Nat /\ Past(p, x)
      BY <1>2, <1>7, <2>1, <3>2 DEF Past, Option
    <3> QED
      BY <3>1, <3>2 DEF EdgeStep, LinksCopied
  <2>3. Past(p, x)'
    BY <2>2, PastKept
  <2> QED
    BY <2>1, <2>3 DEF Past
<1>8. ASSUME closing'.pid # None PROVE Past(closing.pid, closing.exit)'
  <2>1. CASE closing' = closing
    <3>1. PICK p, x : p \in Pid /\ x \in Nat /\ p = closing.pid /\ x = closing.exit
      BY <1>1, <1>8, <2>1 DEF TypeOK, DaemonTypeOK, Option
    <3>2. Past(p, x)'
      BY <1>1, <1>8, <2>1, <3>1, PastKept DEF ExitsPast
    <3> QED
      BY <2>1, <3>1, <3>2 DEF Past
  <2> QED
    BY <1>8, <2>1 DEF EdgeStep, ClosingKnown
<1>9. ASSUME NEW w \in Watcher, NEW i \in 1 .. Len(chain'[w]), ~(chain'[w][i].node.start < now)
      PROVE  /\ tree'[chain'[w][i].pid] # None
             /\ tree'[chain'[w][i].pid].start = chain'[w][i].node.start
             /\ tree'[chain'[w][i].pid].ppid = chain'[w][i].node.ppid
  <2>1. PICK p : p = chain'[w][i].pid
    OBVIOUS
  <2>2. /\ p \in Pid /\ tree[p] # None /\ tree[p].start = chain'[w][i].node.start
        /\ tree[p].ppid = chain'[w][i].node.ppid
    <3>1. ASSUME NEW k \in 1 .. Len(chain[w]), chain'[w][i] = chain[w][k]
          PROVE  /\ p \in Pid /\ tree[p] # None /\ tree[p].start = chain'[w][i].node.start
                 /\ tree[p].ppid = chain'[w][i].node.ppid
      BY <1>1, <1>9, <2>1, <3>1, LinkType DEF LinksPast
    <3>2. ASSUME chain'[w][i].pid \in Pid, tree[chain'[w][i].pid] # None,
                 chain'[w][i].node = tree[chain'[w][i].pid]
          PROVE  /\ p \in Pid /\ tree[p] # None /\ tree[p].start = chain'[w][i].node.start
                 /\ tree[p].ppid = chain'[w][i].node.ppid
      BY <2>1, <3>2
    <3> QED
      BY <3>1, <3>2 DEF EdgeStep, LinksCopied
  <2> QED
    BY <1>9, <2>1, <2>2 DEF EdgeStep, NodesKept
<1>10. ExitsPast'
  BY <1>1, <1>5, <1>7, <1>8 DEF ExitsPast
<1>11. LinksPast'
  BY <1>1, <1>9 DEF LinksPast
<1> QED
  BY <1>10, <1>11

LEMMA StepEarlier ==
    ASSUME EdgeInv, crashes = 0, EdgeStep, TypeOK', ParentsNamed', ExitsPast'
    PROVE  EarlierLivesEnd'
<1>1. /\ TypeOK /\ EarlierLivesEnd /\ UNCHANGED <<now, procs>> /\ rows' \in SUBSET ProcRow
      /\ Len(procs) \in Nat
  <2>1. TypeOK /\ EarlierLivesEnd /\ UNCHANGED <<now, procs>>
    BY DEF EdgeInv, WriterInv, IInv, EdgeParts, EdgeStep
  <2>2. rows' \in SUBSET ProcRow /\ Len(procs) \in Nat
    BY <2>1 DEF TypeOK, DaemonTypeOK, KernelTypeOK
  <2> QED
    BY <2>1, <2>2
<1>2. SUFFICES ASSUME NEW c \in Entries', NEW q \in rows', Forked(c), q.pid = c.ppid,
                      q.inc < procs[c.inc].parent, q.exit # None
               PROVE  q.exit < c.start
  BY <1>1 DEF EarlierLivesEnd, Forked
<1>3. /\ procs[c.inc].parent \in 1 .. Len(procs) /\ procs[procs[c.inc].parent].pid = c.ppid
      /\ q.inc \in Nat
  BY <1>1, <1>2 DEF ParentsNamed, Forked, ProcRow
<1>4. ~IsLatest(q.inc, q.pid)
  BY <1>1, <1>2, <1>3 DEF IsLatest
<1>5. CASE c \in Entries
  <2>1. PICK r \in rows : q.pid = r.pid /\ q.inc = r.inc /\ q.exit = r.exit
    BY <1>2, <1>4 DEF EdgeStep, RowsSaid
  <2> QED
    BY <1>1, <1>2, <1>5, <2>1 DEF EarlierLivesEnd
<1>6. CASE Fresh(c)
  <2>1. q.exit < now
    <3>1. q.exit < now' \/ IsLatest(q.inc, q.pid)'
      BY <1>2 DEF ExitsPast
    <3> QED
      BY <1>1, <1>4, <3>1 DEF IsLatest
  <2> QED
    BY <1>6, <2>1 DEF Fresh
<1> QED
  BY <1>5, <1>6, EntriesGrow

(* A step of the daemon in the terms above. *)
LEMMA StepEdges ==
    ASSUME EdgeInv, WriterInv', crashes = 0 => EdgeStep,
           UNCHANGED <<procs, holder, crashes>>, up' \/ UNCHANGED <<up, tree, rows>>,
           netlink' = netlink \/ (netlink # <<>> /\ netlink' = Tail(netlink))
    PROVE  EdgeInv'
<1>1. TypeOK /\ TypeOK' /\ NamesTrue' /\ InitIsFirst
  BY DEF EdgeInv, WriterInv, IInv, ExitInv, ExitParts
<1>2. InitIsFirst'
  BY <1>1 DEF InitIsFirst
<1>3. ASSUME crashes = 0
      PROVE  /\ ParentsNamed' /\ ParentsLatest' /\ LaterLivesStart' /\ EarlierLivesEnd'
             /\ ExitsPast' /\ LinksPast'
  <2>1. ParentsNamed' /\ ParentsLatest' /\ LaterLivesStart'
    BY <1>1, <1>3, StepParents
  <2>2. ExitsPast' /\ LinksPast'
    BY <1>1, <1>3, StepExitsPast
  <2> QED
    BY <1>1, <1>3, <2>1, <2>2, StepEarlier
<1>4. ASSUME crashes = 0 PROVE ForksLatest' /\ NothingYet'
  <2>1. ForksLatest /\ NothingYet
    BY <1>4 DEF EdgeInv, EdgeParts
  <2>2. NothingYet'
    BY <2>1 DEF NothingYet
  <2>3. CASE netlink' = netlink
    BY <2>1, <2>2, <2>3 DEF ForksLatest, ParentLatest, IsLatest
  <2>4. CASE netlink # <<>> /\ netlink' = Tail(netlink)
    <3>1. \A i \in 1 .. Len(netlink') : i + 1 \in 1 .. Len(netlink) /\ netlink'[i] = netlink[i + 1]
      BY <1>1, <2>4, TailQueue
    <3>2. \A i \in 1 .. Len(netlink') : netlink'[i].kind = "fork" =>
             IsLatest(procs[netlink'[i].inc].parent, netlink'[i].parent)
      BY <2>1, <3>1 DEF ForksLatest, ParentLatest
    <3> QED
      BY <2>2, <3>2 DEF ForksLatest, ParentLatest, IsLatest
  <2> QED
    BY <2>3, <2>4
<1>5. EdgeParts'
  BY <1>3, <1>4 DEF EdgeParts
<1> QED
  BY <1>2, <1>5 DEF EdgeInv

LEMMA SaidSame ==
    ASSUME UNCHANGED rows
    PROVE  RowsSaid
<1>1. \A q \in rows : Entry(q.pid, q) \in OnRecord
  BY DEF OnRecord
<1> QED
  BY <1>1 DEF RowsSaid

LEMMA NodesSame ==
    ASSUME UNCHANGED tree
    PROVE  NodesFresh /\ NodesKept
<1>1. \A p \in Pid : tree[p] # None => Entry(p, tree[p]) \in Entries
  BY DEF Entries, OnRecord
<1> QED
  BY <1>1 DEF NodesFresh, NodesKept

LEMMA ClosingSame ==
    ASSUME closing' \in {closing, NoClosing}
    PROVE  ClosingKnown
  BY DEF ClosingKnown, NoClosing

(* A node of p alone was changed. *)
LEMMA NodeChanged ==
    ASSUME NEW p \in Pid, \A x \in Pid \ {p} : tree'[x] = tree[x],
           tree[p] = None \/ /\ tree'[p] # None
                             /\ tree'[p].start = tree[p].start /\ tree'[p].ppid = tree[p].ppid
                             /\ tree'[p].inc = tree[p].inc
                             /\ tree[p].exited # None => tree'[p].exited = tree[p].exited,
           tree[p] = None /\ tree'[p] # None => Fresh(Entry(p, tree'[p]))
    PROVE  NodesFresh /\ NodesKept
<1>1. \A x \in Pid : tree[x] # None => Entry(x, tree[x]) \in Entries
  BY DEF Entries, OnRecord
<1>2. tree[p] # None => Entry(p, tree'[p]) = Entry(p, tree[p])
  BY DEF Entry
<1> QED
  BY <1>1, <1>2 DEF NodesFresh, NodesKept

(* A step that names nobody new and closes nothing. *)
LEMMA QuietEdges ==
    ASSUME EdgeInv, WriterInv',
           UNCHANGED <<now, procs, holder, tree, rows, closing, crashes, up>>, LinksCopied,
           netlink' = netlink \/ (netlink # <<>> /\ netlink' = Tail(netlink))
    PROVE  EdgeInv' /\ (crashes = 0 => EdgeStep)
<1>1. EdgeStep
  BY SaidSame, NodesSame, ClosingSame DEF EdgeStep
<1> QED
  BY <1>1, StepEdges

LEMMA IdleEdges ==
    ASSUME EdgeInv, WriterInv', NEW w \in Watcher,
           \/ Watch(w) \/ IgnoreOwn(w) \/ ReadError(w) \/ DropEvent(w) \/ AppendLog(w)
           \/ Stamp(w) \/ RecordEvent(w)
    PROVE  EdgeInv' /\ (crashes = 0 => EdgeStep)
<1>1. UNCHANGED <<now, procs, holder, tree, rows, closing, crashes, up, netlink, chain>>
  BY DEF Watch, IgnoreOwn, ReadError, DropEvent, AppendLog, Stamp, RecordEvent, kernelVars,
         daemonVars, threadVars
<1>2. LinksCopied
  BY <1>1 DEF LinksCopied
<1> QED
  BY <1>1, <1>2, QuietEdges

LEMMA QueueEdges ==
    ASSUME EdgeInv, WriterInv', Listen \/ RecvOverrun \/ UNCHANGED vars
    PROVE  EdgeInv' /\ (crashes = 0 => EdgeStep)
<1>1. UNCHANGED <<now, procs, holder, tree, rows, closing, crashes, up, chain>>
  BY DEF Listen, RecvOverrun, vars, kernelVars, daemonVars, threadVars
<1>2. netlink' = netlink \/ (netlink # <<>> /\ netlink' = Tail(netlink))
  BY DEF Listen, RecvOverrun, Receives, vars, kernelVars
<1>3. LinksCopied
  BY <1>1 DEF LinksCopied
<1> QED
  BY <1>1, <1>2, <1>3, QuietEdges

LEMMA TakeEventEdges ==
    ASSUME EdgeInv, WriterInv', NEW w \in Watcher, TakeEvent(w)
    PROVE  EdgeInv' /\ (crashes = 0 => EdgeStep)
<1>1. LinksCopied
  BY TakeEventCopies DEF EdgeInv, WriterInv, IInv
<1>2. UNCHANGED <<now, procs, holder, tree, rows, closing, crashes, up, netlink>>
  BY DEF TakeEvent
<1> QED
  BY <1>1, <1>2, QuietEdges

LEMMA InsertRowEdges ==
    ASSUME EdgeInv, WriterInv', NEW w \in Watcher, InsertRow(w)
    PROVE  EdgeInv' /\ (crashes = 0 => EdgeStep)
<1>1. TypeOK /\ pc[w] = "insert" /\ chain[w] # <<>> /\ up /\ rows \in SUBSET ProcRow
  BY DEF EdgeInv, WriterInv, IInv, DownIsEmpty, InsertRow, TypeOK, DaemonTypeOK
<1>2. UNCHANGED <<now, procs, holder, tree, closing, crashes, up, netlink>>
  BY DEF InsertRow
<1>3. LinksCopied
  <2>1. \/ UNCHANGED chain
        \/ /\ chain' = [chain EXCEPT ![w] = Tail(@)]
           /\ pc' = [pc EXCEPT ![w] = AfterChain(Tail(chain[w]))]
    BY DEF InsertRow
  <2> QED
    BY <1>1, <2>1, ChainShrinks DEF LinksCopied
<1>4. RowsSaid
  <2>1. CASE UNCHANGED rows
    BY <2>1, SaidSame
  <2>2. CASE rows' = RecordExisting(rows, Head(chain[w]).pid, Head(chain[w]).node)
    <3>1. 1 \in 1 .. Len(chain[w]) /\ Head(chain[w]) = chain[w][1]
      BY <1>1 DEF TypeOK, DaemonTypeOK
    <3>2. chain[w][1].pid \in Pid /\ chain[w][1].node \in ProcNode
      BY <1>1, <3>1, LinkType
    <3>3. \A q \in rows' :
             \/ q \in rows
             \/ /\ q.pid = chain[w][1].pid /\ q.start = chain[w][1].node.start
                /\ q.inc = chain[w][1].node.inc /\ q.ppid = chain[w][1].node.ppid
                /\ q.exit = None
      BY <1>1, <2>2, <3>1, <3>2, RecordExistingStores
    <3>4. \A q \in rows : Entry(q.pid, q) \in OnRecord
      BY DEF OnRecord
    <3>5. Entry(chain[w][1].pid, chain[w][1].node) \in OnRecord
      BY <3>1 DEF OnRecord
    <3>6. ASSUME NEW q \in rows', q.pid = chain[w][1].pid, q.start = chain[w][1].node.start,
                 q.inc = chain[w][1].node.inc, q.ppid = chain[w][1].node.ppid
          PROVE  Entry(q.pid, q) \in OnRecord
      BY <3>5, <3>6 DEF Entry
    <3> QED
      BY <3>3, <3>4, <3>6 DEF RowsSaid
  <2> QED
    BY <2>1, <2>2 DEF InsertRow
<1>5. EdgeStep
  BY <1>2, <1>3, <1>4, NodesSame, ClosingSame DEF EdgeStep
<1> QED
  BY <1>1, <1>2, <1>5, StepEdges

(* Rows closed under a key of the latest life, with an exit that is past. *)
LEMMA SaidClosed ==
    ASSUME TypeOK, NEW p \in Pid, NEW s \in Nat, NEW x \in Nat, Past(p, x),
           rows' = RecordExitAt(rows, p, s, x),
           \A r \in rows : r.pid = p /\ r.start = s => IsLatest(r.inc, r.pid)
    PROVE  RowsSaid
<1> DEFINE Closed(r) == IF r.pid = p /\ r.start = s THEN [r EXCEPT !.exit = x] ELSE r
<1>1. rows \in SUBSET ProcRow
  BY DEF TypeOK, DaemonTypeOK
<1>2. \A r \in rows : /\ Closed(r).pid = r.pid /\ Closed(r).start = r.start
                      /\ Closed(r).ppid = r.ppid /\ Closed(r).inc = r.inc
                      /\ \/ Closed(r).exit = r.exit
                         \/ r.pid = p /\ r.start = s /\ Closed(r).exit = x
  BY <1>1 DEF ProcRow
<1>3. \A q \in rows' : \E r \in rows : q = Closed(r)
  BY DEF RecordExitAt
<1>4. \A r \in rows : Entry(r.pid, r) \in OnRecord
  BY DEF OnRecord
<1> HIDE DEF Closed
<1>5. ASSUME NEW q \in rows'
      PROVE  /\ Entry(q.pid, q) \in OnRecord
             /\ \/ \E r \in rows : q.pid = r.pid /\ q.inc = r.inc /\ q.exit = r.exit
                \/ Past(q.pid, q.exit) /\ IsLatest(q.inc, q.pid)
  <2>1. PICK r \in rows : q = Closed(r)
    BY <1>3
  <2>2. q.pid = r.pid /\ q.start = r.start /\ q.ppid = r.ppid /\ q.inc = r.inc
    BY <1>2, <2>1
  <2>3. Entry(q.pid, q) \in OnRecord
    BY <1>4, <2>2 DEF Entry
  <2>4. q.exit = r.exit \/ (r.pid = p /\ r.start = s /\ q.exit = x)
    BY <1>2, <2>1
  <2> QED
    BY <2>2, <2>3, <2>4
<1> QED
  BY <1>5 DEF RowsSaid

LEMMA WriteExitEdges ==
    ASSUME EdgeInv, WriterInv', NEW w \in Watcher, WriteExit(w)
    PROVE  EdgeInv' /\ (crashes = 0 => EdgeStep)
<1>1. /\ TypeOK /\ LatestLives /\ LivesInOrder /\ LinkExited
      /\ pc[w] = "exit" /\ chain[w] # <<>> /\ up
  BY DEF EdgeInv, WriterInv, IInv, Meanings, ExitInv, ExitParts, WriterParts, DownIsEmpty,
         WriteExit, TypeOK, DaemonTypeOK
<1>2. UNCHANGED <<now, procs, holder, tree, closing, crashes, up, netlink, chain>>
  BY DEF WriteExit
<1>3. ASSUME crashes = 0 PROVE RowsSaid
  <2>1. PICK item : item = Head(chain[w])
    OBVIOUS
  <2>2. 1 \in 1 .. Len(chain[w]) /\ item = chain[w][1]
    BY <1>1, <2>1 DEF TypeOK, DaemonTypeOK
  <2>3. /\ item.node.exited # None /\ item.node.exited \in Nat
        /\ item.node.start \in Nat /\ item.pid \in Pid
    BY <1>1, <2>1, HeadOfChain DEF LinkExited, Option
  <2>4. Past(item.pid, item.node.exited)
    BY <1>3, <2>2, <2>3 DEF EdgeInv, EdgeParts, ExitsPast
  <2>5. ASSUME NEW r \in rows, r.pid = item.pid, r.start = item.node.start
        PROVE  IsLatest(r.inc, r.pid)
    <3>1. IsLatest(item.node.inc, item.pid) /\ Over(item.pid, item.node.inc, item.node.start)
      BY <1>1, <2>2 DEF LatestLives, LivesInOrder
    <3>2. r.inc = item.node.inc
      BY <2>3, <2>5, <3>1 DEF Over
    <3> QED
      BY <2>5, <3>1, <3>2
  <2>6. \/ UNCHANGED rows
        \/ rows' = RecordExitAt(rows, item.pid, item.node.start, item.node.exited)
    BY <2>1 DEF WriteExit
  <2> QED
    BY <1>1, <2>3, <2>4, <2>5, <2>6, SaidSame, SaidClosed
<1>4. crashes = 0 => EdgeStep
  BY <1>2, <1>3, NodesSame, ClosingSame DEF EdgeStep, LinksCopied
<1> QED
  BY <1>1, <1>2, <1>4, StepEdges

LEMMA CloseRowEdges == EdgeInv /\ WriterInv' /\ CloseRow => EdgeInv' /\ (crashes = 0 => EdgeStep)
<1> SUFFICES ASSUME EdgeInv, WriterInv', CloseRow PROVE EdgeInv' /\ (crashes = 0 => EdgeStep)
  OBVIOUS
<1>1. TypeOK /\ ClosingLatest /\ up
  BY DEF EdgeInv, WriterInv, IInv, DownIsEmpty, WriterParts, CloseRow
<1>2. UNCHANGED <<now, procs, holder, tree, crashes, up, netlink, chain>> /\ closing' = NoClosing
  BY DEF CloseRow, threadVars
<1>3. ASSUME crashes = 0 PROVE RowsSaid
  <2>1. UNCHANGED rows \/ rows' = RecordExitAt(rows, closing.pid, closing.start, closing.exit)
    BY DEF CloseRow
  <2>2. CASE closing.pid = None
    <3>1. \A r \in rows : r.pid # None
      BY <1>1, PidAssumption DEF TypeOK, DaemonTypeOK, ProcRow
    <3>2. UNCHANGED rows
      BY <2>1, <2>2, <3>1 DEF RecordExitAt
    <3> QED
      BY <3>2, SaidSame
  <2>3. CASE closing.pid # None
    <3>1. closing.pid \in Pid /\ closing.start \in Nat /\ closing.exit \in Nat
      BY <1>1, <2>3 DEF TypeOK, DaemonTypeOK, Option
    <3>2. Past(closing.pid, closing.exit)
      BY <1>3, <2>3 DEF EdgeInv, EdgeParts, ExitsPast
    <3> QED
      BY <1>1, <2>1, <3>1, <3>2, SaidSame, SaidClosed DEF ClosingLatest
  <2> QED
    BY <2>2, <2>3
<1>4. crashes = 0 => EdgeStep
  BY <1>2, <1>3, NodesSame, ClosingSame DEF EdgeStep, LinksCopied
<1> QED
  BY <1>1, <1>2, <1>4, StepEdges

(* What /proc says of a running process' parent: init, or the one that     *)
(* forked it and still runs.                                               *)
LEMMA ProcParentLatest ==
    ASSUME TypeOK, LatestLives, NEW p \in Pid, ProcParent(p) \notin {None, InitPid}
    PROVE  holder[p] # 0 /\ IsLatest(procs[holder[p]].parent, ProcParent(p))
<1>1. holder[p] # 0
  BY DEF ProcParent
<1>2. holder[p] \in 1 .. Len(procs) /\ Len(procs) \in Nat
  BY <1>1, HolderType
<1>3. PICK i : i = procs[holder[p]].parent
  OBVIOUS
<1>4. Alive(i) /\ ProcParent(p) = procs[i].pid
  BY <1>3 DEF ProcParent
<1>5. i \in 1 .. Len(procs)
  <2>1. i \in Nat /\ i < holder[p] /\ i # 0
    BY <1>2, <1>3, <1>4, ProcsType DEF Alive
  <2> QED
    BY <1>2, <2>1
<1>6. procs[i].pid \in Pid /\ holder[procs[i].pid] = i
  BY <1>4, <1>5, ProcsType DEF Alive
<1>7. IsLatest(i, procs[i].pid)
  BY <1>4, <1>6 DEF LatestLives, Alive
<1> QED
  BY <1>1, <1>3, <1>4, <1>7

LEMMA MarkEdges ==
    ASSUME EdgeInv, WriterInv', NEW w \in Watcher, Mark(w)
    PROVE  EdgeInv' /\ (crashes = 0 => EdgeStep)
<1>1. TypeOK /\ chain[w] # <<>> /\ tree \in Tables /\ up
  BY DEF EdgeInv, WriterInv, IInv, DownIsEmpty, Mark, TypeOK, DaemonTypeOK
<1>2. UNCHANGED <<now, procs, holder, rows, closing, crashes, up, netlink>>
  BY DEF Mark, kernelVars
<1>3. PICK p \in Pid : p = Head(chain[w]).pid
  BY <1>1, HeadOfChain
<1>4. tree' = MarkPersisted(tree, p)
  BY <1>3 DEF Mark
<1>5. /\ \A x \in Pid \ {p} : tree'[x] = tree[x]
      /\ tree[p] = None => tree'[p] = None
      /\ tree[p] # None => /\ tree'[p] # None
                           /\ tree'[p].start = tree[p].start /\ tree'[p].ppid = tree[p].ppid
                           /\ tree'[p].inc = tree[p].inc /\ tree'[p].exited = tree[p].exited
  BY <1>1, <1>4, MarkPersistedTable
<1>6. NodesFresh /\ NodesKept
  BY <1>5, NodeChanged
<1>7. LinksCopied
  <2>1. /\ chain' = [chain EXCEPT ![w] = Tail(@)]
        /\ pc' = [pc EXCEPT ![w] = AfterChain(Tail(chain[w]))]
    BY DEF Mark
  <2> QED
    BY <1>1, <2>1, ChainShrinks DEF LinksCopied
<1>8. EdgeStep
  BY <1>2, <1>6, <1>7, SaidSame, ClosingSame DEF EdgeStep
<1> QED
  BY <1>1, <1>2, <1>8, StepEdges

LEMMA RecvForkEdges == EdgeInv /\ WriterInv' /\ RecvFork => EdgeInv' /\ (crashes = 0 => EdgeStep)
<1> SUFFICES ASSUME EdgeInv, WriterInv', RecvFork PROVE EdgeInv' /\ (crashes = 0 => EdgeStep)
  OBVIOUS
<1>1. /\ TypeOK /\ LatestLives /\ QueueOrdered /\ Receives("fork") /\ tree \in Tables
      /\ now \in Nat /\ up
  BY DEF EdgeInv, WriterInv, IInv, Meanings, DownIsEmpty, RecvFork, Receives,
         TypeOK, KernelTypeOK, DaemonTypeOK
<1>2. UNCHANGED <<now, procs, holder, rows, closing, crashes, up, chain>>
  BY DEF RecvFork, threadVars
<1>3. PICK p \in Pid, q \in Option(Pid), n \in Nat :
         p = Head(netlink).pid /\ q = Head(netlink).parent /\ n = Head(netlink).inc
  BY <1>1, HeadOfNetlink
<1>4. 1 \in 1 .. Len(netlink) /\ Head(netlink) = netlink[1] /\ netlink[1].kind = "fork"
  BY <1>1, ReadsQueue
<1>5. IsLatest(n, p) /\ tree[p] = None
  BY <1>1, <1>3, <1>4, MessageType DEF LatestLives, QueueOrdered
<1>6. tree' = OnFork(tree, q, p, now, n)
  BY <1>3 DEF RecvFork
<1>7. tree'[p] = NewNode(q, None, now, n) /\ \A x \in Pid \ {p} : tree'[x] = tree[x]
  BY <1>1, <1>6, OnForkTable
<1>8. ASSUME crashes = 0 PROVE EdgeStep
  <2>1. IsLatest(procs[n].parent, q)
    BY <1>3, <1>4, <1>8 DEF EdgeInv, EdgeParts, ForksLatest, ParentLatest
  <2>2. Fresh(Entry(p, tree'[p]))
    BY <1>5, <1>7, <2>1 DEF Fresh, Entry, NewNode
  <2>3. NodesFresh /\ NodesKept
    BY <1>5, <1>7, <2>2, NodeChanged
  <2> QED
    BY <1>2, <2>3, SaidSame, ClosingSame DEF EdgeStep, LinksCopied
<1> QED
  BY <1>1, <1>2, <1>8, StepEdges DEF Receives

LEMMA RecvExecEdges == EdgeInv /\ WriterInv' /\ RecvExec => EdgeInv' /\ (crashes = 0 => EdgeStep)
<1> SUFFICES ASSUME EdgeInv, WriterInv', RecvExec PROVE EdgeInv' /\ (crashes = 0 => EdgeStep)
  OBVIOUS
<1>1. /\ TypeOK /\ LatestLives /\ Receives("exec") /\ tree \in Tables /\ now \in Nat /\ up
  BY DEF EdgeInv, WriterInv, IInv, Meanings, DownIsEmpty, RecvExec, Receives,
         TypeOK, KernelTypeOK, DaemonTypeOK
<1>2. UNCHANGED <<now, procs, holder, rows, closing, crashes, up, chain>>
  BY DEF RecvExec, threadVars
<1>3. PICK p \in Pid, n \in Nat : p = Head(netlink).pid /\ n = Head(netlink).inc
  BY <1>1, HeadOfNetlink
<1>4. IsLatest(n, p)
  BY <1>1, <1>3, ReadsQueue, MessageType DEF LatestLives
<1>5. PICK im \in Option(Image), q \in Option(Pid) : im = ProcImage(p) /\ q = ProcParent(p)
  BY <1>1, ProcReads
<1>6. tree' = OnExec(tree, p, im, q, now, n)
  BY <1>3, <1>5 DEF RecvExec
<1>7. /\ \A x \in Pid \ {p} : tree'[x] = tree[x]
      /\ tree[p] = None => tree'[p] = NewNode(q, im, now, n)
      /\ tree[p] # None => /\ tree'[p] # None
                           /\ tree'[p].start = tree[p].start /\ tree'[p].ppid = tree[p].ppid
                           /\ tree'[p].inc = tree[p].inc /\ tree'[p].exited = tree[p].exited
  <2>1. PICK u : u = OnExec(tree, p, im, q, now, n)
    OBVIOUS
  <2>2. tree \in Tables /\ now \in Nat
    BY <1>1
  <2>3. /\ \A x \in Pid \ {p} : u[x] = tree[x]
        /\ tree[p] = None => u[p] = NewNode(q, im, now, n)
        /\ tree[p] # None => /\ u[p] # None
                             /\ u[p].start = tree[p].start /\ u[p].ppid = tree[p].ppid
                             /\ u[p].inc = tree[p].inc /\ u[p].exited = tree[p].exited
    BY <2>1, <2>2, OnExecTable
  <2> QED
    BY <1>6, <2>1, <2>3
<1>8. q \notin {None, InitPid} => IsLatest(procs[n].parent, q)
  <2>1. ASSUME q \notin {None, InitPid}
        PROVE  holder[p] # 0 /\ IsLatest(procs[holder[p]].parent, q)
    BY <1>1, <1>5, <2>1, ProcParentLatest
  <2>2. holder[p] # 0 => holder[p] = n
    BY <1>1, <1>4, LatestUnique DEF LatestLives
  <2> QED
    BY <2>1, <2>2
<1>9. tree[p] = None => Fresh(Entry(p, tree'[p]))
  BY <1>4, <1>7, <1>8 DEF Fresh, Forked, Entry, NewNode
<1>10. NodesFresh /\ NodesKept
  BY <1>7, <1>9, NodeChanged
<1>11. EdgeStep
  BY <1>2, <1>10, SaidSame, ClosingSame DEF EdgeStep, LinksCopied
<1> QED
  BY <1>1, <1>2, <1>11, StepEdges DEF Receives

LEMMA RecvExitEdges == EdgeInv /\ WriterInv' /\ RecvExit => EdgeInv' /\ (crashes = 0 => EdgeStep)
<1> SUFFICES ASSUME EdgeInv, WriterInv', RecvExit PROVE EdgeInv' /\ (crashes = 0 => EdgeStep)
  OBVIOUS
<1>1. /\ TypeOK /\ CopiesAgree /\ Receives("exit") /\ tree \in Tables /\ now \in Nat /\ up
  BY DEF EdgeInv, WriterInv, IInv, Meanings, DownIsEmpty, RecvExit, Receives,
         TypeOK, KernelTypeOK, DaemonTypeOK
<1>2. UNCHANGED <<now, procs, holder, rows, crashes, up, chain>>
  BY DEF RecvExit, threadVars
<1>3. PICK p \in Pid : p = Head(netlink).pid
  BY <1>1, HeadOfNetlink
<1>4. tree' = OnExit(tree, p, now)
  BY <1>3 DEF RecvExit
<1>5. /\ \A x \in Pid \ {p} : tree'[x] = tree[x]
      /\ tree[p] = None => tree'[p] = None
      /\ tree[p] # None => /\ tree'[p] # None
                           /\ tree'[p].start = tree[p].start /\ tree'[p].ppid = tree[p].ppid
                           /\ tree'[p].inc = tree[p].inc /\ tree'[p].exited = now
  BY <1>1, <1>4, OnExitTable
<1>6. ~LastHeard(p)
  BY <1>1, <1>3, ReadsQueue DEF LastHeard
<1>7. tree[p] # None => tree[p].exited = None
  BY <1>1, <1>6 DEF CopiesAgree
<1>8. NodesFresh /\ NodesKept
  BY <1>5, <1>7, NodeChanged
<1>9. ClosingKnown
  <2>1. CASE closing' = closing
    BY <2>1, ClosingSame
  <2>2. CASE /\ ExitWriteThrough(tree, p) # None
             /\ closing' = [pid |-> p, start |-> ExitWriteThrough(tree, p), exit |-> now]
    <3>1. tree[p] # None
      BY <2>2 DEF ExitWriteThrough
    <3>2. closing'.pid = p /\ closing'.exit = now
      BY <2>2
    <3>3. Past(closing.pid, closing.exit)'
      BY <1>5, <3>1, <3>2 DEF Past
    <3> QED
      BY <3>3 DEF ClosingKnown
  <2> QED
    BY <1>3, <2>1, <2>2 DEF RecvExit
<1>10. EdgeStep
  BY <1>2, <1>8, <1>9, SaidSame DEF EdgeStep, LinksCopied
<1> QED
  BY <1>1, <1>2, <1>10, StepEdges DEF Receives

LEMMA EvictEdges == EdgeInv /\ WriterInv' /\ Evict => EdgeInv' /\ (crashes = 0 => EdgeStep)
<1> SUFFICES ASSUME EdgeInv, WriterInv', Evict PROVE EdgeInv' /\ (crashes = 0 => EdgeStep)
  OBVIOUS
<1>1. /\ TypeOK /\ NodeTimes /\ tree \in Tables /\ now \in Nat /\ up
  BY DEF EdgeInv, WriterInv, IInv, ExitInv, ExitParts, Evict, TypeOK, KernelTypeOK, DaemonTypeOK
<1>2. UNCHANGED <<now, procs, holder, rows, closing, crashes, up, chain, netlink>>
  BY DEF Evict, kernelVars, threadVars
<1>3. ASSUME NEW p \in Pid
      PROVE  \/ tree'[p] = tree[p]
             \/ /\ tree'[p] = None /\ tree[p] # None /\ tree[p].start < now
                /\ tree[p].exited # None /\ tree[p].exited < now
  <2>1. CASE /\ tree[p] # None /\ tree[p].exited # None
             /\ tree[p].exited < now - Grace
    <3>1. tree[p].start \in Nat /\ tree[p].exited \in Nat
      BY <1>1, <2>1 DEF Tables, Option, ProcNode
    <3>2. tree[p].start <= tree[p].exited
      BY <1>1, <2>1 DEF NodeTimes
    <3>3. tree'[p] = None
      BY <2>1 DEF Evict, EvictStale
    <3> QED
      BY <1>1, <2>1, <3>1, <3>2, <3>3, GraceAssumption
  <2>2. CASE ~(tree[p] # None /\ tree[p].exited # None /\ tree[p].exited < now - Grace)
    BY <2>2 DEF Evict, EvictStale
  <2> QED
    BY <2>1, <2>2
<1>4. \A p \in Pid : tree[p] # None => Entry(p, tree[p]) \in Entries
  BY DEF Entries, OnRecord
<1>5. NodesFresh /\ NodesKept
  BY <1>3, <1>4 DEF NodesFresh, NodesKept
<1>6. EdgeStep
  BY <1>2, <1>5, SaidSame, ClosingSame DEF EdgeStep, LinksCopied
<1> QED
  BY <1>1, <1>2, <1>6, StepEdges

LEMMA BootEdges == EdgeInv /\ WriterInv' /\ Boot => EdgeInv'
<1> SUFFICES ASSUME EdgeInv, WriterInv', Boot PROVE EdgeInv'
  OBVIOUS
<1>1. TypeOK /\ LatestLives /\ now \in Nat /\ ~up
  BY DEF EdgeInv, WriterInv, IInv, Meanings, Boot, TypeOK, KernelTypeOK
<1>2. UNCHANGED <<now, procs, holder, rows, closing, crashes, chain, netlink>> /\ up'
  BY DEF Boot, threadVars
<1>3. ASSUME NEW p \in Pid, tree'[p] # None PROVE Fresh(Entry(p, tree'[p]))
  <2>1. tree'[p] = NewNode(ProcParent(p), ProcImage(p), now, holder[p]) /\ holder[p] # 0
    BY <1>3, BootNodes
  <2>2. PICK q, n : q = ProcParent(p) /\ n = holder[p]
    OBVIOUS
  <2>3. IsLatest(n, p)
    BY <1>1, <2>1, <2>2 DEF LatestLives
  <2>4. q \notin {None, InitPid} => IsLatest(procs[n].parent, q)
    BY <1>1, <2>2, ProcParentLatest
  <2>5. Entry(p, tree'[p]) = [pid |-> p, start |-> now, ppid |-> q, inc |-> n]
    BY <2>1, <2>2 DEF Entry, NewNode
  <2> QED
    BY <2>3, <2>4, <2>5 DEF Fresh, Forked
<1>4. ASSUME crashes = 0 PROVE EdgeStep
  <2>1. \A p \in Pid : tree[p] = None
    BY <1>1, <1>4 DEF EdgeInv, EdgeParts, NothingYet
  <2>2. NodesFresh /\ NodesKept
    BY <1>3, <2>1 DEF NodesFresh, NodesKept
  <2> QED
    BY <1>2, <2>2, SaidSame, ClosingSame DEF EdgeStep, LinksCopied
<1> QED
  BY <1>1, <1>2, <1>4, StepEdges

LEMMA CrashEdges == EdgeInv /\ WriterInv' /\ Crash => EdgeInv'
<1> SUFFICES ASSUME EdgeInv, WriterInv', Crash PROVE EdgeInv'
  OBVIOUS
<1>1. InitIsFirst'
  BY DEF EdgeInv, InitIsFirst, Crash
<1>2. crashes' # 0
  BY DEF EdgeInv, WriterInv, IInv, TypeOK, DaemonTypeOK, Crash
<1> QED
  BY <1>1, <1>2 DEF EdgeInv, EdgeParts

(* No process changes its pid or the one that forked it. *)
LEMMA ProcsKept ==
    ASSUME TypeOK, Machine
    PROVE  \A i \in 1 .. Len(procs) :
              /\ i \in 1 .. Len(procs')
              /\ procs'[i].pid = procs[i].pid /\ procs'[i].parent = procs[i].parent
<1>1. Len(procs) \in Nat /\ procs \in Seq(Process)
  BY DEF TypeOK, KernelTypeOK
<1>2. ASSUME NEW q \in Pid, NEW p \in Pid, Fork(q, p)
      PROVE  \A i \in 1 .. Len(procs) :
                /\ i \in 1 .. Len(procs')
                /\ procs'[i].pid = procs[i].pid /\ procs'[i].parent = procs[i].parent
  BY <1>1, <1>2, ForkType
<1>3. ASSUME NEW p \in Pid, NEW im \in Image, Exec(p, im)
      PROVE  \A i \in 1 .. Len(procs) :
                /\ i \in 1 .. Len(procs')
                /\ procs'[i].pid = procs[i].pid /\ procs'[i].parent = procs[i].parent
  BY <1>1, <1>3, ExecType
<1> QED
  BY <1>2, <1>3 DEF Machine, Exit, Write, Tick

(* The latest life of a pid stays it until the pid, settled, is given away. *)
LEMMA LatestGiven ==
    ASSUME TypeOK, Machine, NEW i, NEW x, IsLatest(i, x), ~IsLatest(i, x)'
    PROVE  \E q \in Pid : x \in Pid /\ Settled(x) /\ Fork(q, x)
<1>1. ASSUME NEW q \in Pid, NEW p \in Pid, Settled(p), Fork(q, p)
      PROVE  x = p
  BY <1>1, LatestFork
<1>2. ASSUME NEW p \in Pid, NEW im \in Image, Exec(p, im) PROVE FALSE
  BY <1>2, LatestExec
<1>3. CASE UNCHANGED procs
  BY <1>3, LatestSame
<1> QED
  BY <1>1, <1>2, <1>3 DEF Machine, Exit, Write, Tick

(* The children of a settled pid started in an earlier second. *)
LEMMA SettledEntry ==
    ASSUME TypeOK, LinksPast, NEW x \in Pid, Settled(x), NEW c \in Entries, c.ppid = x
    PROVE  c.start < now
<1>1. ASSUME NEW p \in Pid, tree[p] # None, tree[p].ppid = x PROVE tree[p].start < now
  BY <1>1 DEF Settled
<1>2. ASSUME NEW p \in Pid, tree[p] # None, c = Entry(p, tree[p]) PROVE c.start < now
  BY <1>1, <1>2 DEF Entry
<1>3. ASSUME NEW r \in rows, c = Entry(r.pid, r) PROVE c.start < now
  BY <1>3 DEF Entry, Settled
<1>4. ASSUME NEW w \in Watcher, NEW i \in 1 .. Len(chain[w]),
             c = Entry(chain[w][i].pid, chain[w][i].node)
      PROVE  c.start < now
  <2>1. c.start = chain[w][i].node.start /\ chain[w][i].node.ppid = x /\ chain[w][i].pid \in Pid
    BY <1>4, LinkType DEF Entry
  <2>2. CASE chain[w][i].node.start < now
    BY <2>1, <2>2
  <2>3. CASE /\ tree[chain[w][i].pid] # None
             /\ tree[chain[w][i].pid].start = chain[w][i].node.start
             /\ tree[chain[w][i].pid].ppid = chain[w][i].node.ppid
    BY <1>1, <2>1, <2>3
  <2> QED
    BY <2>2, <2>3 DEF LinksPast
<1> QED
  BY <1>2, <1>3, <1>4 DEF Entries, OnRecord

LEMMA MachineInit ==
    ASSUME TypeOK, InitIsFirst, Machine
    PROVE  InitIsFirst'
<1>1. /\ Len(procs) \in Nat /\ holder \in [Pid -> 0 .. Len(procs)] /\ InitPid \in Pid
      /\ \A i \in 1 .. Len(procs) : procs[i].pid = InitPid => i = 1
      /\ holder[InitPid] = 1
  <2>1. Len(procs) \in Nat /\ holder \in [Pid -> 0 .. Len(procs)]
    BY DEF TypeOK, KernelTypeOK
  <2> QED
    BY <2>1, InitPidAssumption DEF InitIsFirst
<1>2. ASSUME NEW q \in Pid, NEW p \in Pid, Fork(q, p) PROVE InitIsFirst'
  <2>1. p # InitPid /\ holder' = [holder EXCEPT ![p] = Len(procs) + 1]
    BY <1>1, <1>2 DEF Fork
  <2>2. /\ Len(procs') = Len(procs) + 1 /\ procs'[Len(procs) + 1].pid = p
        /\ \A i \in 1 .. Len(procs) : procs'[i] = procs[i]
    BY <1>2, ForkType
  <2>3. \A i \in 1 .. Len(procs') : i = Len(procs) + 1 \/ i \in 1 .. Len(procs)
    BY <1>1, <2>2
  <2>4. \A i \in 1 .. Len(procs') : procs'[i].pid = InitPid => i = 1
    BY <1>1, <2>1, <2>2, <2>3
  <2>5. holder'[InitPid] = 1
    BY <1>1, <2>1
  <2> QED
    BY <2>4, <2>5 DEF InitIsFirst
<1>3. ASSUME NEW p \in Pid, NEW im \in Image, Exec(p, im) PROVE InitIsFirst'
  BY <1>1, <1>3, ExecType DEF Exec, InitIsFirst
<1>4. ASSUME NEW p \in Pid, Exit(p) PROVE InitIsFirst'
  BY <1>1, <1>4 DEF Exit, InitIsFirst
<1> QED
  BY <1>1, <1>2, <1>3, <1>4 DEF Machine, Write, Tick, InitIsFirst

LEMMA MachineForks ==
    ASSUME TypeOK, QueueTrue, LatestLives, ForksLatest, Machine
    PROVE  ForksLatest'
<1>1. \A i \in 1 .. Len(procs) : procs'[i].parent = procs[i].parent
  BY ProcsKept
<1>2. ASSUME NEW i \in 1 .. Len(netlink), NEW m, m = netlink[i], m.kind = "fork"
      PROVE  ParentLatest(m)'
  <2>1. m.inc \in 1 .. Len(procs)
    BY <1>2, MessageType DEF QueueTrue
  <2>2. PICK j, x : j = procs[m.inc].parent /\ x = m.parent
    OBVIOUS
  <2>3. IsLatest(j, x) /\ Unread(x)
    BY <1>2, <2>2 DEF ForksLatest, ParentLatest, Unread
  <2>4. IsLatest(j, x)'
    BY <2>3, LatestGiven DEF Settled
  <2>5. procs'[m.inc].parent = j
    BY <1>1, <2>1, <2>2
  <2> QED
    BY <2>2, <2>4, <2>5 DEF IsLatest, ParentLatest
<1>3. SUFFICES ASSUME NEW i \in 1 .. Len(netlink'), NEW m, m = netlink'[i], m.kind = "fork"
               PROVE  ParentLatest(m)'
  BY DEF ForksLatest, ParentLatest, IsLatest
<1>4. CASE netlink' = netlink
  BY <1>2, <1>3, <1>4
<1>5. ASSUME NEW e, Emit(e), e.kind # "fork" PROVE ParentLatest(m)'
  <2>1. i \in 1 .. Len(netlink) /\ netlink'[i] = netlink[i]
    BY <1>3, <1>5, EmitQueue DEF Overrun, Msg
  <2> QED
    BY <1>2, <1>3, <2>1
<1>6. ASSUME NEW q \in Pid, NEW p \in Pid, Fork(q, p) PROVE ParentLatest(m)'
  <2>1. PICK e, n, h : n = Len(procs) + 1 /\ e = Msg("fork", p, q, n) /\ h = holder[q]
    OBVIOUS
  <2>2. Emit(e) /\ e.inc = n /\ e.parent = q /\ p # q /\ h # 0
    BY <1>6, <2>1 DEF Fork, Msg
  <2>3. IsLatest(h, q)
    BY <2>1, <2>2 DEF LatestLives
  <2>4. IsLatest(h, q)'
    BY <1>6, <2>2, <2>3, LatestFork
  <2>5. procs'[n].parent = h
    <3>1. procs \in Seq(Process)
      BY DEF TypeOK, KernelTypeOK
    <3> QED
      BY <1>6, <2>1, <3>1 DEF Fork
  <2>6. CASE i \in 1 .. Len(netlink) /\ netlink'[i] = netlink[i]
    BY <1>2, <1>3, <2>6
  <2>7. CASE netlink'[i] = e
    BY <1>3, <2>2, <2>4, <2>5, <2>7 DEF IsLatest, ParentLatest
  <2> QED
    BY <1>3, <2>2, <2>6, <2>7, EmitQueue DEF Overrun, Msg
<1>7. ASSUME NEW p \in Pid, Exit(p) PROVE ParentLatest(m)'
  BY <1>5, <1>7 DEF Exit, Msg
<1>8. ASSUME NEW p \in Pid, NEW im \in Image, Exec(p, im) PROVE ParentLatest(m)'
  BY <1>5, <1>8 DEF Exec, Msg
<1> QED
  BY <1>4, <1>6, <1>7, <1>8 DEF Machine, Write, Tick

(* The machine gives a pid away, and what was said of its children is over. *)
LEMMA MachineParents ==
    ASSUME EdgeInv, crashes = 0, Machine
    PROVE  ParentsNamed' /\ ParentsLatest' /\ LaterLivesStart' /\ EarlierLivesEnd'
<1>1. /\ TypeOK /\ NamesTrue /\ ParentsNamed /\ ParentsLatest /\ LaterLivesStart
      /\ EarlierLivesEnd /\ LinksPast
  BY DEF EdgeInv, WriterInv, ExitInv, ExitParts, EdgeParts
<1>2. UNCHANGED <<tree, rows, chain>> /\ Entries' = Entries
  BY DEF Machine, daemonVars, threadVars, Entries, OnRecord, Entry
<1>3. now \in Nat /\ now' \in Nat /\ now <= now'
  BY <1>1, MachineClock
<1>4. \A i \in 1 .. Len(procs) :
         /\ i \in 1 .. Len(procs')
         /\ procs'[i].pid = procs[i].pid /\ procs'[i].parent = procs[i].parent
  BY <1>1, ProcsKept
<1>5. \A c \in Entries : c.inc \in 1 .. Len(procs) /\ c.start \in Nat
  BY <1>1, EntryNamed
<1>6. ParentsNamed'
  BY <1>1, <1>2, <1>4, <1>5 DEF ParentsNamed, Forked
<1>7. LaterLivesStart' /\ EarlierLivesEnd'
  BY <1>1, <1>2, <1>4, <1>5 DEF LaterLivesStart, EarlierLivesEnd, Forked
<1>8. ASSUME NEW c \in Entries, Forked(c)
      PROVE  IsLatest(procs[c.inc].parent, c.ppid)' \/ c.start < now'
  <2>1. PICK i, x : i = procs[c.inc].parent /\ x = c.ppid
    OBVIOUS
  <2>2. CASE c.start < now
    BY <1>3, <1>5, <2>2
  <2>3. CASE IsLatest(i, x)
    <3>1. CASE IsLatest(i, x)'
      BY <1>4, <1>5, <2>1, <3>1 DEF IsLatest
    <3>2. CASE ~IsLatest(i, x)'
      <4>1. x \in Pid /\ Settled(x)
        BY <1>1, <2>3, <3>2, LatestGiven
      <4>2. c.start < now
        BY <1>1, <2>1, <4>1, SettledEntry
      <4> QED
        BY <1>3, <1>5, <4>2
    <3> QED
      BY <3>1, <3>2
  <2> QED
    BY <1>1, <1>8, <2>1, <2>2, <2>3 DEF ParentsLatest
<1>9. ParentsLatest'
  BY <1>2, <1>8 DEF ParentsLatest, Forked
<1> QED
  BY <1>6, <1>7, <1>9

LEMMA MachinePast ==
    ASSUME EdgeInv, crashes = 0, QuickReuse = FALSE, Machine
    PROVE  ExitsPast' /\ LinksPast'
<1>1. TypeOK /\ ExitsPast /\ LinksPast /\ rows \in SUBSET ProcRow
  BY DEF EdgeInv, WriterInv, IInv, EdgeParts, TypeOK, DaemonTypeOK
<1>2. UNCHANGED <<tree, rows, chain, closing>>
  BY DEF Machine, daemonVars, threadVars
<1>3. now \in Nat /\ now' \in Nat /\ now <= now'
  BY <1>1, MachineClock
<1>4. ASSUME NEW p, NEW x \in Nat, Past(p, x) PROVE Past(p, x)'
  BY <1>2, <1>3, <1>4 DEF Past
<1>5. ASSUME NEW r \in rows, r.exit # None
      PROVE  Past(r.pid, r.exit)' /\ (r.exit < now' \/ IsLatest(r.inc, r.pid)')
  <2>1. PICK p, x, i : p \in Pid /\ x \in Nat /\ p = r.pid /\ x = r.exit /\ i = r.inc
    BY <1>1, <1>5 DEF ProcRow, Option
  <2>2. Past(p, x) /\ (x < now \/ IsLatest(i, p))
    BY <1>1, <1>5, <2>1 DEF ExitsPast
  <2>3. x < now' \/ IsLatest(i, p)'
    <3>1. CASE x < now
      BY <1>3, <2>1, <3>1
    <3>2. CASE IsLatest(i, p) /\ ~IsLatest(i, p)'
      <4>1. Settled(p)
        BY <1>1, <3>2, LatestGiven
      <4>2. tree[p] = None
        BY <2>1, <4>1 DEF Settled, Remembered
      <4> QED
        BY <1>3, <2>1, <2>2, <4>2 DEF Past
    <3> QED
      BY <2>2, <3>1, <3>2
  <2>4. Past(p, x)'
    BY <1>4, <2>1, <2>2
  <2>5. r.exit < now' \/ IsLatest(r.inc, r.pid)'
    BY <2>1, <2>3 DEF IsLatest
  <2> QED
    BY <2>1, <2>4, <2>5 DEF Past
<1>6. ASSUME NEW w \in Watcher, NEW i \in 1 .. Len(chain[w]), chain[w][i].node.exited # None
      PROVE  \/ chain[w][i].node.exited < now'
             \/ tree[chain[w][i].pid] # None /\ tree[chain[w][i].pid].exited = chain[w][i].node.exited
  <2>1. chain[w][i].node.exited \in Nat
    BY <1>1, <1>6, LinkType DEF ProcNode, Option
  <2> QED
    BY <1>1, <1>3, <1>6, <2>1 DEF ExitsPast, Past
<1>7. closing.pid # None =>
         \/ closing.exit < now'
         \/ tree[closing.pid] # None /\ tree[closing.pid].exited = closing.exit
  <2>1. closing.exit \in Nat
    BY <1>1 DEF TypeOK, DaemonTypeOK
  <2> QED
    BY <1>1, <1>3, <2>1 DEF ExitsPast, Past
<1>8. ExitsPast'
  BY <1>2, <1>5, <1>6, <1>7 DEF ExitsPast, Past
<1>9. ASSUME NEW w \in Watcher, NEW i \in 1 .. Len(chain[w])
      PROVE  \/ chain[w][i].node.start < now'
             \/ /\ tree[chain[w][i].pid] # None
                /\ tree[chain[w][i].pid].start = chain[w][i].node.start
                /\ tree[chain[w][i].pid].ppid = chain[w][i].node.ppid
  <2>1. chain[w][i].node.start \in Nat
    BY <1>1, LinkType
  <2> QED
    BY <1>1, <1>3, <2>1 DEF LinksPast
<1>10. LinksPast'
  BY <1>2, <1>9 DEF LinksPast
<1> QED
  BY <1>8, <1>10

LEMMA MachineEdges ==
    ASSUME EdgeInv, WriterInv', QuickReuse = FALSE, Machine
    PROVE  EdgeInv'
<1>1. /\ TypeOK /\ InitIsFirst /\ QueueTrue /\ LatestLives
      /\ UNCHANGED <<crashes, up, tree, rows>>
  BY DEF EdgeInv, WriterInv, IInv, Meanings, ExitInv, ExitParts, Machine, daemonVars
<1>2. InitIsFirst'
  BY <1>1, MachineInit
<1>3. ASSUME crashes = 0 PROVE ForksLatest' /\ NothingYet'
  <2>1. ForksLatest /\ NothingYet
    BY <1>3 DEF EdgeInv, EdgeParts
  <2> QED
    BY <1>1, <2>1, MachineForks DEF NothingYet
<1>4. EdgeParts'
  BY <1>1, <1>3, MachineParents, MachinePast DEF EdgeParts
<1> QED
  BY <1>2, <1>4 DEF EdgeInv

-----------------------------------------------------------------------------
LEMMA InitEdges == Init => EdgeInv
<1> SUFFICES ASSUME Init PROVE EdgeInv
  OBVIOUS
<1>1. /\ rows = {} /\ netlink = <<>> /\ closing.pid = None
      /\ \A p \in Pid : tree[p] = None
      /\ \A w \in Watcher : chain[w] = <<>>
  BY DEF Init, KernelInit, EmptyTable, NoClosing
<1>2. Entries = {}
  BY <1>1 DEF Entries, OnRecord
<1>3. InitIsFirst
  BY InitPidAssumption DEF Init, KernelInit, InitIsFirst
<1>4. EdgeParts
  BY <1>1, <1>2 DEF EdgeParts, ParentsNamed, ParentsLatest, LaterLivesStart, EarlierLivesEnd,
                    ExitsPast, LinksPast, ForksLatest, NothingYet
<1> QED
  BY <1>3, <1>4, InitWriter DEF EdgeInv

LEMMA NextEdges == EdgeInv /\ QuickReuse = FALSE /\ [Next]_vars => EdgeInv'
<1> SUFFICES ASSUME EdgeInv, QuickReuse = FALSE, [Next]_vars PROVE EdgeInv'
  OBVIOUS
<1>1. WriterInv'
  BY NextWriter DEF EdgeInv
<1>2. ASSUME NEW w \in Watcher, WatcherStep(w) \/ ReadError(w) \/ DropEvent(w)
      PROVE  EdgeInv'
  BY <1>1, <1>2, IdleEdges, TakeEventEdges, InsertRowEdges, WriteExitEdges, MarkEdges
     DEF WatcherStep
<1>3. ASSUME ConnectorStep PROVE EdgeInv'
  BY <1>1, <1>3, QueueEdges, RecvForkEdges, RecvExecEdges, RecvExitEdges, CloseRowEdges
     DEF ConnectorStep
<1> QED
  BY <1>1, <1>2, <1>3, MachineEdges, BootEdges, CrashEdges, EvictEdges, QueueEdges DEF Next

(* The row of a parent, as ancestry finds it, is that of the real parent;  *)
(* another life's can only be one that was wrongly left open.              *)
LEMMA EdgesReal == EdgeInv => EdgesAreReal
<1> SUFFICES ASSUME EdgeInv, Undisturbed, NEW r \in rows, NEW q \in ParentRows(rows, r)
             PROVE  q.inc = RealParent(r) \/ LeftOpen(q.pid, RealParent(r))
  BY DEF EdgesAreReal
<1>1. /\ TypeOK /\ NamesTrue /\ LatestLives /\ InitIsFirst
      /\ ParentsNamed /\ LaterLivesStart /\ EarlierLivesEnd /\ rows \in SUBSET ProcRow
  BY DEF EdgeInv, WriterInv, IInv, Meanings, ExitInv, ExitParts, EdgeParts, Undisturbed,
         TypeOK, DaemonTypeOK
<1>2. /\ q \in rows /\ q.pid = r.ppid /\ q.start <= r.start
      /\ q.exit = None \/ q.exit >= r.start
  BY DEF ParentRows, OpenAt
<1>3. PICK c, e : c = Entry(r.pid, r) /\ e = Entry(q.pid, q)
  OBVIOUS
<1>4. /\ c \in Entries /\ c.ppid = r.ppid /\ c.inc = r.inc /\ c.start = r.start
      /\ e \in Entries /\ e.pid = q.pid /\ e.inc = q.inc /\ e.start = q.start
  BY <1>2, <1>3 DEF Entries, OnRecord, Entry
<1>5. q.pid \in Pid /\ q.inc \in 1 .. Len(procs) /\ procs[q.inc].pid = q.pid /\ q.inc \in Nat
  BY <1>1, <1>4, EntryNamed
<1>6. CASE r.ppid = InitPid
  BY <1>1, <1>2, <1>5, <1>6 DEF InitIsFirst, RealParent
<1>7. CASE r.ppid # InitPid
  <2>1. Forked(c)
    BY <1>2, <1>4, <1>5, <1>7, PidAssumption DEF Forked
  <2>2. PICK i : i = procs[r.inc].parent
    OBVIOUS
  <2>3. /\ i \in 1 .. Len(procs) /\ i \in Nat /\ procs[i].pid = q.pid /\ RealParent(r) = i
    BY <1>1, <1>2, <1>4, <1>7, <2>1, <2>2 DEF ParentsNamed, RealParent
  <2>4. r.start \in Nat /\ q.start \in Nat /\ q.exit \in Option(Nat)
    BY <1>1, <1>2 DEF ProcRow
  <2>5. ~(i < q.inc)
    BY <1>1, <1>2, <1>4, <2>1, <2>2, <2>4 DEF LaterLivesStart
  <2>6. CASE q.inc < i
    <3>1. q.exit = None
      BY <1>1, <1>2, <1>4, <2>1, <2>2, <2>4, <2>6 DEF EarlierLivesEnd, Option
    <3>2. ~IsLatest(q.inc, q.pid)
      BY <1>5, <2>3, <2>6 DEF IsLatest
    <3>3. ~Alive(q.inc)
      BY <1>1, <1>5, <3>2 DEF Alive, LatestLives
    <3> QED
      BY <1>2, <2>3, <2>6, <3>1, <3>3 DEF LeftOpen
  <2> QED
    BY <1>5, <2>3, <2>5, <2>6
<1> QED
  BY <1>6, <1>7

(* An edge that ancestry follows leads to the process that forked the      *)
(* child or adopted it, never to another life of its pid, unless that      *)
(* life's row was wrongly left open (graph.rs:426): whatever was evicted,  *)
(* copied and closed between the fork and the row.                         *)
THEOREM EdgesTrue == QuickReuse = FALSE => (Spec => []EdgesAreReal)
<1>1. CASE QuickReuse = FALSE
  <2>1. EdgeInv /\ [Next]_vars => EdgeInv'
    BY <1>1, NextEdges
  <2> QED
    BY <2>1, InitEdges, EdgesReal, PTL DEF Spec
<1> QED
  BY <1>1

-----------------------------------------------------------------------------
(* Root first.  A climb goes on to a root, or has come round when it ends: *)
(* MAX_CHAIN (proctree.rs:47) cuts no line of different processes.         *)
ClimbsWhole ==
    \A p \in Pid : \A c \in Climbs(tree, p) :
        c # <<>> /\ ClimbsOn(tree, c[Len(c)]) =>
            \E k \in 1 .. Len(c) : \E l \in 1 .. k - 1 :
                c[k] = tree[c[Len(c)]].ppid /\ c[l] = c[Len(c)]

(* Only a thread that writes a chain has one. *)
ChainIdle == \A w \in Watcher : pc[w] \notin {"insert", "exit", "mark"} => chain[w] = <<>>

(* One of the chains C has the process (q, s), and after it the pid p. *)
Coming(C, q, s, p) ==
    \E w \in Watcher : \E i, j \in 1 .. Len(C[w]) :
        /\ i < j /\ C[w][j].pid = p
        /\ C[w][i].pid = q /\ C[w][i].node.start = s

(* What is said of AncestorsStored's rows holds of links, too. *)
LineStored ==
    \A c \in OnRecord :
        c.ppid # None /\ tree[c.ppid] # None /\ tree[c.ppid].start <= c.start =>
            \/ Keyed(rows, c.ppid, tree[c.ppid].start) # {}
            \/ Coming(chain, c.ppid, tree[c.ppid].start, c.pid)

(* The table knows who runs and who calls exec, or will have read of them  *)
(* by then; ...                                                            *)
HoldersHeard ==
    \A p \in Pid : holder[p] # 0 =>
        \/ tree[p] # None
        \/ \E i \in 1 .. Len(netlink) : netlink[i].kind = "fork" /\ netlink[i].pid = p

ExecsHeard ==
    \A i \in 1 .. Len(netlink) : netlink[i].kind = "exec" =>
        \/ tree[netlink[i].pid] # None
        \/ \E j \in 1 .. i - 1 : netlink[j].kind = "fork" /\ netlink[j].pid = netlink[i].pid

(* ... what waits to be read of a fork is younger than all it knows.       *)
ForksLater ==
    \A i \in 1 .. Len(netlink) : netlink[i].kind = "fork" =>
        /\ \A c \in Entries : c.inc < netlink[i].inc
        /\ \A j \in 1 .. i - 1 : netlink[j].kind = "fork" => netlink[j].inc < netlink[i].inc

RootKnown == tree[InitPid] # None => tree[InitPid].ppid = None

Heard == HoldersHeard /\ ExecsHeard /\ ForksLater /\ RootKnown

(* The daemon runs, never died, and has missed nothing. *)
Unbroken == Undisturbed /\ up /\ ~missed

(* The inductive invariant behind AncestorsStored. *)
LineInv == EdgeInv /\ ChainIdle /\ (Unbroken => Heard /\ LineStored)

LEMMA OnRecordWithin ==
    ASSUME RowsSaid,
           \A w \in Watcher : \A i \in 1 .. Len(chain'[w]) :
              \E k \in 1 .. Len(chain[w]) : chain'[w][i] = chain[w][k]
    PROVE  \A c \in OnRecord' : c \in OnRecord
<1>1. ASSUME NEW r \in rows' PROVE Entry(r.pid, r) \in OnRecord
  BY DEF RowsSaid
<1>2. ASSUME NEW w \in Watcher, NEW i \in 1 .. Len(chain'[w])
      PROVE  Entry(chain'[w][i].pid, chain'[w][i].node) \in OnRecord
  <2>1. PICK k \in 1 .. Len(chain[w]) : chain'[w][i] = chain[w][k]
    OBVIOUS
  <2> QED
    BY <2>1 DEF OnRecord
<1>3. ASSUME NEW c \in OnRecord'
      PROVE  \/ \E r \in rows' : c = Entry(r.pid, r)
             \/ \E w \in Watcher : \E i \in 1 .. Len(chain'[w]) :
                   c = Entry(chain'[w][i].pid, chain'[w][i].node)
  BY DEF OnRecord, Entry
<1> QED
  BY <1>1, <1>2, <1>3

LEMMA EntriesWithin ==
    ASSUME NEW S, \A c \in OnRecord' : c \in OnRecord \cup S,
           \A p \in Pid : tree'[p] # None => Entry(p, tree'[p]) \in Entries \cup S
    PROVE  \A c \in Entries' : c \in Entries \cup S
<1>1. ASSUME NEW c \in Entries'
      PROVE  c \in OnRecord' \/ \E p \in Pid : tree'[p] # None /\ c = Entry(p, tree'[p])
  BY DEF Entries, Entry
<1>2. OnRecord \subseteq Entries
  BY DEF Entries
<1> QED
  BY <1>1, <1>2

(* What the table knows, after a step that reads the queue or does not.    *)
LEMMA HeardStep ==
    ASSUME TypeOK, Heard, UNCHANGED holder,
           \/ netlink' = netlink
           \/ /\ netlink # <<>> /\ netlink' = Tail(netlink)
              /\ Head(netlink).kind = "fork" => tree'[Head(netlink).pid] # None,
           \A p \in Pid : tree[p] # None => tree'[p] # None \/ LastHeard(p),
           \A c \in Entries' :
              \/ c \in Entries
              \/ \A i \in 1 .. Len(netlink') : netlink'[i].kind = "fork" => c.inc < netlink'[i].inc,
           RootKnown'
    PROVE  Heard'
<1>1. PICK d \in {0, 1} :
         /\ Len(netlink) \in Nat /\ Len(netlink') = Len(netlink) - d
         /\ \A i \in 1 .. Len(netlink') : i + d \in 1 .. Len(netlink) /\ netlink'[i] = netlink[i + d]
         /\ d = 1 => (netlink[1].kind = "fork" => tree'[netlink[1].pid] # None)
  <2>1. CASE netlink' = netlink
    <3>1. Len(netlink) \in Nat
      BY DEF TypeOK, KernelTypeOK
    <3> QED
      BY <2>1, <3>1
  <2>2. CASE netlink' # netlink
    BY <2>2, TailQueue
  <2> QED
    BY <2>1, <2>2
<1>2. ASSUME NEW i \in 1 .. Len(netlink), NEW p \in Pid, netlink[i].kind = "fork", netlink[i].pid = p
      PROVE  \/ tree'[p] # None
             \/ i - d \in 1 .. Len(netlink') /\ netlink'[i - d] = netlink[i]
  <2>1. CASE i - d = 0
    BY <1>1, <1>2, <2>1
  <2>2. CASE i - d # 0
    BY <1>1, <2>2
  <2> QED
    BY <2>1, <2>2
<1>3. HoldersHeard'
  <2> SUFFICES ASSUME NEW p \in Pid, holder[p] # 0, tree'[p] = None
               PROVE  \E i \in 1 .. Len(netlink') : netlink'[i].kind = "fork" /\ netlink'[i].pid = p
    BY DEF HoldersHeard
  <2>1. ~LastHeard(p)
    BY DEF LastHeard
  <2>2. PICK i \in 1 .. Len(netlink) : netlink[i].kind = "fork" /\ netlink[i].pid = p
    BY <2>1 DEF Heard, HoldersHeard
  <2> QED
    BY <1>2, <2>2
<1>4. ExecsHeard'
  <2> SUFFICES ASSUME NEW i \in 1 .. Len(netlink'), netlink'[i].kind = "exec",
                      tree'[netlink'[i].pid] = None
               PROVE  \E j \in 1 .. i - 1 : netlink'[j].kind = "fork" /\ netlink'[j].pid = netlink'[i].pid
    BY DEF ExecsHeard
  <2>1. PICK n \in 1 .. Len(netlink) : n = i + d /\ netlink'[i] = netlink[n]
    BY <1>1
  <2>2. PICK p \in Pid : p = netlink[n].pid
    BY <2>1, MessageType
  <2>3. ~LastHeard(p)
    BY <2>2 DEF LastHeard
  <2>4. PICK j \in 1 .. n - 1 : netlink[j].kind = "fork" /\ netlink[j].pid = p
    BY <2>1, <2>2, <2>3 DEF Heard, ExecsHeard
  <2>5. j \in 1 .. Len(netlink)
    BY <1>1, <2>1, <2>4
  <2>6. j - d \in 1 .. Len(netlink') /\ netlink'[j - d] = netlink[j]
    BY <1>2, <2>1, <2>2, <2>4, <2>5
  <2>7. j - d \in 1 .. i - 1
    BY <1>1, <2>1, <2>4, <2>6
  <2> QED
    BY <2>1, <2>2, <2>4, <2>6, <2>7
<1>5. ForksLater'
  <2> SUFFICES ASSUME NEW i \in 1 .. Len(netlink'), netlink'[i].kind = "fork"
               PROVE  /\ \A c \in Entries' : c.inc < netlink'[i].inc
                      /\ \A j \in 1 .. i - 1 : netlink'[j].kind = "fork" => netlink'[j].inc < netlink'[i].inc
    BY DEF ForksLater
  <2>1. PICK n \in 1 .. Len(netlink) : n = i + d /\ netlink'[i] = netlink[n]
    BY <1>1
  <2>2. /\ \A c \in Entries : c.inc < netlink[n].inc
        /\ \A j \in 1 .. n - 1 : netlink[j].kind = "fork" => netlink[j].inc < netlink[n].inc
    BY <2>1 DEF Heard, ForksLater
  <2>3. \A j \in 1 .. i - 1 : j \in 1 .. Len(netlink') /\ j + d \in 1 .. n - 1
    BY <1>1, <2>1
  <2> QED
    BY <1>1, <2>1, <2>2, <2>3
<1> QED
  BY <1>3, <1>4, <1>5 DEF Heard

(* A parent that was stored or comes still is, or does, unless the pid's   *)
(* node is another one, which starts later.                                *)
LEMMA LineStep ==
    ASSUME LineStored,
           \A c \in OnRecord' : c \in OnRecord,
           \A p, s : Keyed(rows, p, s) # {} => Keyed(rows', p, s) # {},
           \A c \in OnRecord' : c.ppid # None /\ tree'[c.ppid] # None =>
              \/ tree[c.ppid] # None /\ tree'[c.ppid].start = tree[c.ppid].start
              \/ ~(tree'[c.ppid].start <= c.start),
           \A q, s, p : Coming(chain, q, s, p) => Coming(chain', q, s, p) \/ Keyed(rows', q, s) # {}
    PROVE  LineStored'
<1> SUFFICES ASSUME NEW c \in OnRecord', c.ppid # None, tree'[c.ppid] # None,
                    tree'[c.ppid].start <= c.start
             PROVE  \/ Keyed(rows', c.ppid, tree'[c.ppid].start) # {}
                    \/ Coming(chain', c.ppid, tree'[c.ppid].start, c.pid)
  BY DEF LineStored, Coming, Keyed
<1>1. PICK s : s = tree'[c.ppid].start
  OBVIOUS
<1>2. tree[c.ppid] # None /\ s = tree[c.ppid].start
  BY <1>1
<1>3. Keyed(rows, c.ppid, s) # {} \/ Coming(chain, c.ppid, s, c.pid)
  BY <1>1, <1>2 DEF LineStored
<1>4. Keyed(rows', c.ppid, s) # {} \/ Coming(chain', c.ppid, s, c.pid)
  BY <1>3
<1> QED
  BY <1>1, <1>4

LEMMA PpidType ==
    ASSUME TypeOK, NEW c \in OnRecord, c.ppid # None
    PROVE  c.ppid \in Pid
<1>1. \A r \in rows : r.ppid \in Option(Pid)
  BY DEF TypeOK, DaemonTypeOK, ProcRow
<1>2. \A w \in Watcher : \A i \in 1 .. Len(chain[w]) : chain[w][i].node.ppid \in Option(Pid)
  BY LinkType DEF ProcNode
<1>3. c.ppid \in Option(Pid)
  BY <1>1, <1>2 DEF OnRecord, Entry
<1> QED
  BY <1>3 DEF Option

(* A step that brings no process the table did not know. *)
LEMMA TameStep ==
    ASSUME TypeOK, EdgeStep, Heard, LineStored,
           \A w \in Watcher : \A i \in 1 .. Len(chain'[w]) :
              \E k \in 1 .. Len(chain[w]) : chain'[w][i] = chain[w][k],
           \A q, s, p : Coming(chain, q, s, p) => Coming(chain', q, s, p) \/ Keyed(rows', q, s) # {},
           \A p, s : Keyed(rows, p, s) # {} => Keyed(rows', p, s) # {},
           \/ netlink' = netlink
           \/ netlink # <<>> /\ netlink' = Tail(netlink) /\ Head(netlink).kind # "fork",
           \A p \in Pid : tree[p] # None => tree'[p] # None \/ LastHeard(p),
           \A p \in Pid : tree'[p] # None =>
              /\ tree[p] # None
              /\ tree'[p].start = tree[p].start /\ tree'[p].ppid = tree[p].ppid
              /\ tree'[p].inc = tree[p].inc
    PROVE  Heard' /\ LineStored'
<1>1. RowsSaid /\ UNCHANGED holder
  BY DEF EdgeStep
<1>2. \A c \in OnRecord' : c \in OnRecord
  BY <1>1, OnRecordWithin
<1>3. \A p \in Pid : tree'[p] # None => Entry(p, tree'[p]) \in Entries
  <2>1. ASSUME NEW p \in Pid, tree'[p] # None PROVE Entry(p, tree'[p]) \in Entries
    <3>1. tree[p] # None /\ Entry(p, tree'[p]) = Entry(p, tree[p])
      BY <2>1 DEF Entry
    <3> QED
      BY <3>1 DEF Entries
  <2> QED
    BY <2>1
<1>4. \A c \in Entries' : c \in Entries
  <2>1. \A c \in OnRecord' : c \in OnRecord \cup {}
    BY <1>2
  <2>2. \A p \in Pid : tree'[p] # None => Entry(p, tree'[p]) \in Entries \cup {}
    BY <1>3
  <2>3. \A c \in Entries' : c \in Entries \cup {}
    BY <2>1, <2>2, EntriesWithin
  <2> QED
    BY <2>3
<1>5. RootKnown'
  BY InitPidAssumption DEF RootKnown, Heard
<1>6. Heard'
  BY <1>1, <1>4, <1>5, HeardStep
<1>7. \A c \in OnRecord' : c.ppid # None /\ tree'[c.ppid] # None =>
         \/ tree[c.ppid] # None /\ tree'[c.ppid].start = tree[c.ppid].start
         \/ ~(tree'[c.ppid].start <= c.start)
  <2> SUFFICES ASSUME NEW c \in OnRecord', c.ppid # None, tree'[c.ppid] # None
               PROVE  tree[c.ppid] # None /\ tree'[c.ppid].start = tree[c.ppid].start
    OBVIOUS
  <2>1. c.ppid \in Pid
    BY <1>2, PpidType
  <2> QED
    BY <2>1
<1>8. LineStored'
  BY <1>2, <1>7, LineStep
<1> QED
  BY <1>6, <1>8

LEMMA LinksSame ==
    ASSUME UNCHANGED chain
    PROVE  /\ \A w \in Watcher : \A i \in 1 .. Len(chain'[w]) :
                 \E k \in 1 .. Len(chain[w]) : chain'[w][i] = chain[w][k]
           /\ \A q, s, p : Coming(chain, q, s, p) => Coming(chain', q, s, p)
<1>1. \A q, s, p : Coming(chain, q, s, p) => Coming(chain', q, s, p)
  OBVIOUS
<1> QED
  BY <1>1

LEMMA KeysSame ==
    ASSUME UNCHANGED rows
    PROVE  \A p, s : Keyed(rows, p, s) # {} => Keyed(rows', p, s) # {}
  OBVIOUS

LEMMA KeysKept ==
    ASSUME \A r \in rows : \E q \in rows' : q.pid = r.pid /\ q.start = r.start
    PROVE  \A p, s : Keyed(rows, p, s) # {} => Keyed(rows', p, s) # {}
<1> SUFFICES ASSUME NEW p, NEW s, Keyed(rows, p, s) # {} PROVE Keyed(rows', p, s) # {}
  OBVIOUS
<1>1. PICK r \in rows : r.pid = p /\ r.start = s
  BY DEF Keyed
<1>2. PICK q \in rows' : q.pid = p /\ q.start = s
  BY <1>1
<1> QED
  BY <1>2 DEF Keyed

(* The steps that leave the table's nodes, the chains and the keys alone.  *)
LEMMA QuietLine ==
    ASSUME TypeOK, EdgeStep, Heard, LineStored, UNCHANGED <<chain, tree>>,
           \/ netlink' = netlink
           \/ netlink # <<>> /\ netlink' = Tail(netlink) /\ Head(netlink).kind # "fork",
           \/ UNCHANGED rows
           \/ \E p : \E s, x \in Nat : rows' = RecordExitAt(rows, p, s, x)
           \/ \E p \in Pid, node \in ProcNode : rows' = RecordExisting(rows, p, node)
    PROVE  Heard' /\ LineStored'
<1>1. rows \in SUBSET ProcRow
  BY DEF TypeOK, DaemonTypeOK
<1>2. \A r \in rows : \E q \in rows' : q.pid = r.pid /\ q.start = r.start
  <2>1. ASSUME NEW p, NEW s \in Nat, NEW x \in Nat, rows' = RecordExitAt(rows, p, s, x)
        PROVE  \A r \in rows : \E q \in rows' : q.pid = r.pid /\ q.start = r.start
    <3>1. x \in Option(Nat)
      BY DEF Option
    <3> QED
      BY <1>1, <2>1, <3>1, RecordExitAtKeeps
  <2>2. ASSUME NEW p \in Pid, NEW node \in ProcNode, rows' = RecordExisting(rows, p, node)
        PROVE  \A r \in rows : \E q \in rows' : q.pid = r.pid /\ q.start = r.start
    BY <1>1, <2>2, RecordExistingStores
  <2> QED
    BY <2>1, <2>2
<1>3. \A p, s : Keyed(rows, p, s) # {} => Keyed(rows', p, s) # {}
  BY <1>2, KeysKept
<1> QED
  BY <1>3, LinksSame, TameStep

(* ------------------------------- watchers ------------------------------ *)
LEMMA IdleLine ==
    ASSUME TypeOK, Heard, LineStored, EdgeStep,
           NEW w \in Watcher, Watch(w) \/ IgnoreOwn(w) \/ AppendLog(w) \/ Stamp(w) \/ RecordEvent(w)
    PROVE  Heard' /\ LineStored'
<1>1. UNCHANGED <<tree, rows, netlink, chain>>
  BY DEF Watch, IgnoreOwn, AppendLog, Stamp, RecordEvent, kernelVars, daemonVars, threadVars
<1> QED
  BY <1>1, QuietLine

LEMMA InsertRowLine ==
    ASSUME TypeOK, Heard, LineStored, EdgeStep, faults' = 0, NEW w \in Watcher, InsertRow(w)
    PROVE  Heard' /\ LineStored'
<1>1. chain[w] # <<>> /\ ~Fails
  BY FaultsFirst DEF InsertRow, TypeOK, DaemonTypeOK
<1>2. UNCHANGED <<tree, netlink, chain>>
  BY <1>1 DEF InsertRow
<1>3. PICK p \in Pid, node \in ProcNode : p = Head(chain[w]).pid /\ node = Head(chain[w]).node
  BY <1>1, HeadOfChain
<1>4. rows' = RecordExisting(rows, p, node)
  BY <1>1, <1>3 DEF InsertRow
<1> QED
  BY <1>2, <1>4, QuietLine

LEMMA WriteExitLine ==
    ASSUME TypeOK, LinkExited, Heard, LineStored, EdgeStep, faults' = 0, NEW w \in Watcher, WriteExit(w)
    PROVE  Heard' /\ LineStored'
<1>1. pc[w] = "exit" /\ chain[w] # <<>> /\ ~Fails
  BY FaultsFirst DEF WriteExit, TypeOK, DaemonTypeOK
<1>2. UNCHANGED <<tree, netlink, chain>>
  BY DEF WriteExit
<1>3. PICK p \in Pid, s \in Nat, x \in Nat :
         p = Head(chain[w]).pid /\ s = Head(chain[w]).node.start /\ x = Head(chain[w]).node.exited
  BY <1>1, HeadOfChain DEF LinkExited, Option
<1>4. rows' = RecordExitAt(rows, p, s, x)
  BY <1>1, <1>3 DEF WriteExit
<1>5. \E y : \E t, z \in Nat : rows' = RecordExitAt(rows, y, t, z)
  BY <1>4
<1> QED
  BY <1>2, <1>5, QuietLine

(* The link that is dropped has its row. *)
LEMMA MarkLine ==
    ASSUME TypeOK, HeadStored, Heard, LineStored, EdgeStep, NEW w \in Watcher, Mark(w)
    PROVE  Heard' /\ LineStored'
<1>1. pc[w] = "mark" /\ chain[w] # <<>> /\ tree \in Tables /\ chain[w] \in Seq(ChainItem)
  BY DEF Mark, TypeOK, DaemonTypeOK
<1>2. /\ chain' = [chain EXCEPT ![w] = Tail(@)]
      /\ pc' = [pc EXCEPT ![w] = AfterChain(Tail(chain[w]))]
      /\ UNCHANGED <<rows, netlink>>
  BY DEF Mark, kernelVars
<1>3. PICK p \in Pid : p = Head(chain[w]).pid
  BY <1>1, HeadOfChain
<1>4. tree' = MarkPersisted(tree, p)
  BY <1>3 DEF Mark
<1>5. /\ \A x \in Pid \ {p} : tree'[x] = tree[x]
      /\ tree[p] = None => tree'[p] = None
      /\ tree[p] # None => /\ tree'[p] # None
                           /\ tree'[p].start = tree[p].start /\ tree'[p].ppid = tree[p].ppid
                           /\ tree'[p].inc = tree[p].inc
  BY <1>1, <1>4, MarkPersistedTable
<1>6. /\ chain'[w] = Tail(chain[w]) /\ Len(chain[w]) \in Nat
      /\ Head(chain[w]) = chain[w][1]
      /\ \A v \in Watcher \ {w} : chain'[v] = chain[v]
  BY <1>1, <1>2 DEF TypeOK, DaemonTypeOK
<1>7. \A i \in 1 .. Len(chain[w]) : i # 1 =>
         i - 1 \in 1 .. Len(chain'[w]) /\ chain'[w][i - 1] = chain[w][i]
  BY <1>1, <1>6
<1>8. ASSUME NEW q, NEW s, NEW x, Coming(chain, q, s, x)
      PROVE  Coming(chain', q, s, x) \/ Keyed(rows', q, s) # {}
  <2>1. PICK v \in Watcher : \E i, j \in 1 .. Len(chain[v]) :
           /\ i < j /\ chain[v][j].pid = x
           /\ chain[v][i].pid = q /\ chain[v][i].node.start = s
    BY <1>8 DEF Coming
  <2>2. CASE v # w
    BY <1>6, <2>1, <2>2 DEF Coming
  <2>3. CASE v = w
    <3>1. PICK i, j \in 1 .. Len(chain[w]) :
             /\ i < j /\ chain[w][j].pid = x
             /\ chain[w][i].pid = q /\ chain[w][i].node.start = s
      BY <2>1, <2>3
    <3>2. CASE i = 1
      <4>1. Keyed(rows, q, s) # {}
        BY <1>1, <1>6, <3>1, <3>2 DEF HeadStored
      <4> QED
        BY <1>2, <4>1
    <3>3. CASE i # 1
      <4>1. j # 1 /\ i - 1 < j - 1
        BY <1>6, <3>1, <3>3
      <4>2. /\ i - 1 \in 1 .. Len(chain'[w]) /\ j - 1 \in 1 .. Len(chain'[w])
            /\ chain'[w][i - 1] = chain[w][i] /\ chain'[w][j - 1] = chain[w][j]
        BY <1>7, <3>3, <4>1
      <4> QED
        BY <3>1, <4>1, <4>2 DEF Coming
    <3> QED
      BY <3>2, <3>3
  <2> QED
    BY <2>2, <2>3
<1>9. \A v \in Watcher : \A i \in 1 .. Len(chain'[v]) :
         \E k \in 1 .. Len(chain[v]) : chain'[v][i] = chain[v][k]
  BY <1>1, <1>2, ChainShrinks
<1>10. \A x \in Pid : tree'[x] # None =>
          /\ tree[x] # None
          /\ tree'[x].start = tree[x].start /\ tree'[x].ppid = tree[x].ppid
          /\ tree'[x].inc = tree[x].inc
  BY <1>5
<1>11. \A x \in Pid : tree[x] # None => tree'[x] # None
  BY <1>5
<1> QED
  BY <1>2, <1>8, <1>9, <1>10, <1>11, KeysSame, TameStep

(* ------------------------------ connector ------------------------------ *)
LEMMA CloseRowLine ==
    ASSUME TypeOK, Heard, LineStored, EdgeStep, faults' = 0, CloseRow
    PROVE  Heard' /\ LineStored'
<1>1. ~Fails /\ closing.start \in Nat /\ closing.exit \in Nat
  BY FaultsFirst DEF TypeOK, DaemonTypeOK
<1>2. UNCHANGED <<tree, netlink, chain>>
  BY DEF CloseRow, threadVars
<1>3. rows' = RecordExitAt(rows, closing.pid, closing.start, closing.exit)
  BY <1>1 DEF CloseRow
<1>4. \E y : \E t, z \in Nat : rows' = RecordExitAt(rows, y, t, z)
  BY <1>1, <1>3
<1> QED
  BY <1>2, <1>4, QuietLine

LEMMA QueueLine ==
    ASSUME TypeOK, Heard, LineStored, EdgeStep, Listen \/ RecvOverrun \/ UNCHANGED vars
    PROVE  Heard' /\ LineStored'
<1>1. UNCHANGED <<tree, rows, chain>>
  BY DEF Listen, RecvOverrun, vars, kernelVars, daemonVars, threadVars
<1>2. \/ netlink' = netlink
      \/ netlink # <<>> /\ netlink' = Tail(netlink) /\ Head(netlink).kind # "fork"
  BY DEF Listen, RecvOverrun, Receives, vars, kernelVars
<1> QED
  BY <1>1, <1>2, QuietLine

(* A table that lost nobody and whose nodes stayed in place.               *)
LEMMA TableLine ==
    ASSUME TypeOK, Heard, LineStored, EdgeStep, UNCHANGED <<rows, chain>>,
           \/ netlink' = netlink
           \/ netlink # <<>> /\ netlink' = Tail(netlink) /\ Head(netlink).kind # "fork",
           NEW p \in Pid, \A x \in Pid \ {p} : tree'[x] = tree[x],
           tree[p] = None => tree'[p] = None,
           tree[p] # None => /\ tree'[p] # None
                             /\ tree'[p].start = tree[p].start /\ tree'[p].ppid = tree[p].ppid
                             /\ tree'[p].inc = tree[p].inc
    PROVE  Heard' /\ LineStored'
<1>1. \A x \in Pid : tree'[x] # None =>
          /\ tree[x] # None
          /\ tree'[x].start = tree[x].start /\ tree'[x].ppid = tree[x].ppid
          /\ tree'[x].inc = tree[x].inc
  OBVIOUS
<1>2. \A x \in Pid : tree[x] # None => tree'[x] # None
  OBVIOUS
<1> QED
  BY <1>1, <1>2, KeysSame, LinksSame, TameStep

LEMMA RecvExitLine ==
    ASSUME TypeOK, Heard, LineStored, EdgeStep, RecvExit
    PROVE  Heard' /\ LineStored'
<1>1. tree \in Tables /\ now \in Nat /\ Receives("exit") /\ UNCHANGED <<rows, chain>>
  BY DEF RecvExit, TypeOK, DaemonTypeOK, KernelTypeOK, threadVars
<1>2. PICK p \in Pid : p = Head(netlink).pid
  BY <1>1, HeadOfNetlink
<1>3. tree' = OnExit(tree, p, now)
  BY <1>2 DEF RecvExit
<1>4. /\ \A x \in Pid \ {p} : tree'[x] = tree[x]
      /\ tree[p] = None => tree'[p] = None
      /\ tree[p] # None => /\ tree'[p] # None
                           /\ tree'[p].start = tree[p].start /\ tree'[p].ppid = tree[p].ppid
                           /\ tree'[p].inc = tree[p].inc
  BY <1>1, <1>3, OnExitTable
<1>5. netlink # <<>> /\ netlink' = Tail(netlink) /\ Head(netlink).kind # "fork"
  BY <1>1 DEF Receives
<1> QED
  BY <1>1, <1>4, <1>5, TableLine

(* Who calls exec is known. *)
LEMMA RecvExecLine ==
    ASSUME TypeOK, Heard, LineStored, EdgeStep, RecvExec
    PROVE  Heard' /\ LineStored'
<1>1. tree \in Tables /\ now \in Nat /\ Receives("exec") /\ UNCHANGED <<rows, chain>>
  BY DEF RecvExec, TypeOK, DaemonTypeOK, KernelTypeOK, threadVars
<1>2. PICK p \in Pid, n \in Nat : p = Head(netlink).pid /\ n = Head(netlink).inc
  BY <1>1, HeadOfNetlink
<1>3. PICK im \in Option(Image), q \in Option(Pid) : im = ProcImage(p) /\ q = ProcParent(p)
  BY ProcReads
<1>4. tree' = OnExec(tree, p, im, q, now, n)
  BY <1>2, <1>3 DEF RecvExec
<1>5. tree[p] # None
  <2>1. 1 \in 1 .. Len(netlink) /\ Head(netlink) = netlink[1] /\ netlink[1].kind = "exec"
    BY <1>1, ReadsQueue
  <2> QED
    BY <1>2, <2>1 DEF Heard, ExecsHeard
<1>6. /\ \A x \in Pid \ {p} : tree'[x] = tree[x]
      /\ tree'[p] # None
      /\ tree'[p].start = tree[p].start /\ tree'[p].ppid = tree[p].ppid
      /\ tree'[p].inc = tree[p].inc
  <2>1. PICK u : u = OnExec(tree, p, im, q, now, n)
    OBVIOUS
  <2>2. tree \in Tables /\ now \in Nat
    BY <1>1
  <2>3. /\ \A x \in Pid \ {p} : u[x] = tree[x]
        /\ tree[p] # None => /\ u[p] # None
                             /\ u[p].start = tree[p].start
                             /\ u[p].inc = tree[p].inc /\ u[p].ppid = tree[p].ppid
    BY <2>1, <2>2, OnExecTable
  <2> QED
    BY <1>4, <1>5, <2>1, <2>3
<1>7. netlink # <<>> /\ netlink' = Tail(netlink) /\ Head(netlink).kind # "fork"
  BY <1>1 DEF Receives
<1> QED
  BY <1>1, <1>5, <1>6, <1>7, TableLine

LEMMA EvictLine ==
    ASSUME TypeOK, CopiesAgree, Heard, LineStored, EdgeStep, Evict
    PROVE  Heard' /\ LineStored'
<1>1. tree \in Tables /\ now - Grace \in Int /\ UNCHANGED <<rows, chain, netlink>>
  BY GraceAssumption DEF Evict, TypeOK, DaemonTypeOK, KernelTypeOK, kernelVars, threadVars
<1>2. \A x \in Pid :
         \/ tree'[x] = tree[x]
         \/ tree'[x] = None /\ tree[x] # None /\ tree[x].exited # None
  BY <1>1, EvictStaleTable DEF Evict
<1>3. \A x \in Pid : tree[x] # None => tree'[x] # None \/ LastHeard(x)
  BY <1>2 DEF CopiesAgree
<1>4. \A x \in Pid : tree'[x] # None =>
          /\ tree[x] # None
          /\ tree'[x].start = tree[x].start /\ tree'[x].ppid = tree[x].ppid
          /\ tree'[x].inc = tree[x].inc
  BY <1>2
<1> QED
  BY <1>1, <1>3, <1>4, KeysSame, LinksSame, TameStep

(* What is forked is not init, and whoever names it as a parent has been   *)
(* forked later.                                                           *)
LEMMA RecvForkLine ==
    ASSUME EdgeInv, crashes = 0, Heard, LineStored, EdgeStep, RecvFork
    PROVE  Heard' /\ LineStored'
<1>1. /\ TypeOK /\ LatestLives /\ QueueOrdered /\ NamesTrue /\ InitIsFirst
      /\ ForksLatest /\ ParentsLatest /\ Receives("fork") /\ tree \in Tables
      /\ now \in Nat /\ Len(procs) \in Nat
  BY DEF EdgeInv, WriterInv, IInv, Meanings, ExitInv, ExitParts, EdgeParts, RecvFork,
         TypeOK, KernelTypeOK, DaemonTypeOK
<1>2. UNCHANGED <<now, procs, holder, rows, chain>>
  BY DEF RecvFork, threadVars
<1>3. PICK p \in Pid, q \in Option(Pid), n \in Nat :
         p = Head(netlink).pid /\ q = Head(netlink).parent /\ n = Head(netlink).inc
  BY <1>1, HeadOfNetlink
<1>4. /\ 1 \in 1 .. Len(netlink) /\ Head(netlink) = netlink[1] /\ netlink[1].kind = "fork"
      /\ Len(netlink) \in Nat /\ Len(netlink') = Len(netlink) - 1
      /\ \A i \in 1 .. Len(netlink') :
            i + 1 \in 1 .. Len(netlink) /\ netlink'[i] = netlink[i + 1]
  BY <1>1, ReadsQueue
<1>5. IsLatest(n, p) /\ tree[p] = None
  BY <1>1, <1>3, <1>4, MessageType DEF LatestLives, QueueOrdered
<1>6. tree' = OnFork(tree, q, p, now, n)
  BY <1>3 DEF RecvFork
<1>7. tree'[p] = NewNode(q, None, now, n) /\ \A x \in Pid \ {p} : tree'[x] = tree[x]
  BY <1>1, <1>6, OnForkTable
<1>8. IsLatest(procs[n].parent, q)
  BY <1>1, <1>3, <1>4 DEF ForksLatest, ParentLatest
<1>9. p # InitPid
  <2> SUFFICES ASSUME p = InitPid PROVE FALSE
    OBVIOUS
  <2>1. n = 1
    BY <1>1, <1>5 DEF InitIsFirst, IsLatest
  <2>2. procs[1].parent < 1 /\ procs[1].parent \in 1 .. Len(procs)
    BY <1>1, <1>5, <1>8, <2>1 DEF IsLatest, TypeOK, KernelTypeOK
  <2> QED
    BY <2>2
<1>10. RootKnown'
  BY <1>7, <1>9, InitPidAssumption DEF Heard, RootKnown
<1>11. \A c \in OnRecord' : c \in OnRecord
  <2>1. RowsSaid
    BY DEF EdgeStep
  <2> QED
    BY <1>2, <2>1, LinksSame, OnRecordWithin
<1>12. ASSUME NEW c \in Entries'
       PROVE  c \in Entries \/ c = Entry(p, tree'[p])
  <2>1. PICK S : S = {Entry(p, tree'[p])}
    OBVIOUS
  <2>2. \A d \in OnRecord' : d \in OnRecord \cup S
    BY <1>11
  <2>3. \A x \in Pid : tree'[x] # None => Entry(x, tree'[x]) \in Entries \cup S
    BY <1>7, <2>1 DEF Entries
  <2>4. c \in Entries \cup S
    BY <2>2, <2>3, EntriesWithin
  <2> QED
    BY <2>1, <2>4
<1>13. ASSUME NEW c \in Entries', c \notin Entries,
              NEW i \in 1 .. Len(netlink'), netlink'[i].kind = "fork"
       PROVE  c.inc < netlink'[i].inc
  <2>1. c.inc = n
    BY <1>7, <1>12, <1>13 DEF Entry, NewNode
  <2>2. i + 1 \in 1 .. Len(netlink) /\ netlink'[i] = netlink[i + 1] /\ 1 \in 1 .. (i + 1) - 1
    BY <1>4
  <2>3. netlink[1].inc < netlink[i + 1].inc
    BY <1>4, <1>13, <2>2 DEF Heard, ForksLater
  <2> QED
    BY <1>3, <1>4, <2>1, <2>2, <2>3
<1>14. Heard'
  <2>1. /\ netlink # <<>> /\ netlink' = Tail(netlink)
        /\ Head(netlink).kind = "fork" => tree'[Head(netlink).pid] # None
    <3>1. NewNode(q, None, now, n) \in ProcNode
      BY <1>1 DEF NewNode, ProcNode, Option
    <3> QED
      BY <1>1, <1>3, <1>7, <3>1, NodeAssumption DEF Receives
  <2>2. \A x \in Pid : tree[x] # None => tree'[x] # None \/ LastHeard(x)
    BY <1>5, <1>7
  <2> QED
    BY <1>1, <1>2, <1>10, <1>13, <2>1, <2>2, HeardStep
<1>15. ASSUME NEW c \in OnRecord', c.ppid = p PROVE ~(now <= c.start)
  <2> SUFFICES ASSUME now <= c.start PROVE FALSE
    OBVIOUS
  <2>1. c \in Entries /\ Forked(c)
    BY <1>9, <1>11, <1>15, PidAssumption DEF Entries, Forked
  <2>2. c.inc \in 1 .. Len(procs) /\ c.start \in Nat
    BY <1>1, <2>1, EntryNamed
  <2>3. IsLatest(procs[c.inc].parent, p)
    BY <1>1, <1>15, <2>1, <2>2 DEF ParentsLatest
  <2>4. procs[c.inc].parent = n
    BY <1>1, <1>5, <2>3, LatestUnique
  <2>5. n < c.inc
    BY <1>1, <2>2, <2>4 DEF TypeOK, KernelTypeOK
  <2>6. c.inc < n
    BY <1>3, <1>4, <2>1 DEF Heard, ForksLater
  <2> QED
    BY <1>3, <2>2, <2>5, <2>6
<1>16. ASSUME NEW c \in OnRecord', c.ppid # None, tree'[c.ppid] # None
       PROVE  \/ tree[c.ppid] # None /\ tree'[c.ppid].start = tree[c.ppid].start
              \/ ~(tree'[c.ppid].start <= c.start)
  <2>1. c.ppid \in Pid
    BY <1>1, <1>11, <1>16, PpidType
  <2>2. CASE c.ppid = p
    <3>1. tree'[p].start = now
      BY <1>7 DEF NewNode
    <3> QED
      BY <1>15, <2>2, <3>1
  <2> QED
    BY <1>7, <1>16, <2>1, <2>2
<1>17. LineStored'
  BY <1>2, <1>11, <1>16, LinksSame, KeysSame, LineStep
<1> QED
  BY <1>14, <1>17

(* A climb goes from each process to its parent. *)
LEMMA ClimbPath ==
    ASSUME NEW t \in Tables, NEW p \in Pid, NEW c \in Climbs(t, p)
    PROVE  /\ c \in Seq(Pid) /\ Len(c) \in Nat
           /\ \A k \in 1 .. Len(c) : c[k] \in Pid /\ t[c[k]] # None
           /\ \A k \in 1 .. Len(c) - 1 : c[k + 1] = t[c[k]].ppid
<1>1. c \in Seq(Pid) /\ IsClimb(t, p, c)
  <2>1. PICK m \in 0 .. MaxChain : c \in [1 .. m -> Pid]
    BY MaxChainAssumption DEF Climbs, BoundedSeq, SeqOf
  <2>2. m \in Nat
    BY MaxChainAssumption
  <2> QED
    BY <2>1, <2>2 DEF Climbs
<1>2. Len(c) \in Nat /\ \A k \in 1 .. Len(c) : c[k] \in Pid
  BY <1>1
<1> QED
  BY <1>1, <1>2 DEF IsClimb, Unpersisted

(* Where a climb's pids are in the chain that is copied along it. *)
LEMMA ChainTurned ==
    ASSUME NEW t \in Tables, NEW p \in Pid, NEW c \in Climbs(t, p), NEW n \in Nat, n = Len(c)
    PROVE  /\ Len(ChainOf(t, c)) = n
           /\ \A i \in 1 .. n : /\ n + 1 - i \in 1 .. n
                                /\ ChainOf(t, c)[i].pid = c[n + 1 - i]
                                /\ ChainOf(t, c)[i].node = t[c[n + 1 - i]]
<1>1. ChainOf(t, c) = [i \in 1 .. n |-> [pid |-> c[n + 1 - i], node |-> t[c[n + 1 - i]]]]
  BY DEF ChainOf
<1>2. Len(ChainOf(t, c)) = n
  BY <1>1
<1>3. \A i \in 1 .. n : n + 1 - i \in 1 .. n
  OBVIOUS
<1> QED
  BY <1>1, <1>2, <1>3

(* A parent that is in the table is stored, or comes first in the chain.   *)
LEMMA ClimbedLine ==
    ASSUME EdgeInv, crashes = 0, RootKnown, ClimbsWhole,
           NEW p \in Pid, NEW c \in Climbs(tree, p), NEW n, n = Len(c), NEW k \in 1 .. n,
           tree[c[k]].ppid # None, tree[tree[c[k]].ppid] # None,
           tree[tree[c[k]].ppid].start <= tree[c[k]].start
    PROVE  \/ Keyed(rows, tree[c[k]].ppid, tree[tree[c[k]].ppid].start) # {}
           \/ \E l \in 1 .. n, m \in 1 .. n : m < l /\ c[l] = tree[c[k]].ppid /\ c[m] = c[k]
<1>1. /\ TypeOK /\ NamesTrue /\ PersistedMeansStored /\ LaterLivesStart
      /\ tree \in Tables
  BY DEF EdgeInv, WriterInv, IInv, Meanings, ExitInv, ExitParts, EdgeParts, TypeOK, DaemonTypeOK
<1>2. /\ c \in Seq(Pid) /\ n \in Nat
      /\ \A j \in 1 .. n : tree[c[j]] # None
      /\ \A j \in 1 .. n - 1 : c[j + 1] = tree[c[j]].ppid
  BY <1>1, ClimbPath
<1>3. PICK x \in Pid, q \in Pid : x = c[k] /\ q = tree[x].ppid /\ tree[x] # None /\ tree[q] # None
  <2>1. c[k] \in Pid /\ tree[c[k]] # None
    BY <1>2
  <2>2. tree[c[k]].ppid \in Pid
    BY <1>1, <2>1 DEF Tables, Option, ProcNode
  <2> QED
    BY <2>1, <2>2
<1>4. CASE k \in 1 .. n - 1
  <2>1. k + 1 \in 1 .. n /\ k < k + 1 /\ c[k + 1] = tree[c[k]].ppid
    BY <1>2, <1>4
  <2> QED
    BY <2>1
<1>5. CASE k = n
  <2>1. CASE ClimbsOn(tree, x)
    <3>1. c # <<>> /\ ClimbsOn(tree, c[Len(c)]) /\ c[Len(c)] = x
      BY <1>2, <1>3, <1>5, <2>1
    <3>2. \E l \in 1 .. Len(c) : \E m \in 1 .. l - 1 :
             c[l] = tree[c[Len(c)]].ppid /\ c[m] = c[Len(c)]
      BY <3>1 DEF ClimbsWhole
    <3>3. PICK l \in 1 .. n : \E m \in 1 .. l - 1 : c[l] = q /\ c[m] = x
      BY <1>3, <3>1, <3>2
    <3>4. PICK m \in 1 .. l - 1 : c[l] = q /\ c[m] = x
      BY <3>3
    <3>5. m \in 1 .. n /\ m < l
      BY <1>2
    <3> QED
      BY <1>3, <3>4, <3>5
  <2>2. CASE tree[q].persisted
    <3>1. \E r \in Keyed(rows, q, tree[q].start) : r.inc = tree[q].inc
      BY <1>1, <1>3, <2>2 DEF PersistedMeansStored
    <3> QED
      BY <1>3, <3>1
  <2>3. CASE q = x
    <3>1. x # InitPid
      BY <1>3, <2>3, PidAssumption DEF RootKnown
    <3>2. PICK e : e = Entry(x, tree[x])
      OBVIOUS
    <3>3. e \in Entries /\ e.ppid = x /\ e.pid = x /\ e.inc = tree[x].inc /\ e.start = tree[x].start
      BY <1>3, <2>3, <3>2 DEF Entries, Entry
    <3>4. Forked(e)
      BY <3>1, <3>3, PidAssumption DEF Forked
    <3>5. e.inc \in 1 .. Len(procs) /\ e.start \in Nat
      BY <1>1, <3>3, EntryNamed
    <3>6. procs[e.inc].parent < e.inc
      BY <1>1, <3>5 DEF TypeOK, KernelTypeOK
    <3>7. e.start < e.start
      BY <1>1, <3>3, <3>4, <3>6 DEF LaterLivesStart
    <3> QED
      BY <3>5, <3>7
  <2> QED
    BY <1>3, <2>1, <2>2, <2>3, PidAssumption DEF ClimbsOn, Unpersisted
<1> QED
  BY <1>2, <1>4, <1>5

LEMMA TakeEventLine ==
    ASSUME EdgeInv, ChainIdle, Unbroken, ClimbsWhole, Heard, LineStored, EdgeStep,
           NEW w \in Watcher, TakeEvent(w)
    PROVE  Heard' /\ LineStored'
<1>1. TypeOK /\ tree \in Tables /\ fanotify[w] # <<>> /\ crashes = 0 /\ pc[w] = "idle"
  BY DEF EdgeInv, WriterInv, IInv, Unbroken, Undisturbed, TakeEvent, TypeOK, DaemonTypeOK
<1>2. UNCHANGED <<tree, rows, netlink, holder>>
  BY DEF TakeEvent
<1>3. PICK e \in Event : e = Head(fanotify[w]) /\ e.pid \in Pid
  BY <1>1, QueueReads DEF TakeEvent, Event
<1>4. \A v \in Watcher \ {w} : chain'[v] = chain[v]
  BY <1>1 DEF TakeEvent, TypeOK, DaemonTypeOK
<1>5. chain[w] = <<>>
  BY <1>1 DEF ChainIdle
<1>6. \A q, s, p : Coming(chain, q, s, p) => Coming(chain', q, s, p)
  <2> SUFFICES ASSUME NEW q, NEW s, NEW p, Coming(chain, q, s, p) PROVE Coming(chain', q, s, p)
    OBVIOUS
  <2>1. PICK v \in Watcher : \E i, j \in 1 .. Len(chain[v]) :
           /\ i < j /\ chain[v][j].pid = p
           /\ chain[v][i].pid = q /\ chain[v][i].node.start = s
    BY DEF Coming
  <2>2. v # w
    BY <1>5, <2>1
  <2> QED
    BY <1>4, <2>1, <2>2 DEF Coming
<1>7. CASE UNCHANGED chain
  BY <1>1, <1>2, <1>7, QuietLine
<1>8. ASSUME NEW c \in Climbs(tree, e.pid), chain'[w] = ChainOf(tree, c)
      PROVE  Heard' /\ LineStored'
  <2>1. PICK p \in Pid, n \in Nat : p = e.pid /\ n = Len(c) /\ c \in Climbs(tree, p)
    BY <1>1, <1>3, <1>8, ClimbPath
  <2>2. \A k \in 1 .. n : c[k] \in Pid /\ tree[c[k]] # None
    BY <1>1, <2>1, ClimbPath
  <2>3. /\ Len(chain'[w]) = n
        /\ \A i \in 1 .. n : /\ n + 1 - i \in 1 .. n
                             /\ chain'[w][i].pid = c[n + 1 - i]
                             /\ chain'[w][i].node = tree[c[n + 1 - i]]
    BY <1>1, <1>8, <2>1, ChainTurned
  <2>4. \A k \in 1 .. n : n + 1 - k \in 1 .. n /\ n + 1 - (n + 1 - k) = k
    OBVIOUS
  <2>5. ASSUME NEW a \in OnRecord', a \notin OnRecord
        PROVE  \E k \in 1 .. n : a = Entry(c[k], tree[c[k]])
    <3>1. \A r \in rows' : Entry(r.pid, r) \in OnRecord
      BY <1>2 DEF OnRecord
    <3>2. \A v \in Watcher \ {w} : \A i \in 1 .. Len(chain'[v]) :
             Entry(chain'[v][i].pid, chain'[v][i].node) \in OnRecord
      BY <1>4 DEF OnRecord
    <3>3. \A i \in 1 .. Len(chain'[w]) :
             \E k \in 1 .. n : Entry(chain'[w][i].pid, chain'[w][i].node) = Entry(c[k], tree[c[k]])
      BY <2>3
    <3>4. \/ \E r \in rows' : a = Entry(r.pid, r)
          \/ \E v \in Watcher : \E i \in 1 .. Len(chain'[v]) :
                a = Entry(chain'[v][i].pid, chain'[v][i].node)
      BY DEF OnRecord, Entry
    <3> QED
      BY <2>5, <3>1, <3>2, <3>3, <3>4
  <2>6. \A k \in 1 .. n : Entry(c[k], tree[c[k]]) \in Entries
    BY <2>2 DEF Entries
  <2>7. \A a \in Entries' : a \in Entries
    <3>1. PICK S : S = Entries
      OBVIOUS
    <3>2. \A a \in OnRecord' : a \in OnRecord \cup S
      BY <2>5, <2>6, <3>1
    <3>3. \A x \in Pid : tree'[x] # None => Entry(x, tree'[x]) \in Entries \cup S
      BY <1>2 DEF Entries
    <3>4. \A a \in Entries' : a \in Entries \cup S
      BY <3>2, <3>3, EntriesWithin
    <3> QED
      BY <3>1, <3>4
  <2>8. Heard'
    <3>1. RootKnown'
      BY <1>2 DEF Heard, RootKnown
    <3>2. \A x \in Pid : tree[x] # None => tree'[x] # None \/ LastHeard(x)
      BY <1>2
    <3> QED
      BY <1>1, <1>2, <2>7, <3>1, <3>2, HeardStep
  <2>9. ASSUME NEW a \in OnRecord', a.ppid # None, tree[a.ppid] # None,
               tree[a.ppid].start <= a.start
        PROVE  \/ Keyed(rows, a.ppid, tree[a.ppid].start) # {}
               \/ Coming(chain', a.ppid, tree[a.ppid].start, a.pid)
    <3>1. CASE a \in OnRecord
      BY <1>6, <2>9, <3>1 DEF LineStored
    <3>2. CASE a \notin OnRecord
      <4>1. PICK k \in 1 .. n : a = Entry(c[k], tree[c[k]])
        BY <2>5, <3>2
      <4>2. a.ppid = tree[c[k]].ppid /\ a.start = tree[c[k]].start /\ a.pid = c[k]
        BY <4>1 DEF Entry
      <4>3. \/ Keyed(rows, a.ppid, tree[a.ppid].start) # {}
            \/ \E l \in 1 .. n, m \in 1 .. n : m < l /\ c[l] = a.ppid /\ c[m] = a.pid
        BY <1>1, <2>1, <2>9, <4>2, ClimbedLine DEF Heard
      <4>4. ASSUME NEW l \in 1 .. n, NEW m \in 1 .. n, m < l, c[l] = a.ppid, c[m] = a.pid
            PROVE  Coming(chain', a.ppid, tree[a.ppid].start, a.pid)
        <5>1. PICK i \in 1 .. n, j \in 1 .. n :
                 i = n + 1 - l /\ j = n + 1 - m /\ n + 1 - i = l /\ n + 1 - j = m
          BY <2>4
        <5>2. i < j
          BY <4>4, <5>1
        <5>3. /\ chain'[w][i].pid = a.ppid /\ chain'[w][i].node = tree[a.ppid]
              /\ chain'[w][j].pid = a.pid
          <6>1. chain'[w][i].pid = c[n + 1 - i] /\ chain'[w][i].node = tree[c[n + 1 - i]]
            BY <2>3
          <6>2. chain'[w][j].pid = c[n + 1 - j]
            BY <2>3
          <6> QED
            BY <4>4, <5>1, <6>1, <6>2
        <5>4. i \in 1 .. Len(chain'[w]) /\ j \in 1 .. Len(chain'[w])
          BY <2>3
        <5> QED
          BY <5>2, <5>3, <5>4 DEF Coming
      <4> QED
        BY <4>3, <4>4
    <3> QED
      BY <3>1, <3>2
  <2>10. LineStored'
    BY <1>2, <2>9 DEF LineStored, Keyed, Coming
  <2> QED
    BY <2>8, <2>10
<1>9. UNCHANGED chain \/ \E c \in Climbs(tree, e.pid) : chain'[w] = ChainOf(tree, c)
  BY <1>1, <1>3 DEF TakeEvent, TypeOK, DaemonTypeOK
<1> QED
  BY <1>7, <1>8, <1>9

(* ----------------------- machine, start and death ---------------------- *)
(* The first start: whoever runs is known, and nothing is stored. *)
LEMMA BootLine ==
    ASSUME EdgeInv, crashes = 0, faults' = 0, Boot
    PROVE  Heard' /\ LineStored'
<1>1. /\ rows = {} /\ netlink = <<>> /\ \A w \in Watcher : chain[w] = <<>>
  BY DEF EdgeInv, EdgeParts, NothingYet, WriterInv, IInv, DownIsEmpty, Boot
<1>2. UNCHANGED <<rows, netlink, chain, holder>> /\ tree' = Bootstrapped
  <2>1. ~Fails
    BY FaultsFirst DEF EdgeInv, WriterInv, IInv
  <2> QED
    BY <2>1 DEF Boot, threadVars
<1>3. OnRecord' = {}
  BY <1>1, <1>2 DEF OnRecord
<1>4. HoldersHeard'
  <2> SUFFICES ASSUME NEW p \in Pid, holder[p] # 0 PROVE tree'[p] # None
    BY <1>2 DEF HoldersHeard
  <2>1. TypeOK /\ now \in Nat
    BY DEF EdgeInv, WriterInv, IInv, TypeOK, KernelTypeOK
  <2>2. PICK q \in Option(Pid), im \in Option(Image), n \in Nat :
           q = ProcParent(p) /\ im = ProcImage(p) /\ n = holder[p]
    BY <2>1, ProcReads, HolderType
  <2>3. NewNode(q, im, now, n) \in ProcNode
    BY <2>1 DEF NewNode, ProcNode, Option
  <2>4. tree'[p] = NewNode(q, im, now, n)
    BY <1>2, <2>2 DEF Bootstrapped
  <2> QED
    BY <2>3, <2>4, NodeAssumption
<1>5. ExecsHeard' /\ ForksLater'
  BY <1>1, <1>2 DEF ExecsHeard, ForksLater
<1>6. RootKnown'
  BY <1>2, InitPidAssumption DEF RootKnown, Bootstrapped, NewNode, ProcParent
<1>7. LineStored'
  BY <1>3 DEF LineStored
<1> QED
  BY <1>4, <1>5, <1>6, <1>7 DEF Heard

(* A message is heard of, since nothing is missed. *)
LEMMA EmitHeard ==
    ASSUME TypeOK, NEW m, Emit(m), ~missed'
    PROVE  /\ netlink \in Seq(Message) /\ Len(netlink) \in Nat
           /\ Len(netlink') = Len(netlink) + 1 /\ netlink'[Len(netlink) + 1] = m
           /\ \A i \in 1 .. Len(netlink) : i \in 1 .. Len(netlink') /\ netlink'[i] = netlink[i]
           /\ \A i \in 1 .. Len(netlink') : i = Len(netlink) + 1 \/ i \in 1 .. Len(netlink)
<1>1. netlink \in Seq(Message) /\ Len(netlink) \in Nat
  BY DEF TypeOK, KernelTypeOK
<1>2. netlink' = Append(netlink, m)
  BY DEF Emit
<1> QED
  BY <1>1, <1>2

LEMMA EmitLine ==
    ASSUME TypeOK, NamesTrue, QueueTrue, Heard, NEW m, Emit(m), ~missed',
           UNCHANGED <<tree, rows, chain>>,
           m.kind = "fork" => m.inc = Len(procs) + 1,
           m.kind = "exec" => m.pid \in Pid /\ holder[m.pid] # 0,
           \A p \in Pid : holder'[p] # 0 => holder[p] # 0 \/ (m.kind = "fork" /\ m.pid = p)
    PROVE  Heard'
<1>1. /\ Len(netlink) \in Nat
      /\ Len(netlink') = Len(netlink) + 1 /\ netlink'[Len(netlink) + 1] = m
      /\ \A i \in 1 .. Len(netlink) : i \in 1 .. Len(netlink') /\ netlink'[i] = netlink[i]
      /\ \A i \in 1 .. Len(netlink') : i = Len(netlink) + 1 \/ i \in 1 .. Len(netlink)
  BY EmitHeard
<1>2. HoldersHeard'
  <2> SUFFICES ASSUME NEW p \in Pid, holder'[p] # 0, tree[p] = None
               PROVE  \E i \in 1 .. Len(netlink') : netlink'[i].kind = "fork" /\ netlink'[i].pid = p
    BY DEF HoldersHeard
  <2>1. CASE holder[p] # 0
    <3>1. PICK i \in 1 .. Len(netlink) : netlink[i].kind = "fork" /\ netlink[i].pid = p
      BY <2>1 DEF Heard, HoldersHeard
    <3> QED
      BY <1>1, <3>1
  <2>2. CASE m.kind = "fork" /\ m.pid = p
    <3>1. Len(netlink) + 1 \in 1 .. Len(netlink')
      BY <1>1
    <3> QED
      BY <1>1, <2>2, <3>1
  <2> QED
    BY <2>1, <2>2
<1>3. ExecsHeard'
  <2> SUFFICES ASSUME NEW i \in 1 .. Len(netlink'), netlink'[i].kind = "exec",
                      tree[netlink'[i].pid] = None
               PROVE  \E j \in 1 .. i - 1 : netlink'[j].kind = "fork" /\ netlink'[j].pid = netlink'[i].pid
    BY DEF ExecsHeard
  <2>1. CASE i \in 1 .. Len(netlink)
    <3>1. PICK j \in 1 .. i - 1 : netlink[j].kind = "fork" /\ netlink[j].pid = netlink[i].pid
      BY <1>1, <2>1 DEF Heard, ExecsHeard
    <3>2. j \in 1 .. Len(netlink)
      BY <1>1, <2>1
    <3> QED
      BY <1>1, <2>1, <3>1, <3>2
  <2>2. CASE i = Len(netlink) + 1
    <3>1. m.pid \in Pid /\ holder[m.pid] # 0 /\ netlink'[i] = m
      BY <1>1, <2>2
    <3>2. PICK j \in 1 .. Len(netlink) : netlink[j].kind = "fork" /\ netlink[j].pid = m.pid
      BY <3>1 DEF Heard, HoldersHeard
    <3>3. j \in 1 .. i - 1
      BY <1>1, <2>2
    <3> QED
      BY <1>1, <3>1, <3>2, <3>3
  <2> QED
    BY <1>1, <2>1, <2>2
<1>4. Entries' = Entries
  BY DEF Entries, OnRecord, Entry
<1>5. Len(procs) \in Nat
  BY DEF TypeOK, KernelTypeOK
<1>6. ForksLater'
  <2> SUFFICES ASSUME NEW i \in 1 .. Len(netlink'), netlink'[i].kind = "fork"
               PROVE  /\ \A c \in Entries : c.inc < netlink'[i].inc
                      /\ \A j \in 1 .. i - 1 : netlink'[j].kind = "fork" => netlink'[j].inc < netlink'[i].inc
    BY <1>4 DEF ForksLater
  <2>1. CASE i \in 1 .. Len(netlink)
    <3>1. \A j \in 1 .. i - 1 : j \in 1 .. Len(netlink)
      BY <1>1, <2>1
    <3> QED
      BY <1>1, <2>1, <3>1 DEF Heard, ForksLater
  <2>2. CASE i = Len(netlink) + 1
    <3>1. netlink'[i].inc = Len(procs) + 1
      BY <1>1, <2>2
    <3>2. \A c \in Entries : c.inc \in 1 .. Len(procs)
      BY EntryNamed
    <3>3. \A j \in 1 .. i - 1 : j \in 1 .. Len(netlink)
      BY <1>1, <2>2
    <3>4. \A j \in 1 .. Len(netlink) : netlink[j].kind = "fork" => netlink[j].inc \in 1 .. Len(procs)
      BY MessageType DEF QueueTrue
    <3> QED
      BY <1>1, <1>5, <3>1, <3>2, <3>3, <3>4
  <2> QED
    BY <1>1, <2>1, <2>2
<1>7. RootKnown'
  BY DEF Heard, RootKnown
<1> QED
  BY <1>2, <1>3, <1>6, <1>7 DEF Heard

LEMMA MachineLine ==
    ASSUME EdgeInv, Heard, LineStored, Machine, ~missed'
    PROVE  Heard' /\ LineStored'
<1>1. TypeOK /\ NamesTrue /\ QueueTrue /\ UNCHANGED <<tree, rows, chain>>
  BY DEF EdgeInv, WriterInv, IInv, ExitInv, ExitParts, Machine, daemonVars, threadVars
<1>2. holder \in [Pid -> 0 .. Len(procs)] /\ Len(procs) \in Nat
  BY <1>1 DEF TypeOK, KernelTypeOK
<1>3. ASSUME NEW q \in Pid, NEW p \in Pid, Fork(q, p) PROVE Heard'
  <2>1. PICK m : m = Msg("fork", p, q, Len(procs) + 1)
    OBVIOUS
  <2>2. Emit(m) /\ m.kind = "fork" /\ m.pid = p /\ m.inc = Len(procs) + 1
    BY <1>3, <2>1 DEF Fork, Msg
  <2>3. \A x \in Pid : holder'[x] # 0 => holder[x] # 0 \/ x = p
    BY <1>2, <1>3 DEF Fork
  <2> QED
    BY <1>1, <2>2, <2>3, EmitLine
<1>4. ASSUME NEW p \in Pid, NEW im \in Image, Exec(p, im) PROVE Heard'
  <2>1. PICK m : m = Msg("exec", p, None, holder[p])
    OBVIOUS
  <2>2. Emit(m) /\ m.kind = "exec" /\ m.pid = p /\ holder[p] # 0 /\ UNCHANGED holder
    BY <1>4, <2>1 DEF Exec, Msg
  <2> QED
    BY <1>1, <2>2, EmitLine
<1>5. ASSUME NEW p \in Pid, Exit(p) PROVE Heard'
  <2>1. PICK m : m = Msg("exit", p, None, holder[p])
    OBVIOUS
  <2>2. Emit(m) /\ m.kind = "exit" /\ m.pid = p
    BY <1>5, <2>1 DEF Exit, Msg
  <2>3. \A x \in Pid : holder'[x] # 0 => holder[x] # 0
    BY <1>2, <1>5 DEF Exit
  <2> QED
    BY <1>1, <2>2, <2>3, EmitLine
<1>6. ASSUME UNCHANGED <<netlink, holder>> PROVE Heard'
  <2>1. Entries' = Entries
    BY <1>1 DEF Entries, OnRecord, Entry
  <2> QED
    BY <1>1, <1>6, <2>1 DEF Heard, HoldersHeard, ExecsHeard, ForksLater, RootKnown
<1>7. Heard'
  BY <1>3, <1>4, <1>5, <1>6 DEF Machine, Write, Tick
<1>8. LineStored'
  <2>1. OnRecord' = OnRecord
    BY <1>1 DEF OnRecord, Entry
  <2> QED
    BY <1>1, <2>1 DEF LineStored, Keyed, Coming
<1> QED
  BY <1>7, <1>8

-----------------------------------------------------------------------------
LEMMA NextIdle ==
    ASSUME TypeOK, ChainIdle, [Next]_vars
    PROVE  ChainIdle'
<1>1. pc \in [Watcher -> Place] /\ chain \in [Watcher -> Seq(ChainItem)] /\ tree \in Tables
  BY DEF TypeOK, DaemonTypeOK
<1> DEFINE Writes(l) == l \in {"insert", "exit", "mark"}
<1>2. ASSUME UNCHANGED <<pc, chain>> PROVE ChainIdle'
  BY <1>2 DEF ChainIdle
<1>3. ASSUME NEW w \in Watcher, UNCHANGED chain, \A v \in Watcher \ {w} : pc'[v] = pc[v],
             Writes(pc[w]) => Writes(pc'[w])
      PROVE  ChainIdle'
  BY <1>3 DEF ChainIdle
<1>4. ASSUME NEW w \in Watcher,
             Watch(w) \/ Stamp(w) \/ RecordEvent(w) \/ AppendLog(w) \/ ReadError(w) \/ WriteExit(w)
      PROVE  ChainIdle'
  <2>1. /\ UNCHANGED chain /\ \A v \in Watcher \ {w} : pc'[v] = pc[v]
        /\ ~Writes(pc[w]) \/ pc'[w] = "mark"
    BY <1>1, <1>4 DEF Watch, Stamp, RecordEvent, AppendLog, ReadError, WriteExit
  <2> QED
    BY <1>3, <2>1
<1>5. ASSUME NEW w \in Watcher, InsertRow(w) \/ Mark(w) PROVE ChainIdle'
  <2>1. CASE UNCHANGED chain
    <3>1. /\ chain[w] # <<>> /\ chain[w] \in Seq(ChainItem)
      BY <1>1, <1>5 DEF InsertRow, Mark, TypeOK, DaemonTypeOK
    <3>2. Tail(chain[w]) # chain[w]
      <4>1. PICK t \in Seq(ChainItem) : t = chain[w] /\ t # <<>>
        BY <3>1
      <4>2. Len(Tail(t)) = Len(t) - 1 /\ Len(t) \in Nat
        BY <4>1
      <4>3. Len(Tail(t)) # Len(t)
        BY <4>2
      <4> QED
        BY <4>1, <4>3
    <3>3. \A v \in Watcher \ {w} : pc'[v] = pc[v]
      BY <1>1, <1>5 DEF InsertRow, Mark
    <3>4. chain' # [chain EXCEPT ![w] = Tail(@)]
      BY <1>1, <2>1, <3>2
    <3>5. pc'[w] \in {"mark", "exit"}
      BY <1>1, <1>5, <3>4 DEF InsertRow, Mark
    <3> QED
      BY <1>3, <2>1, <3>3, <3>5
  <2>2. CASE /\ chain' = [chain EXCEPT ![w] = Tail(@)]
             /\ pc' = [pc EXCEPT ![w] = AfterChain(Tail(chain[w]))]
    <3>1. PICK t : t = Tail(chain[w])
      OBVIOUS
    <3>2. /\ chain'[w] = t /\ pc'[w] = AfterChain(t)
          /\ \A v \in Watcher \ {w} : pc'[v] = pc[v] /\ chain'[v] = chain[v]
      BY <1>1, <2>2, <3>1
    <3>3. ~Writes(pc'[w]) => t = <<>>
      BY <3>2 DEF AfterChain
    <3> QED
      BY <3>2, <3>3 DEF ChainIdle
  <2> QED
    BY <1>5, <2>1, <2>2 DEF InsertRow, Mark
<1>6. ASSUME NEW w \in Watcher, TakeEvent(w) PROVE ChainIdle'
  <2>1. PICK e \in Event : e = Head(fanotify[w]) /\ e.pid \in Pid
    <3>1. fanotify[w] # <<>>
      BY <1>6 DEF TakeEvent
    <3> QED
      BY <1>6, <3>1, QueueReads DEF TakeEvent, Event
  <2>2. CASE UNCHANGED chain /\ pc' = [pc EXCEPT ![w] = "log"]
    <3>1. ~Writes(pc[w]) /\ \A v \in Watcher \ {w} : pc'[v] = pc[v]
      BY <1>1, <1>6, <2>2 DEF TakeEvent
    <3> QED
      BY <1>3, <2>2, <3>1
  <2>3. ASSUME NEW c \in Climbs(tree, e.pid), chain' = [chain EXCEPT ![w] = ChainOf(tree, c)],
               pc' = [pc EXCEPT ![w] = AfterChain(c)]
        PROVE  ChainIdle'
    <3>1. PICK t : t = ChainOf(tree, c)
      OBVIOUS
    <3>2. t = <<>> <=> c = <<>>
      BY <1>1, <2>1, <2>3, <3>1, ChainOfClimb
    <3>3. /\ chain'[w] = t /\ pc'[w] = AfterChain(c)
          /\ \A v \in Watcher \ {w} : pc'[v] = pc[v] /\ chain'[v] = chain[v]
      BY <1>1, <2>3, <3>1
    <3>4. ~Writes(pc'[w]) => t = <<>>
      BY <3>2, <3>3 DEF AfterChain
    <3> QED
      BY <3>3, <3>4 DEF ChainIdle
  <2> QED
    BY <1>6, <2>1, <2>2, <2>3 DEF TakeEvent
<1>7. ASSUME NEW w \in Watcher, IgnoreOwn(w) \/ DropEvent(w) PROVE ChainIdle'
  BY <1>2, <1>7 DEF IgnoreOwn, DropEvent, daemonVars, threadVars
<1>8. ASSUME Crash PROVE ChainIdle'
  BY <1>8 DEF Crash, ChainIdle
<1>9. ASSUME Machine \/ Boot \/ ConnectorStep \/ Evict \/ UNCHANGED vars PROVE ChainIdle'
  BY <1>2, <1>9 DEF Machine, Boot, ConnectorStep, Listen, RecvFork, RecvExec, RecvExit, CloseRow,
                    RecvOverrun, Evict, vars, daemonVars, threadVars
<1> QED
  BY <1>4, <1>5, <1>6, <1>7, <1>8, <1>9 DEF Next, WatcherStep

(* What was never broken before a step, but for the first start. *)
LEMMA BrokenStays ==
    ASSUME TypeOK, [Next]_vars, Unbroken'
    PROVE  crashes = 0 /\ (Boot \/ Unbroken)
<1>1. faults' = 0 => faults = 0
  <2>1. faults \in Nat
    BY DEF TypeOK, DaemonTypeOK
  <2>2. UNCHANGED faults \/ faults' = faults + 1
    BY DEF Next, Machine, Boot, Crash, WatcherStep, ReadError, DropEvent, Watch, IgnoreOwn, TakeEvent,
           InsertRow, WriteExit, Mark, Stamp, RecordEvent, AppendLog, ConnectorStep, Listen, RecvFork,
           RecvExec, RecvExit, CloseRow, RecvOverrun, Evict, vars, daemonVars, Fails, Succeeds
  <2> QED
    BY <2>1, <2>2
<1>2. crashes' = 0 => crashes = 0 /\ ~Crash
  <2>1. crashes \in Nat
    BY DEF TypeOK, DaemonTypeOK
  <2>2. UNCHANGED crashes \/ Crash
    BY DEF Next, Machine, Boot, WatcherStep, ReadError, DropEvent, Watch, IgnoreOwn, TakeEvent,
           InsertRow, WriteExit, Mark, Stamp, RecordEvent, AppendLog, ConnectorStep, Listen, RecvFork,
           RecvExec, RecvExit, CloseRow, RecvOverrun, Evict, vars, daemonVars
  <2> QED
    BY <2>1, <2>2 DEF Crash
<1>3. ~Boot /\ ~Crash => UNCHANGED up /\ (missed => missed')
  BY DEF Next, Machine, Fork, Exec, Exit, Write, Tick, Emit,
         WatcherStep, ReadError, DropEvent, Watch, IgnoreOwn, TakeEvent,
         InsertRow, WriteExit, Mark, Stamp, RecordEvent, AppendLog, ConnectorStep, Listen, RecvFork,
         RecvExec, RecvExit, CloseRow, RecvOverrun, Evict, vars, kernelVars, daemonVars
<1> QED
  BY <1>1, <1>2, <1>3 DEF Unbroken, Undisturbed

LEMMA NextLine == LineInv /\ ClimbsWhole /\ QuickReuse = FALSE /\ [Next]_vars => LineInv'
<1> SUFFICES ASSUME LineInv, ClimbsWhole, QuickReuse = FALSE, [Next]_vars PROVE LineInv'
  OBVIOUS
<1>1. EdgeInv /\ EdgeInv' /\ WriterInv' /\ TypeOK /\ ChainIdle
  BY NextEdges DEF LineInv, EdgeInv, WriterInv, IInv
<1>2. ChainIdle'
  BY <1>1, NextIdle
<1>3. SUFFICES ASSUME Unbroken' PROVE Heard' /\ LineStored'
  BY <1>1, <1>2 DEF LineInv
<1>4. crashes = 0 /\ faults' = 0 /\ ~missed' /\ ~Crash
  <2>1. crashes = 0 /\ crashes' = 0
    BY <1>1, <1>3, BrokenStays DEF Unbroken, Undisturbed
  <2> QED
    BY <1>3, <2>1 DEF Unbroken, Undisturbed, Crash
<1>5. CASE Boot
  BY <1>1, <1>4, <1>5, BootLine
<1>6. CASE Unbroken
  <2>1. /\ Heard /\ LineStored
        /\ HeadStored /\ CopiesAgree /\ LinkExited
    BY <1>1, <1>6 DEF LineInv, EdgeInv, WriterInv, IInv, Meanings, ExitInv, ExitParts
  <2>2. ASSUME NEW w \in Watcher, WatcherStep(w) PROVE Heard' /\ LineStored'
    <3>1. EdgeStep
      BY <1>1, <1>4, <2>2, IdleEdges, TakeEventEdges, InsertRowEdges, WriteExitEdges, MarkEdges
         DEF WatcherStep
    <3> QED
      BY <1>1, <1>4, <1>6, <2>1, <2>2, <3>1, IdleLine, TakeEventLine, InsertRowLine, WriteExitLine,
         MarkLine DEF WatcherStep
  <2>3. ASSUME NEW w \in Watcher, ReadError(w) \/ DropEvent(w) PROVE FALSE
    BY <1>1, <1>4, <2>3, FaultsFirst DEF ReadError, DropEvent
  <2>4. ASSUME ConnectorStep PROVE Heard' /\ LineStored'
    <3>1. EdgeStep
      BY <1>1, <1>4, <2>4, QueueEdges, RecvForkEdges, RecvExecEdges, RecvExitEdges, CloseRowEdges
         DEF ConnectorStep
    <3> QED
      BY <1>1, <1>4, <2>1, <2>4, <3>1, QueueLine, RecvForkLine, RecvExecLine, RecvExitLine, CloseRowLine
         DEF ConnectorStep
  <2>5. ASSUME Evict PROVE Heard' /\ LineStored'
    BY <1>1, <1>4, <2>1, <2>5, EvictEdges, EvictLine
  <2>6. ASSUME UNCHANGED vars PROVE Heard' /\ LineStored'
    BY <1>1, <1>4, <2>1, <2>6, QueueEdges, QueueLine
  <2>7. ASSUME Machine PROVE Heard' /\ LineStored'
    BY <1>1, <1>4, <2>1, <2>7, MachineLine
  <2> QED
    BY <1>4, <1>5, <2>2, <2>3, <2>4, <2>5, <2>6, <2>7, BootLine, <1>1 DEF Next
<1> QED
  BY <1>1, <1>3, <1>5, <1>6, BrokenStays

LEMMA InitLine == Init => LineInv
<1> SUFFICES ASSUME Init PROVE LineInv
  OBVIOUS
<1>1. ChainIdle /\ ~Unbroken
  BY DEF Init, ChainIdle, Unbroken
<1> QED
  BY <1>1, InitEdges DEF LineInv

LEMMA LineKept == LineInv => AncestorsStored
<1> SUFFICES ASSUME LineInv, Undisturbed, ~missed, NEW r \in rows, NEW q \in Pid,
                    r.ppid = q, tree[q] # None, tree[q].start <= r.start
             PROVE  Keyed(rows, q, tree[q].start) # {} \/ ParentUnderWay(q, r.pid)
  BY DEF AncestorsStored
<1>1. up
  BY DEF LineInv, EdgeInv, EdgeParts, NothingYet, Undisturbed
<1>2. LineStored
  BY <1>1 DEF LineInv, Unbroken
<1>3. PICK c : c = Entry(r.pid, r)
  OBVIOUS
<1>4. c \in OnRecord /\ c.ppid = q /\ c.start = r.start /\ c.pid = r.pid
  BY <1>3 DEF OnRecord, Entry
<1>5. Keyed(rows, q, tree[q].start) # {} \/ Coming(chain, q, tree[q].start, r.pid)
  BY <1>2, <1>4, PidAssumption DEF LineStored
<1> QED
  BY <1>5 DEF Coming, ParentUnderWay

(* Whoever finds a child's row finds its parent's, between any two         *)
(* statements of persist_chain and with both watchers at work, as long as  *)
(* nothing failed, no message was missed and MAX_CHAIN cuts no line        *)
(* (whodidd.rs:263, proctree.rs:134).                                      *)
THEOREM AncestryStored ==
    QuickReuse = FALSE => (Spec /\ []ClimbsWhole => []AncestorsStored)
<1>1. CASE QuickReuse = FALSE
  <2>1. LineInv /\ ClimbsWhole /\ [Next]_vars => LineInv'
    BY <1>1, NextLine
  <2> QED
    BY <2>1, InitLine, LineKept, PTL DEF Spec
<1> QED
  BY <1>1
=============================================================================
