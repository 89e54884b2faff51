---------------------------- MODULE WhodiddProofs ----------------------------
(***************************************************************************)
(* PersistedMeansStored for every value of the constants, provided no pid  *)
(* comes round before the daemon has forgotten its last life: IInv holds   *)
(* at the start and every step keeps it.                                   *)
(***************************************************************************)
EXTENDS WhodiddInv, TypeProofs

(* A pid has one latest life. *)
LEMMA LatestUnique ==
    ASSUME TypeOK, NEW i, NEW j, NEW p, IsLatest(i, p), IsLatest(j, p)
    PROVE  i = j
<1>1. Len(procs) \in Nat
  BY DEF TypeOK, KernelTypeOK
<1> QED
  BY <1>1 DEF IsLatest

(* As long as no process is created, lives stay latest. *)
LEMMA LatestSame ==
    ASSUME UNCHANGED procs
    PROVE  \A i, p : IsLatest(i, p)' <=> IsLatest(i, p)
  BY DEF IsLatest

(* A new process is the latest of its pid, and no other pid is concerned. *)
LEMMA LatestFork ==
    ASSUME TypeOK, NEW q \in Pid, NEW p \in Pid, Fork(q, p),
           NEW m, m = Len(procs) + 1
    PROVE  /\ IsLatest(m, p)'
           /\ \A i, x : x # p /\ IsLatest(i, x) => IsLatest(i, x)'
<1>1. PICK n : n = Len(procs) /\ n \in Nat
  BY DEF TypeOK, KernelTypeOK
<1>2. /\ Len(procs') = n + 1 /\ procs'[n + 1].pid = p
      /\ \A i \in 1 .. n : procs'[i] = procs[i]
  BY <1>1, ForkType
<1>3. \A i \in 1 .. n + 1 : i = n + 1 \/ i \in 1 .. n
  BY <1>1
<1>4. IsLatest(n + 1, p)'
  BY <1>1, <1>2 DEF IsLatest
<1>5. ASSUME NEW i, NEW x, x # p, IsLatest(i, x) PROVE IsLatest(i, x)'
  <2>1. i \in 1 .. n /\ procs[i].pid = x /\ \A j \in 1 .. n : procs[j].pid = x => j <= i
    BY <1>1, <1>5 DEF IsLatest
  <2>2. i \in 1 .. n + 1 /\ procs'[i].pid = x
    BY <1>1, <1>2, <2>1
  <2>3. \A j \in 1 .. n + 1 : procs'[j].pid = x => j <= i
    BY <1>2, <1>3, <1>5, <2>1
  <2> QED
    BY <1>2, <2>2, <2>3 DEF IsLatest
<1> QED
  BY <1>1, <1>4, <1>5

LEMMA LatestExec ==
    ASSUME TypeOK, NEW p \in Pid, NEW im \in Image, Exec(p, im)
    PROVE  \A i, x : IsLatest(i, x)' <=> IsLatest(i, x)
<1>1. Len(procs') = Len(procs) /\ \A i \in 1 .. Len(procs) : procs'[i].pid = procs[i].pid
  BY ExecType
<1> QED
  BY <1>1 DEF IsLatest

(* The queue after a message, and after one is read. *)
LEMMA EmitQueue ==
    ASSUME TypeOK, NEW m, Emit(m)
    PROVE  \A i \in 1 .. Len(netlink') :
              \/ netlink'[i] = Overrun
              \/ i \in 1 .. Len(netlink) /\ netlink'[i] = netlink[i]
              \/ /\ netlink'[i] = m /\ i = Len(netlink) + 1
                 /\ Len(netlink') = Len(netlink) + 1
                 /\ \A j \in 1 .. Len(netlink) : netlink'[j] = netlink[j]
<1>1. netlink \in Seq(Message) /\ Len(netlink) \in Nat
  BY DEF TypeOK, KernelTypeOK
<1>2. CASE netlink' = netlink
  BY <1>2
<1>3. CASE netlink' = <<Overrun>>
  BY <1>3
<1>4. CASE netlink' = Append(netlink, m)
  <2>1. Len(netlink') = Len(netlink) + 1 /\ netlink'[Len(netlink) + 1] = m
    BY <1>1, <1>4
  <2>2. \A j \in 1 .. Len(netlink) : netlink'[j] = netlink[j]
    BY <1>1, <1>4
  <2> QED
    BY <1>1, <2>1, <2>2
<1> QED
  BY <1>2, <1>3, <1>4 DEF Emit

LEMMA TailQueue ==
    ASSUME TypeOK, netlink # <<>>, netlink' = Tail(netlink)
    PROVE  /\ Len(netlink) \in Nat /\ 1 \in 1 .. Len(netlink)
           /\ Head(netlink) = netlink[1]
           /\ Len(netlink') = Len(netlink) - 1
           /\ \A i \in 1 .. Len(netlink') :
                 i + 1 \in 1 .. Len(netlink) /\ netlink'[i] = netlink[i + 1]
<1>1. netlink \in Seq(Message)
  BY DEF TypeOK, KernelTypeOK
<1> QED
  BY <1>1

LEMMA MessageType ==
    ASSUME TypeOK, NEW i \in 1 .. Len(netlink)
    PROVE  /\ netlink[i] # Overrun => netlink[i].pid \in Pid /\ netlink[i].inc \in Nat
           /\ netlink[i].kind # "overrun" => netlink[i] # Overrun
           /\ netlink[i].kind \in {"fork", "exec", "exit"} => netlink[i].pid \in Pid
<1>1. netlink[i] \in Message
  BY ElementOfSeq DEF TypeOK, KernelTypeOK
<1>2. Overrun.kind = "overrun"
  BY DEF Overrun, Msg
<1> QED
  BY <1>1, <1>2 DEF Message

LEMMA LinkType ==
    ASSUME TypeOK, NEW w \in Watcher, NEW i \in 1 .. Len(chain[w])
    PROVE  /\ chain[w][i].pid \in Pid /\ chain[w][i].node \in ProcNode
           /\ chain[w][i].node.start \in Nat
<1>1. chain[w] \in Seq(ChainItem)
  BY DEF TypeOK, DaemonTypeOK
<1>2. chain[w][i] \in ChainItem
  BY <1>1, ElementOfSeq
<1> QED
  BY <1>2 DEF ChainItem, ProcNode

-----------------------------------------------------------------------------
(* Places before and after i in a queue that has lost its first d messages. *)
LEMMA Shifted ==
    ASSUME NEW n \in Nat, NEW m, NEW d \in {0, 1}, m = n - d, NEW i \in 1 .. m
    PROVE  /\ \A j \in 1 .. i - 1 : j \in 1 .. m /\ j + d \in 1 .. (i + d) - 1
           /\ \A j \in i + 1 .. m : j \in 1 .. m /\ j + d \in (i + d) + 1 .. n
  OBVIOUS

(* A step that brings nothing new keeps every part: no process, message,   *)
(* link or node that was not there, and no row that means something else.  *)
LEMMA NothingNew ==
    ASSUME IInv, UNCHANGED <<procs, holder>>, now' \in Nat, now <= now',
           \A r \in rows : \E q \in rows' : q.pid = r.pid /\ q.start = r.start /\ q.inc = r.inc,
           \A q \in rows' : \E r \in rows : q.pid = r.pid /\ q.start = r.start /\ q.inc = r.inc,
           \A w \in Watcher : \A i \in 1 .. Len(chain'[w]) :
               \E k \in 1 .. Len(chain[w]) : chain'[w][i] = chain[w][k],
           \A w \in Watcher : pc'[w] \in {"exit", "mark"} =>
               pc[w] \in {"exit", "mark"} /\ chain'[w] = chain[w],
           NEW d \in {0, 1}, Len(netlink') = Len(netlink) - d,
           \A i \in 1 .. Len(netlink') : netlink'[i] = netlink[i + d],
           \A p \in Pid : tree'[p] = None => tree[p] = None \/ LastHeard(p),
           \A p \in Pid : tree'[p] # None =>
               /\ tree[p] # None
               /\ tree'[p].start = tree[p].start /\ tree'[p].inc = tree[p].inc
               /\ tree'[p].exited # None => tree[p].exited # None \/ LastHeard(p)'
               /\ tree'[p].persisted =>
                     \/ tree[p].persisted
                     \/ \E r \in Keyed(rows, p, tree[p].start) : r.inc = tree[p].inc
    PROVE  Meanings'
<1>1. Len(netlink) \in Nat /\ now \in Nat /\ rows \subseteq ProcRow
  BY DEF IInv, TypeOK, KernelTypeOK, DaemonTypeOK
<1>2. \A i \in 1 .. Len(netlink') : i + d \in 1 .. Len(netlink) /\ netlink'[i] = netlink[i + d]
  BY <1>1
<1>3. \A p : LastHeard(p) => LastHeard(p)'
  BY <1>2 DEF LastHeard
<1>4. LatestLives'
  <2>1. \A p \in Pid : holder'[p] # 0 => IsLatest(holder[p], p)'
    BY LatestSame DEF IInv, Meanings, LatestLives
  <2>2. \A i \in 1 .. Len(netlink') :
           netlink'[i] # Overrun => IsLatest(netlink[i].inc, netlink[i].pid)'
    BY <1>2, LatestSame DEF IInv, Meanings, LatestLives
  <2>3. \A p \in Pid : tree'[p] # None => IsLatest(tree[p].inc, p)'
    BY LatestSame DEF IInv, Meanings, LatestLives
  <2>4. \A w \in Watcher : \A i \in 1 .. Len(chain'[w]) :
           IsLatest(chain[w][i].node.inc, chain[w][i].pid)'
    <3>1. SUFFICES ASSUME NEW w \in Watcher, NEW i \in 1 .. Len(chain'[w])
                   PROVE  IsLatest(chain[w][i].node.inc, chain[w][i].pid)'
      OBVIOUS
    <3>2. PICK k \in 1 .. Len(chain[w]) : chain'[w][i] = chain[w][k]
      OBVIOUS
    <3>3. IsLatest(chain[w][k].node.inc, chain[w][k].pid)
      BY DEF IInv, Meanings, LatestLives
    <3> QED
      BY <3>2, <3>3, LatestSame
  <2>5. \A q \in rows' : IsLatest(q.inc, q.pid)' \/ q.start < now'
    <3>1. TAKE q \in rows'
    <3>2. PICK r \in rows : q.pid = r.pid /\ q.start = r.start /\ q.inc = r.inc
      OBVIOUS
    <3>3. IsLatest(r.inc, r.pid) \/ r.start < now
      BY DEF IInv, Meanings, LatestLives
    <3>4. r.start \in Nat
      BY <1>1 DEF ProcRow
    <3> QED
      BY <1>1, <3>2, <3>3, <3>4, LatestSame
  <2> QED
    BY <2>1, <2>2, <2>3, <2>4, <2>5 DEF LatestLives
<1>5. KeysDiffer'
  <2>1. ASSUME NEW p \in Pid, tree'[p] # None,
               NEW q \in rows', q.pid = p, q.inc # tree'[p].inc
        PROVE  q.start < tree'[p].start
    <3>1. PICK r \in rows : q.pid = r.pid /\ q.start = r.start /\ q.inc = r.inc
      OBVIOUS
    <3>2. tree[p] # None /\ tree'[p].start = tree[p].start /\ tree'[p].inc = tree[p].inc
      BY <2>1
    <3>3. r.start < tree[p].start
      BY <2>1, <3>1, <3>2 DEF IInv, Meanings, KeysDiffer
    <3> QED
      BY <3>1, <3>2, <3>3
  <2>2. ASSUME NEW w \in Watcher, NEW i \in 1 .. Len(chain'[w]),
               NEW q \in rows', q.pid = chain'[w][i].pid, q.inc # chain'[w][i].node.inc
        PROVE  q.start < chain'[w][i].node.start
    <3>1. PICK r \in rows : q.pid = r.pid /\ q.start = r.start /\ q.inc = r.inc
      OBVIOUS
    <3>2. PICK k \in 1 .. Len(chain[w]) : chain'[w][i] = chain[w][k]
      OBVIOUS
    <3>3. r.pid = chain[w][k].pid /\ r.inc # chain[w][k].node.inc
      BY <2>2, <3>1, <3>2
    <3>4. r.start < chain[w][k].node.start
      BY <3>3 DEF IInv, Meanings, KeysDiffer
    <3> QED
      BY <3>1, <3>2, <3>4
  <2> QED
    BY <2>1, <2>2 DEF KeysDiffer
<1>6. QueueOrdered'
  <2>1. ASSUME NEW i \in 1 .. Len(netlink'), netlink'[i].kind = "fork"
        PROVE  /\ tree'[netlink'[i].pid] = None
               /\ \A w \in Watcher : \A k \in 1 .. Len(chain'[w]) :
                     chain'[w][k].pid # netlink'[i].pid
               /\ \A j \in 1 .. i - 1 : netlink'[j].pid # netlink'[i].pid
    <3>1. PICK k \in 1 .. Len(netlink) : k = i + d /\ netlink'[i] = netlink[k]
      BY <1>2
    <3>2. /\ tree[netlink[k].pid] = None
          /\ \A w \in Watcher : \A l \in 1 .. Len(chain[w]) : chain[w][l].pid # netlink[k].pid
          /\ \A j \in 1 .. k - 1 : netlink[j].pid # netlink[k].pid
      BY <2>1, <3>1 DEF IInv, Meanings, QueueOrdered
    <3>3. netlink[k].pid \in Pid
      BY <2>1, <3>1, MessageType DEF IInv
    <3>4. ASSUME NEW j \in 1 .. i - 1 PROVE netlink'[j].pid # netlink'[i].pid
      <4>1. PICK l : l = j + d
        OBVIOUS
      <4>2. j \in 1 .. Len(netlink') /\ l \in 1 .. k - 1
        BY <1>1, <3>1, <4>1, Shifted
      <4>3. netlink'[j] = netlink[l]
        BY <1>2, <4>1, <4>2
      <4>4. netlink[l].pid # netlink[k].pid
        BY <3>2, <4>2
      <4> QED
        BY <3>1, <4>3, <4>4
    <3>5. tree'[netlink'[i].pid] = None
      BY <3>1, <3>2, <3>3
    <3>6. ASSUME NEW w \in Watcher, NEW l \in 1 .. Len(chain'[w])
          PROVE  chain'[w][l].pid # netlink'[i].pid
      <4>1. PICK m \in 1 .. Len(chain[w]) : chain'[w][l] = chain[w][m]
        OBVIOUS
      <4> QED
        BY <3>1, <3>2, <4>1
    <3> QED
      BY <3>4, <3>5, <3>6
  <2>2. ASSUME NEW i \in 1 .. Len(netlink'), netlink'[i].kind = "exit"
        PROVE  /\ holder'[netlink'[i].pid] = 0
               /\ \A j \in i + 1 .. Len(netlink') : netlink'[j].pid # netlink'[i].pid
    <3>1. PICK k \in 1 .. Len(netlink) : k = i + d /\ netlink'[i] = netlink[k]
      BY <1>2
    <3>2. /\ holder[netlink[k].pid] = 0
          /\ \A j \in k + 1 .. Len(netlink) : netlink[j].pid # netlink[k].pid
      BY <2>2, <3>1 DEF IInv, Meanings, QueueOrdered
    <3>3. ASSUME NEW j \in i + 1 .. Len(netlink') PROVE netlink'[j].pid # netlink'[i].pid
      <4>1. PICK l : l = j + d
        OBVIOUS
      <4>2. j \in 1 .. Len(netlink') /\ l \in k + 1 .. Len(netlink)
        BY <1>1, <3>1, <4>1, Shifted
      <4>3. netlink'[j] = netlink[l]
        BY <1>2, <4>1, <4>2
      <4>4. netlink[l].pid # netlink[k].pid
        BY <3>2, <4>2
      <4> QED
        BY <3>1, <4>3, <4>4
    <3> QED
      BY <3>1, <3>2, <3>3
  <2> QED
    BY <2>1, <2>2 DEF QueueOrdered
<1>7. CopiesAgree'
  <2>1. \A p \in Pid : tree'[p] # None /\ tree'[p].exited # None => LastHeard(p)'
    BY <1>3 DEF IInv, Meanings, CopiesAgree
  <2>2. ASSUME NEW w \in Watcher, NEW i \in 1 .. Len(chain'[w])
        PROVE  IF tree'[chain'[w][i].pid] = None THEN LastHeard(chain[w][i].pid)'
               ELSE tree'[chain'[w][i].pid].start = chain'[w][i].node.start
    <3>1. PICK k \in 1 .. Len(chain[w]) : chain'[w][i] = chain[w][k]
      BY <2>2
    <3>2. IF tree[chain[w][k].pid] = None THEN LastHeard(chain[w][k].pid)
          ELSE tree[chain[w][k].pid].start = chain[w][k].node.start
      BY DEF IInv, Meanings, CopiesAgree
    <3>3. PICK p \in Pid : p = chain[w][k].pid
      BY LinkType DEF IInv
    <3>4. CASE tree'[p] = None
      <4>1. LastHeard(p)
        BY <3>2, <3>3, <3>4
      <4> QED
        BY <1>3, <3>1, <3>3, <3>4, <4>1
    <3>5. CASE tree'[p] # None
      <4>1. tree[p] # None /\ tree'[p].start = tree[p].start
        BY <3>5
      <4>2. tree[p].start = chain[w][k].node.start
        BY <3>2, <3>3, <4>1
      <4> QED
        BY <3>1, <3>3, <3>5, <4>1, <4>2
    <3> QED
      BY <3>4, <3>5
  <2> QED
    BY <2>1, <2>2 DEF CopiesAgree
<1>8. HeadStored'
  <2>1. ASSUME NEW w \in Watcher, pc'[w] \in {"exit", "mark"}
        PROVE  LET item == Head(chain'[w])
               IN  \E q \in Keyed(rows', item.pid, item.node.start) : q.inc = item.node.inc
    <3>1. pc[w] \in {"exit", "mark"} /\ chain'[w] = chain[w]
      BY <2>1
    <3>2. PICK r \in Keyed(rows, Head(chain[w]).pid, Head(chain[w]).node.start) :
                  r.inc = Head(chain[w]).node.inc
      BY <3>1 DEF IInv, Meanings, HeadStored
    <3>3. PICK q \in rows' : q.pid = r.pid /\ q.start = r.start /\ q.inc = r.inc
      BY <3>2 DEF Keyed
    <3> QED
      BY <3>1, <3>2, <3>3 DEF Keyed
  <2> QED
    BY <2>1 DEF HeadStored, Keyed
<1>9. PersistedMeansStored'
  <2>1. ASSUME NEW p \in Pid, tree'[p] # None, tree'[p].persisted
        PROVE  \E q \in Keyed(rows', p, tree'[p].start) : q.inc = tree'[p].inc
    <3>1. tree[p] # None /\ tree'[p].start = tree[p].start /\ tree'[p].inc = tree[p].inc
      BY <2>1
    <3>2. PICK r \in Keyed(rows, p, tree[p].start) : r.inc = tree[p].inc
      BY <2>1, <3>1 DEF IInv, Meanings, PersistedMeansStored
    <3>3. PICK q \in rows' : q.pid = r.pid /\ q.start = r.start /\ q.inc = r.inc
      BY <3>2 DEF Keyed
    <3> QED
      BY <3>1, <3>2, <3>3 DEF Keyed
  <2> QED
    BY <2>1 DEF PersistedMeansStored, Keyed
<1> QED
  BY <1>4, <1>5, <1>6, <1>7, <1>8, <1>9 DEF Meanings

-----------------------------------------------------------------------------
(* Most steps leave alone all that the parts are about, but for the rows   *)
(* they close and the thread's place.                                      *)
LEMMA OnlyRowsClosed ==
    ASSUME IInv, UNCHANGED <<procs, holder, netlink, tree, chain>>, now' \in Nat, now <= now',
           \/ UNCHANGED rows
           \/ \E p, s : \E x \in Option(Nat) : rows' = RecordExitAt(rows, p, s, x),
           \A w \in Watcher : pc'[w] \in {"exit", "mark"} => pc[w] \in {"exit", "mark"}
    PROVE  Meanings'
<1>1. rows \in SUBSET ProcRow /\ Len(netlink) \in Nat
  BY DEF IInv, TypeOK, KernelTypeOK, DaemonTypeOK
<1>2. /\ \A r \in rows : \E q \in rows' : q.pid = r.pid /\ q.start = r.start /\ q.inc = r.inc
      /\ \A q \in rows' : \E r \in rows : q.pid = r.pid /\ q.start = r.start /\ q.inc = r.inc
  <2>1. CASE UNCHANGED rows
    BY <2>1
  <2>2. CASE \E p, s : \E x \in Option(Nat) : rows' = RecordExitAt(rows, p, s, x)
    BY <1>1, <2>2, RecordExitAtKeeps
  <2> QED
    BY <2>1, <2>2
<1>3. \A w \in Watcher : \A i \in 1 .. Len(chain'[w]) :
         \E k \in 1 .. Len(chain[w]) : chain'[w][i] = chain[w][k]
  OBVIOUS
<1>4. Len(netlink') = Len(netlink) - 0 /\ \A i \in 1 .. Len(netlink') : netlink'[i] = netlink[i + 0]
  BY <1>1
<1> QED
  BY <1>2, <1>3, <1>4, NothingNew

LEMMA SameTime == ASSUME IInv, UNCHANGED now PROVE now' \in Nat /\ now <= now'
  BY DEF IInv, TypeOK, KernelTypeOK

LEMMA WriteMeanings ==
    ASSUME IInv, NEW w \in Watcher, NEW p \in Pid, Write(w, p), UNCHANGED daemonVars
    PROVE  Meanings'
  BY SameTime, OnlyRowsClosed DEF Write, daemonVars, threadVars

LEMMA TickMeanings == IInv /\ Tick /\ UNCHANGED daemonVars => Meanings'
<1> SUFFICES ASSUME IInv, Tick, UNCHANGED daemonVars PROVE Meanings'
  OBVIOUS
<1>1. now' \in Nat /\ now <= now'
  BY DEF Tick, IInv, TypeOK, KernelTypeOK
<1> QED
  BY <1>1, OnlyRowsClosed DEF Tick, daemonVars, threadVars

LEMMA ListenMeanings == IInv /\ Listen => Meanings'
  BY SameTime, OnlyRowsClosed DEF Listen, threadVars

LEMMA WatchMeanings ==
    ASSUME IInv, NEW w \in Watcher, Watch(w)
    PROVE  Meanings'
<1>1. \A v \in Watcher : pc'[v] \in {"exit", "mark"} => pc[v] \in {"exit", "mark"}
  BY DEF Watch, IInv, TypeOK, DaemonTypeOK
<1> QED
  BY <1>1, SameTime, OnlyRowsClosed DEF Watch

LEMMA IgnoreOwnMeanings ==
    ASSUME IInv, NEW w \in Watcher, IgnoreOwn(w) \/ DropEvent(w)
    PROVE  Meanings'
  BY SameTime, OnlyRowsClosed DEF IgnoreOwn, DropEvent, daemonVars, threadVars

LEMMA RecordMeanings ==
    ASSUME IInv, NEW w \in Watcher, ReadError(w) \/ Stamp(w) \/ RecordEvent(w) \/ AppendLog(w)
    PROVE  Meanings'
<1>1. \A v \in Watcher : pc'[v] \in {"exit", "mark"} => pc[v] \in {"exit", "mark"}
  BY DEF ReadError, Stamp, RecordEvent, AppendLog, IInv, TypeOK, DaemonTypeOK
<1>2. UNCHANGED <<now, procs, holder, netlink, tree, chain, rows>>
  BY DEF ReadError, Stamp, RecordEvent, AppendLog, kernelVars
<1> QED
  BY <1>1, <1>2, SameTime, OnlyRowsClosed

LEMMA WriteExitMeanings ==
    ASSUME IInv, NEW w \in Watcher, WriteExit(w)
    PROVE  Meanings'
<1>1. pc[w] = "exit" /\ \A v \in Watcher \ {w} : pc'[v] = pc[v]
  BY DEF WriteExit, IInv, TypeOK, DaemonTypeOK
<1>2. Head(chain[w]).node.exited \in Option(Nat)
  BY <1>1, HeadOfChain DEF IInv, TypeOK, DaemonTypeOK
<1>3. \/ UNCHANGED rows
      \/ \E p, s : \E x \in Option(Nat) : rows' = RecordExitAt(rows, p, s, x)
  BY <1>2 DEF WriteExit
<1> QED
  BY <1>1, <1>3, SameTime, OnlyRowsClosed DEF WriteExit

LEMMA CloseRowMeanings == IInv /\ CloseRow => Meanings'
<1> SUFFICES ASSUME IInv, CloseRow PROVE Meanings'
  OBVIOUS
<1>1. closing.exit \in Option(Nat)
  BY DEF IInv, TypeOK, DaemonTypeOK, Option
<1>2. \/ UNCHANGED rows
      \/ \E p, s : \E x \in Option(Nat) : rows' = RecordExitAt(rows, p, s, x)
  BY <1>1 DEF CloseRow
<1> QED
  BY <1>2, SameTime, OnlyRowsClosed DEF CloseRow, threadVars

-----------------------------------------------------------------------------
(* The end of a link: what is left of the chain was there, and w is not    *)
(* past an insert.                                                         *)
LEMMA ChainShrinks ==
    ASSUME TypeOK, NEW w \in Watcher, chain[w] # <<>>,
           chain' = [chain EXCEPT ![w] = Tail(@)],
           pc' = [pc EXCEPT ![w] = AfterChain(Tail(chain[w]))]
    PROVE  /\ \A v \in Watcher : \A i \in 1 .. Len(chain'[v]) :
                 \E k \in 1 .. Len(chain[v]) : chain'[v][i] = chain[v][k]
           /\ \A v \in Watcher : pc'[v] \in {"exit", "mark"} =>
                 pc[v] \in {"exit", "mark"} /\ chain'[v] = chain[v]
<1>1. chain \in [Watcher -> Seq(ChainItem)] /\ pc' = [pc EXCEPT ![w] = AfterChain(Tail(chain[w]))]
  BY DEF TypeOK, DaemonTypeOK
<1>2. PICK l : l = AfterChain(Tail(chain[w]))
  OBVIOUS
<1>3. l \in {"stamp", "insert"} /\ pc' = [pc EXCEPT ![w] = l]
  BY <1>2 DEF AfterChain
<1>4. \A v \in Watcher \ {w} : chain'[v] = chain[v] /\ pc'[v] = pc[v]
  BY <1>1, <1>3 DEF TypeOK, DaemonTypeOK
<1>5. chain'[w] = Tail(chain[w]) /\ pc'[w] = l
  BY <1>1, <1>3 DEF TypeOK, DaemonTypeOK
<1>6. \A i \in 1 .. Len(chain'[w]) : \E k \in 1 .. Len(chain[w]) : chain'[w][i] = chain[w][k]
  <2>1. chain[w] \in Seq(ChainItem)
    BY <1>1
  <2>2. \A i \in 1 .. Len(Tail(chain[w])) :
           i + 1 \in 1 .. Len(chain[w]) /\ Tail(chain[w])[i] = chain[w][i + 1]
    BY <2>1
  <2> QED
    BY <1>5, <2>2
<1> QED
  BY <1>3, <1>4, <1>5, <1>6

(* mark_persisted finds the row its insert left, and the same process.     *)
LEMMA MarkMeanings ==
    ASSUME IInv, NEW w \in Watcher, Mark(w)
    PROVE  Meanings'
<1> USE DEF IInv
<1>1. pc[w] = "mark" /\ chain[w] # <<>>
  BY DEF Mark, TypeOK, DaemonTypeOK
<1>2. PICK item : item = Head(chain[w])
  OBVIOUS
<1>3. 1 \in 1 .. Len(chain[w]) /\ item = chain[w][1]
  BY <1>1, <1>2 DEF TypeOK, DaemonTypeOK
<1>4. item.pid \in Pid /\ tree' = MarkPersisted(tree, item.pid) /\ tree \in Tables
  BY <1>1, <1>2, HeadOfChain DEF Mark, TypeOK, DaemonTypeOK
<1>5. PICK r \in Keyed(rows, item.pid, item.node.start) : r.inc = item.node.inc
  BY <1>1, <1>2 DEF Meanings, HeadStored
<1>6. ASSUME tree[item.pid] # None
      PROVE  tree[item.pid].start = item.node.start /\ tree[item.pid].inc = item.node.inc
  <2>1. tree[item.pid].start = item.node.start
    BY <1>3, <1>6 DEF Meanings, CopiesAgree
  <2>2. IsLatest(tree[item.pid].inc, item.pid) /\ IsLatest(item.node.inc, item.pid)
    BY <1>3, <1>4, <1>6 DEF Meanings, LatestLives
  <2> QED
    BY <2>1, <2>2, LatestUnique
<1>7. \A p \in Pid : tree'[p] = None => tree[p] = None \/ LastHeard(p)
  BY <1>4, MarkPersistedTable
<1>8. ASSUME NEW p \in Pid, tree'[p] # None
      PROVE  /\ tree[p] # None
             /\ tree'[p].start = tree[p].start /\ tree'[p].inc = tree[p].inc
             /\ tree'[p].exited # None => tree[p].exited # None \/ LastHeard(p)'
             /\ tree'[p].persisted =>
                   \/ tree[p].persisted
                   \/ \E q \in Keyed(rows, p, tree[p].start) : q.inc = tree[p].inc
  <2>1. CASE p = item.pid
    BY <1>4, <1>5, <1>6, <1>8, <2>1, MarkPersistedTable
  <2>2. CASE p # item.pid
    BY <1>4, <1>8, <2>2, MarkPersistedTable
  <2> QED
    BY <2>1, <2>2
<1>9. UNCHANGED <<now, procs, holder, netlink, rows>>
  BY DEF Mark, kernelVars
<1>10. /\ \A v \in Watcher : \A i \in 1 .. Len(chain'[v]) :
             \E k \in 1 .. Len(chain[v]) : chain'[v][i] = chain[v][k]
       /\ \A v \in Watcher : pc'[v] \in {"exit", "mark"} =>
             pc[v] \in {"exit", "mark"} /\ chain'[v] = chain[v]
  BY <1>1, ChainShrinks DEF Mark
<1>11. Len(netlink') = Len(netlink) - 0 /\ \A i \in 1 .. Len(netlink') : netlink'[i] = netlink[i + 0]
  BY <1>9 DEF TypeOK, KernelTypeOK
<1>12. /\ \A x \in rows : \E q \in rows' : q.pid = x.pid /\ q.start = x.start /\ q.inc = x.inc
       /\ \A q \in rows' : \E x \in rows : q.pid = x.pid /\ q.start = x.start /\ q.inc = x.inc
  BY <1>9
<1> HIDE DEF IInv
<1> QED
  BY <1>7, <1>8, <1>9, <1>10, <1>11, <1>12, SameTime, NothingNew

(* record_existing for a link: the row it leaves is the link's process, in *)
(* place of no other, for a row with that key would have started earlier.  *)
LEMMA InsertRowMeanings ==
    ASSUME IInv, NEW w \in Watcher, InsertRow(w)
    PROVE  Meanings'
<1>1. pc[w] = "insert" /\ chain[w] # <<>> /\ TypeOK
  BY DEF IInv, InsertRow, TypeOK, DaemonTypeOK
<1>2. PICK item : item = Head(chain[w])
  OBVIOUS
<1>3. 1 \in 1 .. Len(chain[w]) /\ item = chain[w][1]
  BY <1>1, <1>2 DEF TypeOK, DaemonTypeOK
<1>4. item.pid \in Pid /\ item.node \in ProcNode /\ item.node.start \in Nat
  BY <1>1, <1>2, HeadOfChain
<1>5. IsLatest(item.node.inc, item.pid)
  BY <1>3 DEF IInv, Meanings, LatestLives
<1>6. UNCHANGED <<now, procs, holder, netlink, tree>>
  BY DEF InsertRow
<1>7. CASE /\ chain' = [chain EXCEPT ![w] = Tail(@)]
           /\ pc' = [pc EXCEPT ![w] = AfterChain(Tail(chain[w]))]
           /\ UNCHANGED rows
  <2>1. /\ \A v \in Watcher : \A i \in 1 .. Len(chain'[v]) :
              \E k \in 1 .. Len(chain[v]) : chain'[v][i] = chain[v][k]
        /\ \A v \in Watcher : pc'[v] \in {"exit", "mark"} =>
              pc[v] \in {"exit", "mark"} /\ chain'[v] = chain[v]
    BY <1>1, <1>7, ChainShrinks
  <2>2. /\ Len(netlink') = Len(netlink) - 0
        /\ \A i \in 1 .. Len(netlink') : netlink'[i] = netlink[i + 0]
    BY <1>1, <1>6 DEF TypeOK, KernelTypeOK
  <2> QED
    BY <1>6, <1>7, <2>1, <2>2, SameTime, NothingNew
<1>8. CASE /\ rows' = RecordExisting(rows, item.pid, item.node)
           /\ pc' = [pc EXCEPT ![w] = IF item.node.exited = None THEN "mark" ELSE "exit"]
           /\ UNCHANGED chain
  <2>1. /\ rows \subseteq rows'
        /\ Keyed(rows', item.pid, item.node.start) # {}
        /\ \A r \in rows' :
              \/ r \in rows
              \/ r.pid = item.pid /\ r.start = item.node.start /\ r.inc = item.node.inc
    <3>1. rows \in SUBSET ProcRow
      BY <1>1 DEF TypeOK, DaemonTypeOK
    <3> QED
      BY <1>4, <1>8, <3>1, RecordExistingStores
  <2>2. LatestLives'
    BY <1>5, <1>6, <1>8, <2>1, LatestSame DEF IInv, Meanings, LatestLives
  <2>3. KeysDiffer'
    <3>1. ASSUME NEW p \in Pid, tree[p] # None,
                 NEW r \in rows', r.pid = p, r.inc # tree[p].inc
          PROVE  r.start < tree[p].start
      <4>1. IsLatest(tree[p].inc, p)
        BY <3>1 DEF IInv, Meanings, LatestLives
      <4>2. r \in rows
        BY <1>1, <1>5, <2>1, <3>1, <4>1, LatestUnique
      <4> QED
        BY <3>1, <4>2 DEF IInv, Meanings, KeysDiffer
    <3>2. ASSUME NEW v \in Watcher, NEW i \in 1 .. Len(chain[v]),
                 NEW r \in rows', r.pid = chain[v][i].pid, r.inc # chain[v][i].node.inc
          PROVE  r.start < chain[v][i].node.start
      <4>1. IsLatest(chain[v][i].node.inc, chain[v][i].pid)
        BY DEF IInv, Meanings, LatestLives
      <4>2. r \in rows
        BY <1>1, <1>5, <2>1, <3>2, <4>1, LatestUnique
      <4> QED
        BY <3>2, <4>2 DEF IInv, Meanings, KeysDiffer
    <3> QED
      BY <1>6, <1>8, <3>1, <3>2 DEF KeysDiffer
  <2>4. QueueOrdered' /\ CopiesAgree'
    BY <1>6, <1>8 DEF IInv, Meanings, QueueOrdered, CopiesAgree, LastHeard
  <2>5. HeadStored'
    <3>1. \E r \in Keyed(rows', item.pid, item.node.start) : r.inc = item.node.inc
      <4>1. PICK r \in rows' : r.pid = item.pid /\ r.start = item.node.start
        BY <2>1 DEF Keyed
      <4>2. r \in rows /\ r.inc # item.node.inc => r.start < item.node.start
        BY <1>3, <4>1 DEF IInv, Meanings, KeysDiffer
      <4>3. r.inc = item.node.inc
        BY <1>4, <2>1, <4>1, <4>2
      <4> QED
        BY <4>1, <4>3 DEF Keyed
    <3>2. ASSUME NEW v \in Watcher, v # w, pc'[v] \in {"exit", "mark"}
          PROVE  LET x == Head(chain'[v])
                 IN  \E r \in Keyed(rows', x.pid, x.node.start) : r.inc = x.node.inc
      <4>1. pc[v] \in {"exit", "mark"}
        BY <1>1, <1>8, <3>2 DEF TypeOK, DaemonTypeOK
      <4>2. PICK r \in Keyed(rows, Head(chain[v]).pid, Head(chain[v]).node.start) :
                    r.inc = Head(chain[v]).node.inc
        BY <4>1 DEF IInv, Meanings, HeadStored
      <4> QED
        BY <1>8, <2>1, <4>2 DEF Keyed
    <3> QED
      BY <1>2, <1>8, <3>1, <3>2 DEF HeadStored
  <2>6. PersistedMeansStored'
    BY <1>6, <2>1 DEF IInv, Meanings, PersistedMeansStored, Keyed
  <2> QED
    BY <2>2, <2>3, <2>4, <2>5, <2>6 DEF Meanings
<1> QED
  BY <1>2, <1>7, <1>8 DEF InsertRow

(* persist_chain copies nodes of the table as they are. *)
LEMMA TakeEventMeanings ==
    ASSUME IInv, NEW w \in Watcher, TakeEvent(w)
    PROVE  Meanings'
<1>1. TypeOK /\ pc[w] = "idle"
  BY DEF IInv, TakeEvent
<1>2. UNCHANGED <<now, procs, holder, netlink, tree, rows>>
  BY DEF TakeEvent
<1>3. \A v \in Watcher : pc'[v] \in {"exit", "mark"} =>
         v # w /\ pc[v] \in {"exit", "mark"}
  BY <1>1 DEF TakeEvent, AfterChain, TypeOK, DaemonTypeOK
<1>4. CASE UNCHANGED chain
  BY <1>2, <1>3, <1>4, SameTime, OnlyRowsClosed
<1>5. CASE \E c \in Climbs(tree, Head(fanotify[w]).pid) :
              chain' = [chain EXCEPT ![w] = ChainOf(tree, c)]
  <2>1. PICK c \in Climbs(tree, Head(fanotify[w]).pid) :
                chain' = [chain EXCEPT ![w] = ChainOf(tree, c)]
    BY <1>5
  <2>2. Head(fanotify[w]).pid \in Pid
    BY <1>1, QueueReads DEF TakeEvent, Event
  <2>3. \A i \in 1 .. Len(ChainOf(tree, c)) :
           LET item == ChainOf(tree, c)[i]
           IN  /\ item.pid \in Pid /\ tree[item.pid] # None
               /\ item.node = tree[item.pid]
    BY <1>1, <2>2, ChainOfClimb DEF TypeOK, DaemonTypeOK
  <2>4. \A v \in Watcher \ {w} : chain'[v] = chain[v]
    BY <1>1, <2>1 DEF TypeOK, DaemonTypeOK
  <2>5. chain'[w] = ChainOf(tree, c)
    BY <1>1, <2>1 DEF TypeOK, DaemonTypeOK
  <2>6. \A v \in Watcher : \A i \in 1 .. Len(chain'[v]) :
           \/ v # w /\ i \in 1 .. Len(chain[v]) /\ chain'[v][i] = chain[v][i]
           \/ /\ chain'[v][i].pid \in Pid /\ tree[chain'[v][i].pid] # None
              /\ chain'[v][i].node = tree[chain'[v][i].pid]
    BY <2>3, <2>4, <2>5
  <2>7. LatestLives'
    <3>1. \A v \in Watcher : \A i \in 1 .. Len(chain'[v]) :
             IsLatest(chain'[v][i].node.inc, chain'[v][i].pid)
      BY <2>6 DEF IInv, Meanings, LatestLives
    <3>2. \A v \in Watcher : \A i \in 1 .. Len(chain'[v]) :
             IsLatest(chain[v][i].node.inc, chain[v][i].pid)'
      BY <1>2, <3>1, LatestSame
    <3> QED
      BY <1>2, <3>2, LatestSame DEF IInv, Meanings, LatestLives
  <2>8. KeysDiffer'
    <3>1. KeysDiffer
      BY DEF IInv, Meanings
    <3>2. ASSUME NEW v \in Watcher, NEW i \in 1 .. Len(chain'[v]), NEW r \in rows,
                 r.pid = chain'[v][i].pid, r.inc # chain'[v][i].node.inc
          PROVE  r.start < chain'[v][i].node.start
      <4>1. CASE v # w /\ i \in 1 .. Len(chain[v]) /\ chain'[v][i] = chain[v][i]
        BY <3>1, <3>2, <4>1 DEF KeysDiffer
      <4>2. CASE /\ chain'[v][i].pid \in Pid /\ tree[chain'[v][i].pid] # None
                 /\ chain'[v][i].node = tree[chain'[v][i].pid]
        BY <3>1, <3>2, <4>2 DEF KeysDiffer
      <4> QED
        BY <2>6, <4>1, <4>2
    <3> QED
      BY <1>2, <3>1, <3>2 DEF KeysDiffer
  <2>9. QueueOrdered'
    <3>1. ASSUME NEW i \in 1 .. Len(netlink), netlink[i].kind = "fork",
                 NEW v \in Watcher, NEW k \in 1 .. Len(chain'[v])
          PROVE  chain'[v][k].pid # netlink[i].pid
      <4>1. QueueOrdered
        BY DEF IInv, Meanings
      <4>2. CASE v # w /\ k \in 1 .. Len(chain[v]) /\ chain'[v][k] = chain[v][k]
        BY <3>1, <4>1, <4>2 DEF QueueOrdered
      <4>3. CASE tree[chain'[v][k].pid] # None
        BY <3>1, <4>1, <4>3 DEF QueueOrdered
      <4> QED
        BY <2>6, <4>2, <4>3
    <3> QED
      BY <1>2, <3>1 DEF IInv, Meanings, QueueOrdered
  <2>10. CopiesAgree'
    <3>1. CopiesAgree /\ \A p : LastHeard(p)' <=> LastHeard(p)
      BY <1>2 DEF IInv, Meanings, LastHeard
    <3>2. ASSUME NEW v \in Watcher, NEW i \in 1 .. Len(chain'[v])
          PROVE  LET item == chain'[v][i]
                 IN  IF tree[item.pid] = None THEN LastHeard(item.pid)
                     ELSE tree[item.pid].start = item.node.start
      <4>1. CASE v # w /\ i \in 1 .. Len(chain[v]) /\ chain'[v][i] = chain[v][i]
        BY <3>1, <4>1 DEF CopiesAgree
      <4>2. CASE /\ tree[chain'[v][i].pid] # None
                 /\ chain'[v][i].node = tree[chain'[v][i].pid]
        BY <4>2
      <4> QED
        BY <2>6, <4>1, <4>2
    <3> QED
      BY <1>2, <3>1, <3>2 DEF CopiesAgree
  <2>11. HeadStored'
    <3>1. HeadStored
      BY DEF IInv, Meanings
    <3>2. ASSUME NEW v \in Watcher, pc'[v] \in {"exit", "mark"}
          PROVE  pc[v] \in {"exit", "mark"} /\ chain'[v] = chain[v]
      BY <1>3, <2>4, <3>2
    <3> QED
      BY <1>2, <3>1, <3>2 DEF HeadStored, Keyed
  <2>12. PersistedMeansStored'
    BY <1>2 DEF IInv, Meanings, PersistedMeansStored
  <2> QED
    BY <2>7, <2>8, <2>9, <2>10, <2>11, <2>12 DEF Meanings
<1> QED
  BY <1>4, <1>5 DEF TakeEvent

-----------------------------------------------------------------------------
(* The connector: reading a message leaves the others in order. *)
LEMMA ReadsQueue ==
    ASSUME TypeOK, NEW kind, Receives(kind)
    PROVE  /\ Len(netlink) \in Nat /\ 1 \in 1 .. Len(netlink)
           /\ Head(netlink) = netlink[1] /\ netlink[1].kind = kind
           /\ Len(netlink') = Len(netlink) - 1
           /\ \A i \in 1 .. Len(netlink') :
                 i + 1 \in 1 .. Len(netlink) /\ netlink'[i] = netlink[i + 1]
  BY TailQueue DEF Receives

(* The table changed without a new node, in the terms of NothingNew. *)
LEMMA OnlyTable ==
    ASSUME IInv, UNCHANGED <<now, procs, holder, chain, rows, pc>>,
           NEW d \in {0, 1}, Len(netlink') = Len(netlink) - d,
           \A i \in 1 .. Len(netlink') : netlink'[i] = netlink[i + d],
           \A p \in Pid : tree'[p] = None => tree[p] = None \/ LastHeard(p),
           \A p \in Pid : tree'[p] # None =>
               /\ tree[p] # None
               /\ tree'[p].start = tree[p].start /\ tree'[p].inc = tree[p].inc
               /\ tree'[p].exited # None => tree[p].exited # None \/ LastHeard(p)'
               /\ tree'[p].persisted => tree[p].persisted
    PROVE  Meanings'
<1>1. /\ \A r \in rows : \E q \in rows' : q.pid = r.pid /\ q.start = r.start /\ q.inc = r.inc
      /\ \A q \in rows' : \E r \in rows : q.pid = r.pid /\ q.start = r.start /\ q.inc = r.inc
  OBVIOUS
<1>2. /\ \A w \in Watcher : \A i \in 1 .. Len(chain'[w]) :
            \E k \in 1 .. Len(chain[w]) : chain'[w][i] = chain[w][k]
      /\ \A w \in Watcher : pc'[w] \in {"exit", "mark"} =>
            pc[w] \in {"exit", "mark"} /\ chain'[w] = chain[w]
  OBVIOUS
<1> QED
  BY <1>1, <1>2, SameTime, NothingNew

(* Eviction forgets only what nothing more will be heard of. *)
LEMMA EvictMeanings == IInv /\ Evict => Meanings'
<1> SUFFICES ASSUME IInv, Evict PROVE Meanings'
  OBVIOUS
<1>1. tree \in Tables /\ now - Grace \in Int /\ Len(netlink) \in Nat
  BY GraceAssumption DEF IInv, TypeOK, KernelTypeOK, DaemonTypeOK
<1>2. \A p \in Pid : tree[p] # None /\ tree[p].exited # None => LastHeard(p)
  BY DEF IInv, Meanings, CopiesAgree
<1>3. \A p \in Pid : \/ tree'[p] = tree[p]
                     \/ tree'[p] = None /\ LastHeard(p)
  BY <1>1, <1>2, EvictStaleTable DEF Evict
<1>4. UNCHANGED <<now, procs, holder, netlink, chain, rows, pc>>
  BY DEF Evict, kernelVars, threadVars
<1>5. Len(netlink') = Len(netlink) - 0 /\ \A i \in 1 .. Len(netlink') : netlink'[i] = netlink[i + 0]
  BY <1>1, <1>4
<1> QED
  BY <1>3, <1>4, <1>5, OnlyTable

LEMMA RecvOverrunMeanings == IInv /\ RecvOverrun => Meanings'
<1> SUFFICES ASSUME IInv, RecvOverrun PROVE Meanings'
  OBVIOUS
<1>1. Len(netlink') = Len(netlink) - 1 /\ \A i \in 1 .. Len(netlink') : netlink'[i] = netlink[i + 1]
  BY ReadsQueue DEF RecvOverrun, IInv
<1>2. UNCHANGED <<now, procs, holder, tree, chain, rows, pc>>
  BY DEF RecvOverrun, threadVars
<1> QED
  BY <1>1, <1>2, OnlyTable

(* The exit is the last of a process: nothing more is heard of its pid.    *)
LEMMA RecvExitMeanings == IInv /\ RecvExit => Meanings'
<1> SUFFICES ASSUME IInv, RecvExit PROVE Meanings'
  OBVIOUS
<1>1. TypeOK /\ Receives("exit")
  BY DEF IInv, RecvExit
<1>2. PICK p \in Pid : p = Head(netlink).pid
  BY <1>1, HeadOfNetlink
<1>3. /\ Len(netlink) \in Nat /\ 1 \in 1 .. Len(netlink)
      /\ netlink[1].pid = p /\ netlink[1].kind = "exit"
      /\ Len(netlink') = Len(netlink) - 1
      /\ \A i \in 1 .. Len(netlink') : i + 1 \in 1 .. Len(netlink) /\ netlink'[i] = netlink[i + 1]
  BY <1>1, <1>2, ReadsQueue
<1>4. UNCHANGED <<now, procs, holder, chain, rows, pc>>
  BY DEF RecvExit, threadVars
<1>5. LastHeard(p)'
  <2>1. holder[p] = 0 /\ \A j \in 2 .. Len(netlink) : netlink[j].pid # p
    BY <1>3 DEF IInv, Meanings, QueueOrdered
  <2>2. \A i \in 1 .. Len(netlink') : i + 1 \in 2 .. Len(netlink)
    BY <1>3
  <2> QED
    BY <1>3, <1>4, <2>1, <2>2 DEF LastHeard
<1>6. tree \in Tables /\ now \in Nat /\ tree' = OnExit(tree, p, now)
  BY <1>1, <1>2 DEF RecvExit, TypeOK, KernelTypeOK, DaemonTypeOK
<1>7. ASSUME NEW x \in Pid, tree'[x] # None
      PROVE  /\ tree[x] # None
             /\ tree'[x].start = tree[x].start /\ tree'[x].inc = tree[x].inc
             /\ tree'[x].exited # None => tree[x].exited # None \/ LastHeard(x)'
             /\ tree'[x].persisted => tree[x].persisted
  <2>1. CASE x = p
    BY <1>5, <1>6, <1>7, <2>1, OnExitTable
  <2>2. CASE x # p
    BY <1>6, <1>7, <2>2, OnExitTable
  <2> QED
    BY <2>1, <2>2
<1>8. \A x \in Pid : tree'[x] = None => tree[x] = None \/ LastHeard(x)
  BY <1>6, OnExitTable
<1> QED
  BY <1>3, <1>4, <1>7, <1>8, OnlyTable

(* A new node, of the process the message read is about: rows of the pid   *)
(* that mean another life are of an earlier second.                        *)
LEMMA NewNodeMeanings ==
    ASSUME IInv, UNCHANGED <<now, procs, holder, chain, rows, pc>>,
           NEW kind \in {"fork", "exec"}, Receives(kind),
           NEW p \in Pid, NEW n, p = Head(netlink).pid, n = Head(netlink).inc,
           NEW ppid, NEW info,
           tree'[p] = NewNode(ppid, info, now, n),
           \A x \in Pid \ {p} : tree'[x] = tree[x],
           \A w \in Watcher : \A i \in 1 .. Len(chain[w]) : chain[w][i].pid # p
    PROVE  Meanings'
<1>1. TypeOK
  BY DEF IInv
<1>2. /\ Len(netlink) \in Nat /\ 1 \in 1 .. Len(netlink)
      /\ netlink[1].pid = p /\ netlink[1].kind = kind /\ netlink[1].inc = n
      /\ Len(netlink') = Len(netlink) - 1
      /\ \A i \in 1 .. Len(netlink') : i + 1 \in 1 .. Len(netlink) /\ netlink'[i] = netlink[i + 1]
  BY <1>1, ReadsQueue
<1>3. IsLatest(n, p)
  <2>1. netlink[1] # Overrun
    BY <1>1, <1>2, MessageType
  <2> QED
    BY <1>2, <2>1 DEF IInv, Meanings, LatestLives
<1>4. /\ tree'[p].start = now /\ tree'[p].inc = n
      /\ tree'[p].exited = None /\ tree'[p].persisted = FALSE
  BY DEF NewNode
<1>5. \A x : LastHeard(x) => LastHeard(x)'
  BY <1>2 DEF LastHeard
<1>6. LatestLives'
  <2>1. \A x \in Pid : tree'[x] # None => IsLatest(tree[x].inc, x)'
    <3>1. \A x \in Pid : tree'[x] # None => IsLatest(tree'[x].inc, x)
      BY <1>3, <1>4 DEF IInv, Meanings, LatestLives
    <3> QED
      BY <3>1, LatestSame
  <2>2. \A i \in 1 .. Len(netlink') :
           netlink'[i] # Overrun => IsLatest(netlink[i].inc, netlink[i].pid)'
    BY <1>2, LatestSame DEF IInv, Meanings, LatestLives
  <2>3. /\ \A x \in Pid : holder'[x] # 0 => IsLatest(holder[x], x)'
        /\ \A r \in rows' : IsLatest(r.inc, r.pid)' \/ r.start < now'
    BY LatestSame DEF IInv, Meanings, LatestLives
  <2>4. \A w \in Watcher : \A i \in 1 .. Len(chain'[w]) :
           IsLatest(chain[w][i].node.inc, chain[w][i].pid)'
    BY LatestSame DEF IInv, Meanings, LatestLives
  <2> QED
    BY <2>1, <2>2, <2>3, <2>4 DEF LatestLives
<1>7. KeysDiffer'
  <2>1. ASSUME NEW r \in rows, r.pid = p, r.inc # n
        PROVE  r.start < now
    BY <1>1, <1>3, <2>1, LatestUnique DEF IInv, Meanings, LatestLives
  <2>2. ASSUME NEW x \in Pid, tree'[x] # None,
               NEW r \in rows, r.pid = x, r.inc # tree'[x].inc
        PROVE  r.start < tree'[x].start
    BY <1>4, <2>1, <2>2 DEF IInv, Meanings, KeysDiffer
  <2> QED
    BY <2>2 DEF IInv, Meanings, KeysDiffer
<1>8. QueueOrdered'
  <2>1. ASSUME NEW i \in 1 .. Len(netlink'), netlink'[i].kind = "fork"
        PROVE  /\ tree'[netlink'[i].pid] = None
               /\ \A w \in Watcher : \A k \in 1 .. Len(chain'[w]) :
                     chain'[w][k].pid # netlink'[i].pid
               /\ \A j \in 1 .. i - 1 : netlink'[j].pid # netlink'[i].pid
    <3>1. PICK k \in 2 .. Len(netlink) : k = i + 1 /\ netlink'[i] = netlink[k]
      BY <1>2
    <3>2. k \in 1 .. Len(netlink) /\ 1 \in 1 .. k - 1
      BY <3>1
    <3>3. /\ tree[netlink[k].pid] = None
          /\ \A w \in Watcher : \A l \in 1 .. Len(chain[w]) : chain[w][l].pid # netlink[k].pid
          /\ \A j \in 1 .. k - 1 : netlink[j].pid # netlink[k].pid
      BY <2>1, <3>1, <3>2 DEF IInv, Meanings, QueueOrdered
    <3>4. netlink[k].pid \in Pid /\ netlink[k].pid # p
      BY <1>1, <1>2, <2>1, <3>1, <3>2, <3>3, MessageType
    <3>5. ASSUME NEW j \in 1 .. i - 1 PROVE netlink'[j].pid # netlink'[i].pid
      <4>1. j \in 1 .. Len(netlink') /\ j + 1 \in 1 .. k - 1
        BY <1>2, <3>1
      <4> QED
        BY <1>2, <3>1, <3>3, <4>1
    <3> QED
      BY <3>1, <3>3, <3>4, <3>5
  <2>2. ASSUME NEW i \in 1 .. Len(netlink'), netlink'[i].kind = "exit"
        PROVE  /\ holder'[netlink'[i].pid] = 0
               /\ \A j \in i + 1 .. Len(netlink') : netlink'[j].pid # netlink'[i].pid
    <3>1. PICK k \in 1 .. Len(netlink) : k = i + 1 /\ netlink'[i] = netlink[k]
      BY <1>2
    <3>2. /\ holder[netlink[k].pid] = 0
          /\ \A j \in k + 1 .. Len(netlink) : netlink[j].pid # netlink[k].pid
      BY <2>2, <3>1 DEF IInv, Meanings, QueueOrdered
    <3>3. ASSUME NEW j \in i + 1 .. Len(netlink') PROVE netlink'[j].pid # netlink'[i].pid
      <4>1. j \in 1 .. Len(netlink') /\ j + 1 \in k + 1 .. Len(netlink)
        BY <1>2, <3>1
      <4> QED
        BY <1>2, <3>1, <3>2, <4>1
    <3> QED
      BY <3>1, <3>2, <3>3
  <2> QED
    BY <2>1, <2>2 DEF QueueOrdered
<1>9. CopiesAgree'
  <2>1. \A x \in Pid : tree'[x] # None /\ tree'[x].exited # None => LastHeard(x)'
    BY <1>4, <1>5 DEF IInv, Meanings, CopiesAgree
  <2>2. ASSUME NEW w \in Watcher, NEW i \in 1 .. Len(chain[w])
        PROVE  IF tree'[chain[w][i].pid] = None THEN LastHeard(chain[w][i].pid)'
               ELSE tree'[chain[w][i].pid].start = chain[w][i].node.start
    <3>1. chain[w][i].pid \in Pid \ {p}
      BY <1>1, LinkType
    <3> QED
      BY <1>5, <3>1 DEF IInv, Meanings, CopiesAgree
  <2> QED
    BY <2>1, <2>2 DEF CopiesAgree
<1>10. HeadStored'
  BY DEF IInv, Meanings, HeadStored
<1>11. PersistedMeansStored'
  BY <1>4 DEF IInv, Meanings, PersistedMeansStored
<1> QED
  BY <1>6, <1>7, <1>8, <1>9, <1>10, <1>11 DEF Meanings

LEMMA RecvForkMeanings == IInv /\ RecvFork => Meanings'
<1> SUFFICES ASSUME IInv, RecvFork PROVE Meanings'
  OBVIOUS
<1>1. TypeOK /\ Receives("fork")
  BY DEF IInv, RecvFork
<1>2. PICK p \in Pid, q \in Option(Pid), n \in Nat :
         p = Head(netlink).pid /\ q = Head(netlink).parent /\ n = Head(netlink).inc
  BY <1>1, HeadOfNetlink
<1>3. tree' = OnFork(tree, q, p, now, n) /\ tree \in Tables /\ now \in Nat
  BY <1>1, <1>2 DEF RecvFork, TypeOK, KernelTypeOK, DaemonTypeOK
<1>4. tree'[p] = NewNode(q, None, now, n) /\ \A x \in Pid \ {p} : tree'[x] = tree[x]
  BY <1>3, OnForkTable
<1>5. \A w \in Watcher : \A i \in 1 .. Len(chain[w]) : chain[w][i].pid # p
  <2>1. 1 \in 1 .. Len(netlink) /\ netlink[1].kind = "fork" /\ netlink[1].pid = p
    BY <1>1, <1>2, ReadsQueue
  <2> QED
    BY <2>1 DEF IInv, Meanings, QueueOrdered
<1>6. UNCHANGED <<now, procs, holder, chain, rows, pc>>
  BY DEF RecvFork, threadVars
<1> QED
  BY <1>1, <1>2, <1>4, <1>5, <1>6, NewNodeMeanings

(* An exec changes the image of a node, or inserts a node that no link was *)
(* copied from, for a link whose node is gone is of a pid heard of no more.*)
LEMMA RecvExecMeanings == IInv /\ RecvExec => Meanings'
<1> SUFFICES ASSUME IInv, RecvExec PROVE Meanings'
  OBVIOUS
<1>1. TypeOK /\ Receives("exec")
  BY DEF IInv, RecvExec
<1>2. PICK p \in Pid, n \in Nat : p = Head(netlink).pid /\ n = Head(netlink).inc
  BY <1>1, HeadOfNetlink
<1>3. PICK im \in Option(Image), q \in Option(Pid) : im = ProcImage(p) /\ q = ProcParent(p)
  BY <1>1, ProcReads
<1>4. tree' = OnExec(tree, p, im, q, now, n) /\ tree \in Tables /\ now \in Nat
  BY <1>1, <1>2, <1>3 DEF RecvExec, TypeOK, KernelTypeOK, DaemonTypeOK
<1>5. /\ \A x \in Pid \ {p} : tree'[x] = tree[x]
      /\ tree[p] = None => tree'[p] = NewNode(q, im, now, n)
      /\ tree[p] # None => /\ tree'[p] # None
                           /\ tree'[p].start = tree[p].start
                           /\ tree'[p].inc = tree[p].inc
                           /\ tree'[p].exited = tree[p].exited
                           /\ tree'[p].persisted = tree[p].persisted
  BY <1>4, OnExecTable
<1>6. UNCHANGED <<now, procs, holder, chain, rows, pc>>
  BY DEF RecvExec, threadVars
<1>7. /\ 1 \in 1 .. Len(netlink) /\ netlink[1].pid = p
      /\ Len(netlink') = Len(netlink) - 1
      /\ \A i \in 1 .. Len(netlink') : netlink'[i] = netlink[i + 1]
  BY <1>1, <1>2, ReadsQueue
<1>8. CASE tree[p] # None
  <2>1. /\ \A x \in Pid : tree'[x] = None => tree[x] = None \/ LastHeard(x)
        /\ \A x \in Pid : tree'[x] # None =>
              /\ tree[x] # None
              /\ tree'[x].start = tree[x].start /\ tree'[x].inc = tree[x].inc
              /\ tree'[x].exited # None => tree[x].exited # None \/ LastHeard(x)'
              /\ tree'[x].persisted => tree[x].persisted
    BY <1>5, <1>8
  <2> QED
    BY <1>6, <1>7, <2>1, OnlyTable
<1>9. CASE tree[p] = None
  <2>1. \A w \in Watcher : \A i \in 1 .. Len(chain[w]) : chain[w][i].pid # p
    BY <1>7, <1>9 DEF IInv, Meanings, CopiesAgree, LastHeard
  <2> QED
    BY <1>1, <1>2, <1>5, <1>6, <1>9, <2>1, NewNodeMeanings
<1> QED
  BY <1>8, <1>9

-----------------------------------------------------------------------------
(* main() and the death of the daemon. *)
LEMMA BootMeanings == IInv /\ Boot => Meanings'
<1> SUFFICES ASSUME IInv, Boot PROVE Meanings'
  OBVIOUS
<1>1. TypeOK /\ netlink = <<>> /\ \A w \in Watcher : pc[w] = "off" /\ chain[w] = <<>>
  BY DEF IInv, DownIsEmpty, Boot
<1>2. UNCHANGED <<now, procs, holder, netlink, chain, rows, pc>>
  BY DEF Boot, threadVars
<1>3. \A p \in Pid : tree'[p] # None =>
         /\ holder[p] # 0 /\ tree'[p].inc = holder[p] /\ tree'[p].start = now
         /\ tree'[p].exited = None /\ tree'[p].persisted = FALSE
  BY BootNodes
<1>4. \A p \in Pid : holder[p] # 0 => IsLatest(holder[p], p)
  BY DEF IInv, Meanings, LatestLives
<1>5. LatestLives'
  <2>1. \A p \in Pid : tree'[p] # None => IsLatest(tree'[p].inc, p)
    BY <1>3, <1>4
  <2>2. \A p \in Pid : tree'[p] # None => IsLatest(tree[p].inc, p)'
    BY <1>2, <2>1, LatestSame
  <2> QED
    BY <1>2, <2>2, LatestSame DEF IInv, Meanings, LatestLives
<1>6. KeysDiffer'
  <2>1. ASSUME NEW p \in Pid, tree'[p] # None, NEW r \in rows, r.pid = p, r.inc # tree'[p].inc
        PROVE  r.start < tree'[p].start
    <3>1. IsLatest(r.inc, p) \/ r.start < now
      BY <2>1 DEF IInv, Meanings, LatestLives
    <3> QED
      BY <1>1, <1>3, <1>4, <2>1, <3>1, LatestUnique
  <2>2. \A w \in Watcher : Len(chain[w]) = 0
    BY <1>1
  <2> QED
    BY <1>2, <2>1, <2>2 DEF KeysDiffer
<1>7. QueueOrdered'
  <2>1. Len(netlink) = 0
    BY <1>1
  <2> QED
    BY <1>2, <2>1 DEF QueueOrdered
<1>8. CopiesAgree'
  <2>1. \A w \in Watcher : Len(chain[w]) = 0
    BY <1>1
  <2> QED
    BY <1>2, <1>3, <2>1 DEF CopiesAgree
<1>9. HeadStored' /\ PersistedMeansStored'
  BY <1>1, <1>2, <1>3 DEF HeadStored, PersistedMeansStored
<1> QED
  BY <1>5, <1>6, <1>7, <1>8, <1>9 DEF Meanings

LEMMA CrashMeanings == IInv /\ Crash => Meanings'
<1> SUFFICES ASSUME IInv, Crash PROVE Meanings'
  OBVIOUS
<1>1. /\ UNCHANGED <<now, procs, holder, rows>>
      /\ Len(netlink') = 0
      /\ \A p \in Pid : tree'[p] = None
      /\ \A w \in Watcher : pc'[w] = "off" /\ Len(chain'[w]) = 0
  BY DEF Crash, EmptyTable
<1>2. LatestLives'
  BY <1>1, LatestSame DEF IInv, Meanings, LatestLives
<1>3. KeysDiffer' /\ QueueOrdered' /\ CopiesAgree'
  BY <1>1 DEF KeysDiffer, QueueOrdered, CopiesAgree
<1>4. HeadStored' /\ PersistedMeansStored'
  BY <1>1 DEF HeadStored, PersistedMeansStored
<1> QED
  BY <1>2, <1>3, <1>4 DEF Meanings

-----------------------------------------------------------------------------
(* The machine.  An exec or an exit is reported after all that was ever    *)
(* reported of the process, and it is alive until then.                    *)
LEMMA LivesOn ==
    ASSUME IInv, UNCHANGED <<now, daemonVars>>,
           NEW p \in Pid, holder[p] # 0,
           NEW kind \in {"exec", "exit"}, NEW m, m = Msg(kind, p, None, holder[p]), Emit(m),
           \A i, x : IsLatest(i, x)' <=> IsLatest(i, x),
           \A x \in Pid \ {p} : holder'[x] = holder[x],
           holder'[p] \in {0, holder[p]},
           kind = "exit" => holder'[p] = 0
    PROVE  Meanings'
<1>1. TypeOK /\ Len(netlink) \in Nat
  BY DEF IInv, TypeOK, KernelTypeOK
<1>2. UNCHANGED <<tree, rows, pc, chain>>
  BY DEF daemonVars, threadVars
<1>3. m.pid = p /\ m.inc = holder[p] /\ m.kind = kind
  BY DEF Msg
<1>4. Overrun.pid = None /\ Overrun.kind = "overrun" /\ None \notin Pid
  BY PidAssumption DEF Overrun, Msg
<1>5. \A i \in 1 .. Len(netlink') :
         \/ netlink'[i] = Overrun
         \/ i \in 1 .. Len(netlink) /\ netlink'[i] = netlink[i]
         \/ netlink'[i] = m /\ i = Len(netlink) + 1 /\ Len(netlink') = Len(netlink) + 1
  BY <1>1, EmitQueue
<1>6. \A x \in Pid : LastHeard(x) => LastHeard(x)'
  BY <1>3, <1>4, <1>5 DEF LastHeard
<1>7. LatestLives'
  <2>1. \A x \in Pid : holder'[x] # 0 => IsLatest(holder[x], x)'
    BY DEF IInv, Meanings, LatestLives
  <2>2. \A i \in 1 .. Len(netlink') :
           netlink'[i] # Overrun => IsLatest(netlink[i].inc, netlink[i].pid)'
    <3>1. IsLatest(m.inc, m.pid)
      BY <1>3 DEF IInv, Meanings, LatestLives
    <3>2. \A i \in 1 .. Len(netlink') :
             netlink'[i] # Overrun => IsLatest(netlink'[i].inc, netlink'[i].pid)
      BY <1>5, <3>1 DEF IInv, Meanings, LatestLives
    <3> QED
      BY <3>2
  <2>3. /\ \A x \in Pid : tree'[x] # None => IsLatest(tree[x].inc, x)'
        /\ \A r \in rows' : IsLatest(r.inc, r.pid)' \/ r.start < now'
    BY <1>2 DEF IInv, Meanings, LatestLives
  <2>4. \A w \in Watcher : \A i \in 1 .. Len(chain'[w]) :
           IsLatest(chain[w][i].node.inc, chain[w][i].pid)'
    BY <1>2 DEF IInv, Meanings, LatestLives
  <2> QED
    BY <2>1, <2>2, <2>3, <2>4 DEF LatestLives
<1>8. KeysDiffer' /\ HeadStored' /\ PersistedMeansStored'
  BY <1>2 DEF IInv, Meanings, KeysDiffer, HeadStored, PersistedMeansStored
<1>9. QueueOrdered'
  <2>1. ASSUME NEW i \in 1 .. Len(netlink'), netlink'[i].kind = "fork"
        PROVE  /\ tree'[netlink'[i].pid] = None
               /\ \A w \in Watcher : \A k \in 1 .. Len(chain'[w]) :
                     chain'[w][k].pid # netlink'[i].pid
               /\ \A j \in 1 .. i - 1 : netlink'[j].pid # netlink'[i].pid
    <3>1. i \in 1 .. Len(netlink) /\ netlink'[i] = netlink[i]
      BY <1>3, <1>4, <1>5, <2>1
    <3>2. netlink[i].pid \in Pid
      BY <1>1, <2>1, <3>1, MessageType
    <3>3. /\ tree[netlink[i].pid] = None
          /\ \A w \in Watcher : \A k \in 1 .. Len(chain[w]) : chain[w][k].pid # netlink[i].pid
          /\ \A j \in 1 .. i - 1 : netlink[j].pid # netlink[i].pid
      BY <2>1, <3>1 DEF IInv, Meanings, QueueOrdered
    <3>4. ASSUME NEW j \in 1 .. i - 1 PROVE netlink'[j].pid # netlink'[i].pid
      <4>1. j \in 1 .. Len(netlink') /\ j # Len(netlink) + 1
        BY <1>1, <3>1
      <4> QED
        BY <1>4, <1>5, <3>1, <3>2, <3>3, <4>1
    <3> QED
      BY <1>2, <3>1, <3>3, <3>4
  <2>2. ASSUME NEW i \in 1 .. Len(netlink'), netlink'[i].kind = "exit"
        PROVE  /\ holder'[netlink'[i].pid] = 0
               /\ \A j \in i + 1 .. Len(netlink') : netlink'[j].pid # netlink'[i].pid
    <3>1. CASE i \in 1 .. Len(netlink) /\ netlink'[i] = netlink[i]
      <4>1. netlink[i].pid \in Pid
        BY <1>1, <2>2, <3>1, MessageType
      <4>2. /\ holder[netlink[i].pid] = 0
            /\ \A j \in i + 1 .. Len(netlink) : netlink[j].pid # netlink[i].pid
        BY <2>2, <3>1 DEF IInv, Meanings, QueueOrdered
      <4>3. netlink[i].pid # p /\ holder'[netlink[i].pid] = 0
        BY <4>1, <4>2
      <4>4. ASSUME NEW j \in i + 1 .. Len(netlink') PROVE netlink'[j].pid # netlink'[i].pid
        <5>1. j \in 1 .. Len(netlink') /\ (j \in 1 .. Len(netlink) => j \in i + 1 .. Len(netlink))
          BY <1>1, <3>1
        <5> QED
          BY <1>3, <1>4, <1>5, <3>1, <4>1, <4>2, <4>3, <5>1
      <4> QED
        BY <3>1, <4>3, <4>4
    <3>2. CASE netlink'[i] = m /\ i = Len(netlink) + 1 /\ Len(netlink') = Len(netlink) + 1
      BY <1>1, <1>3, <2>2, <3>2
    <3> QED
      BY <1>4, <1>5, <2>2, <3>1, <3>2
  <2> QED
    BY <2>1, <2>2 DEF QueueOrdered
<1>10. CopiesAgree'
  <2>1. \A x \in Pid : tree'[x] # None /\ tree'[x].exited # None => LastHeard(x)'
    BY <1>2, <1>6 DEF IInv, Meanings, CopiesAgree
  <2>2. ASSUME NEW w \in Watcher, NEW i \in 1 .. Len(chain[w])
        PROVE  IF tree[chain[w][i].pid] = None THEN LastHeard(chain[w][i].pid)'
               ELSE tree[chain[w][i].pid].start = chain[w][i].node.start
    <3>1. chain[w][i].pid \in Pid
      BY <1>1, LinkType
    <3>2. LastHeard(chain[w][i].pid) => LastHeard(chain[w][i].pid)'
      BY <1>2, <1>6, <3>1
    <3> QED
      BY <3>2 DEF IInv, Meanings, CopiesAgree
  <2> QED
    BY <1>2, <2>1, <2>2 DEF CopiesAgree
<1> QED
  BY <1>7, <1>8, <1>9, <1>10 DEF Meanings

LEMMA ExecMeanings ==
    ASSUME IInv, NEW p \in Pid, NEW im \in Image, Exec(p, im), UNCHANGED daemonVars
    PROVE  Meanings'
<1>1. TypeOK
  BY DEF IInv
<1>2. \A i, x : IsLatest(i, x)' <=> IsLatest(i, x)
  BY <1>1, LatestExec
<1>3. PICK m : m = Msg("exec", p, None, holder[p])
  OBVIOUS
<1>4. Emit(m) /\ holder[p] # 0 /\ UNCHANGED <<now, holder>>
  BY <1>3 DEF Exec
<1> QED
  BY <1>2, <1>3, <1>4, LivesOn

LEMMA ExitMeanings ==
    ASSUME IInv, NEW p \in Pid, Exit(p), UNCHANGED daemonVars
    PROVE  Meanings'
<1>1. \A i, x : IsLatest(i, x)' <=> IsLatest(i, x)
  BY LatestSame DEF Exit
<1>2. PICK m : m = Msg("exit", p, None, holder[p])
  OBVIOUS
<1>3. Emit(m) /\ holder[p] # 0 /\ UNCHANGED now
  BY <1>2 DEF Exit
<1>4. holder'[p] = 0 /\ \A x \in Pid \ {p} : holder'[x] = holder[x]
  BY DEF Exit, IInv, TypeOK, KernelTypeOK
<1> QED
  BY <1>1, <1>2, <1>3, <1>4, LivesOn

(* A pid is handed out when nothing of its last life is left but rows of   *)
(* an earlier second: all that names it from now on means the new one.     *)
LEMMA ForkMeanings ==
    ASSUME IInv, QuickReuse = FALSE, NEW q \in Pid, NEW p \in Pid,
           Settled(p), Fork(q, p), UNCHANGED daemonVars
    PROVE  Meanings'
<1>1. TypeOK /\ Len(netlink) \in Nat
  BY DEF IInv, TypeOK, KernelTypeOK
<1>2. UNCHANGED <<tree, rows, pc, chain, now>>
  BY DEF Fork, daemonVars, threadVars
<1>3. PICK n, m : n = Len(procs) + 1 /\ m = Msg("fork", p, q, n)
  OBVIOUS
<1>4. m.pid = p /\ m.inc = n /\ m.kind = "fork" /\ Emit(m)
  BY <1>3 DEF Msg, Fork
<1>5. Overrun.pid = None /\ Overrun.kind = "overrun" /\ None \notin Pid
  BY PidAssumption DEF Overrun, Msg
<1>6. \A i \in 1 .. Len(netlink') :
         \/ netlink'[i] = Overrun
         \/ i \in 1 .. Len(netlink) /\ netlink'[i] = netlink[i]
         \/ /\ netlink'[i] = m /\ i = Len(netlink) + 1 /\ Len(netlink') = Len(netlink) + 1
            /\ \A j \in 1 .. Len(netlink) : netlink'[j] = netlink[j]
  BY <1>1, <1>4, EmitQueue
<1>7. IsLatest(n, p)' /\ \A i, x : x # p /\ IsLatest(i, x) => IsLatest(i, x)'
  BY <1>1, <1>3, LatestFork
<1>8. /\ tree[p] = None
      /\ \A w \in Watcher : \A i \in 1 .. Len(chain[w]) : chain[w][i].pid # p
  BY DEF Settled, Remembered
<1>9. \A i \in 1 .. Len(netlink) : netlink[i].pid # p
  BY DEF Settled, Unread
<1>10. \A r \in rows : r.pid = p => r.start < now
  BY DEF Settled
<1>11. holder'[p] = n /\ \A x \in Pid \ {p} : holder'[x] = holder[x]
  BY <1>1, <1>3 DEF Fork, TypeOK, KernelTypeOK
<1>12. \A x \in Pid \ {p} : LastHeard(x) => LastHeard(x)'
  BY <1>4, <1>5, <1>6, <1>11 DEF LastHeard
<1>13. LatestLives'
  <2>1. \A x \in Pid : holder'[x] # 0 => IsLatest(holder[x], x)'
    <3>1. SUFFICES ASSUME NEW x \in Pid, NEW h, h = holder'[x], h # 0
                   PROVE  IsLatest(h, x)'
      OBVIOUS
    <3> QED
      BY <1>7, <1>11, <3>1 DEF IInv, Meanings, LatestLives
  <2>2. \A i \in 1 .. Len(netlink') :
           netlink'[i] # Overrun => IsLatest(netlink[i].inc, netlink[i].pid)'
    <3>1. SUFFICES ASSUME NEW i \in 1 .. Len(netlink'), netlink'[i] # Overrun,
                          NEW y, y = netlink'[i]
                   PROVE  IsLatest(y.inc, y.pid)'
      OBVIOUS
    <3>2. CASE i \in 1 .. Len(netlink) /\ y = netlink[i]
      BY <1>7, <1>9, <3>1, <3>2 DEF IInv, Meanings, LatestLives
    <3>3. CASE y = m
      BY <1>4, <1>7, <3>3
    <3> QED
      BY <1>6, <3>1, <3>2, <3>3
  <2>3. \A x \in Pid : tree'[x] # None => IsLatest(tree[x].inc, x)'
    BY <1>2, <1>7, <1>8 DEF IInv, Meanings, LatestLives
  <2>4. \A w \in Watcher : \A i \in 1 .. Len(chain'[w]) :
           IsLatest(chain[w][i].node.inc, chain[w][i].pid)'
    BY <1>2, <1>7, <1>8 DEF IInv, Meanings, LatestLives
  <2>5. \A r \in rows' : IsLatest(r.inc, r.pid)' \/ r.start < now'
    BY <1>2, <1>7, <1>10 DEF IInv, Meanings, LatestLives
  <2> QED
    BY <2>1, <2>2, <2>3, <2>4, <2>5 DEF LatestLives
<1>14. KeysDiffer' /\ HeadStored' /\ PersistedMeansStored'
  BY <1>2 DEF IInv, Meanings, KeysDiffer, HeadStored, PersistedMeansStored
<1>15. QueueOrdered'
  <2>1. ASSUME NEW i \in 1 .. Len(netlink'), netlink'[i].kind = "fork"
        PROVE  /\ tree'[netlink'[i].pid] = None
               /\ \A w \in Watcher : \A k \in 1 .. Len(chain'[w]) :
                     chain'[w][k].pid # netlink'[i].pid
               /\ \A j \in 1 .. i - 1 : netlink'[j].pid # netlink'[i].pid
    <3>1. CASE i \in 1 .. Len(netlink) /\ netlink'[i] = netlink[i]
      <4>1. netlink[i].pid \in Pid
        BY <1>1, <2>1, <3>1, MessageType
      <4>2. /\ tree[netlink[i].pid] = None
            /\ \A w \in Watcher : \A k \in 1 .. Len(chain[w]) : chain[w][k].pid # netlink[i].pid
            /\ \A j \in 1 .. i - 1 : netlink[j].pid # netlink[i].pid
        BY <2>1, <3>1 DEF IInv, Meanings, QueueOrdered
      <4>3. ASSUME NEW j \in 1 .. i - 1 PROVE netlink'[j].pid # netlink'[i].pid
        <5>1. j \in 1 .. Len(netlink') /\ j # Len(netlink) + 1
          BY <1>1, <3>1
        <5> QED
          BY <1>5, <1>6, <3>1, <4>1, <4>2, <5>1
      <4> QED
        BY <1>2, <3>1, <4>2, <4>3
    <3>2. CASE /\ netlink'[i] = m /\ i = Len(netlink) + 1
               /\ \A j \in 1 .. Len(netlink) : netlink'[j] = netlink[j]
      <4>1. \A j \in 1 .. i - 1 : j \in 1 .. Len(netlink)
        BY <1>1, <3>2
      <4> QED
        BY <1>2, <1>4, <1>8, <1>9, <3>2, <4>1
    <3> QED
      BY <1>5, <1>6, <2>1, <3>1, <3>2
  <2>2. ASSUME NEW i \in 1 .. Len(netlink'), netlink'[i].kind = "exit"
        PROVE  /\ holder'[netlink'[i].pid] = 0
               /\ \A j \in i + 1 .. Len(netlink') : netlink'[j].pid # netlink'[i].pid
    <3>1. i \in 1 .. Len(netlink) /\ netlink'[i] = netlink[i]
      BY <1>4, <1>5, <1>6, <2>2
    <3>2. netlink[i].pid \in Pid \ {p}
      BY <1>1, <1>9, <2>2, <3>1, MessageType
    <3>3. /\ holder[netlink[i].pid] = 0
          /\ \A j \in i + 1 .. Len(netlink) : netlink[j].pid # netlink[i].pid
      BY <2>2, <3>1 DEF IInv, Meanings, QueueOrdered
    <3>4. ASSUME NEW j \in i + 1 .. Len(netlink') PROVE netlink'[j].pid # netlink'[i].pid
      <4>1. j \in 1 .. Len(netlink') /\ (j \in 1 .. Len(netlink) => j \in i + 1 .. Len(netlink))
        BY <1>1, <3>1
      <4> QED
        BY <1>4, <1>5, <1>6, <3>1, <3>2, <3>3, <4>1
    <3> QED
      BY <1>11, <3>1, <3>2, <3>3, <3>4
  <2> QED
    BY <2>1, <2>2 DEF QueueOrdered
<1>16. CopiesAgree'
  <2>1. \A x \in Pid : tree'[x] # None /\ tree'[x].exited # None => LastHeard(x)'
    BY <1>2, <1>8, <1>12 DEF IInv, Meanings, CopiesAgree
  <2>2. ASSUME NEW w \in Watcher, NEW i \in 1 .. Len(chain[w])
        PROVE  IF tree[chain[w][i].pid] = None THEN LastHeard(chain[w][i].pid)'
               ELSE tree[chain[w][i].pid].start = chain[w][i].node.start
    <3>1. chain[w][i].pid \in Pid \ {p}
      BY <1>1, <1>8, LinkType
    <3>2. LastHeard(chain[w][i].pid) => LastHeard(chain[w][i].pid)'
      BY <1>2, <1>12, <3>1
    <3> QED
      BY <3>2 DEF IInv, Meanings, CopiesAgree
  <2> QED
    BY <1>2, <2>1, <2>2 DEF CopiesAgree
<1> QED
  BY <1>13, <1>14, <1>15, <1>16 DEF Meanings

-----------------------------------------------------------------------------
(* Nothing goes on while the daemon is down. *)
LEMMA DownStays == TypeOK /\ DownIsEmpty /\ [Next]_vars => DownIsEmpty'
<1> SUFFICES ASSUME TypeOK, DownIsEmpty, [Next]_vars PROVE DownIsEmpty'
  OBVIOUS
<1>1. TypeOK /\ DownIsEmpty
  OBVIOUS
<1>2. CASE UNCHANGED vars
  BY <1>1, <1>2 DEF DownIsEmpty, vars, kernelVars, daemonVars, threadVars
<1>3. CASE Machine
  <2>1. UNCHANGED <<up, connector, pc, chain>>
    BY <1>3 DEF Machine, daemonVars, threadVars
  <2>2. ~subscribed => UNCHANGED <<subscribed, netlink>>
    BY <1>3 DEF Machine, Fork, Exec, Exit, Write, Tick, Emit
  <2> QED
    BY <1>1, <2>1, <2>2 DEF DownIsEmpty
<1>4. CASE Boot
  BY <1>4 DEF Boot, DownIsEmpty
<1>5. CASE Crash
  BY <1>5 DEF Crash, DownIsEmpty
<1>6. CASE \E w \in Watcher : WatcherStep(w) \/ ReadError(w) \/ DropEvent(w)
  <2>1. PICK w \in Watcher : WatcherStep(w) \/ ReadError(w) \/ DropEvent(w)
    BY <1>6
  <2>2. up /\ up' = up
    BY <1>1, <2>1 DEF DownIsEmpty, WatcherStep, ReadError, DropEvent, Watch, IgnoreOwn, TakeEvent, InsertRow,
       WriteExit, Mark, Stamp, RecordEvent, AppendLog, daemonVars
  <2> QED
    BY <2>2 DEF DownIsEmpty
<1>7. CASE ConnectorStep
  <2>1. up /\ up' = up
    BY <1>1, <1>7 DEF DownIsEmpty, ConnectorStep, Listen, RecvFork, RecvExec, RecvExit, CloseRow,
       RecvOverrun, Receives
  <2> QED
    BY <2>1 DEF DownIsEmpty
<1>8. CASE Evict
  BY <1>8 DEF Evict, DownIsEmpty
<1> QED
  BY <1>2, <1>3, <1>4, <1>5, <1>6, <1>7, <1>8 DEF Next

LEMMA MachineMeanings == IInv /\ QuickReuse = FALSE /\ Machine => Meanings'
  BY ForkMeanings, ExecMeanings, ExitMeanings, WriteMeanings, TickMeanings DEF Machine

LEMMA StutterMeanings == IInv /\ UNCHANGED vars => Meanings'
  BY SameTime, OnlyRowsClosed DEF vars, kernelVars, daemonVars, threadVars

LEMMA InitIInv == Init => IInv
<1> SUFFICES ASSUME Init PROVE IInv
  OBVIOUS
<1>1. TypeOK
  BY InitType
<1>2. DownIsEmpty
  BY DEF Init, KernelInit, DownIsEmpty
<1>3. PICK im \in Image : procs = <<[pid |-> InitPid, parent |-> 0, image |-> im]>>
  BY DEF Init, KernelInit
<1>4. Len(procs) = 1 /\ procs[1].pid = InitPid
  BY <1>3
<1>5. \A p \in Pid : holder[p] # 0 => holder[p] = 1 /\ p = InitPid
  BY DEF Init, KernelInit
<1>6. \A p \in Pid : tree[p] = None
  BY DEF Init, EmptyTable
<1>7. rows = {} /\ Len(netlink) = 0 /\ \A w \in Watcher : Len(chain[w]) = 0 /\ pc[w] = "off"
  BY DEF Init, KernelInit
<1>8. LatestLives
  <2>1. IsLatest(1, InitPid)
    BY <1>4 DEF IsLatest
  <2> QED
    BY <1>5, <1>6, <1>7, <2>1 DEF LatestLives
<1>9. KeysDiffer /\ QueueOrdered /\ CopiesAgree
  BY <1>6, <1>7 DEF KeysDiffer, QueueOrdered, CopiesAgree
<1>10. HeadStored /\ PersistedMeansStored
  BY <1>6, <1>7 DEF HeadStored, PersistedMeansStored
<1> QED
  BY <1>1, <1>2, <1>8, <1>9, <1>10 DEF IInv, Meanings

LEMMA NextIInv == IInv /\ QuickReuse = FALSE /\ [Next]_vars => IInv'
<1> SUFFICES ASSUME IInv, QuickReuse = FALSE, [Next]_vars PROVE IInv'
  OBVIOUS
<1>1. TypeOK' /\ DownIsEmpty'
  BY NextType, DownStays DEF IInv
<1>2. ASSUME NEW w \in Watcher, WatcherStep(w) \/ ReadError(w) \/ DropEvent(w) PROVE Meanings'
  BY <1>2, WatchMeanings, IgnoreOwnMeanings, TakeEventMeanings, InsertRowMeanings,
     WriteExitMeanings, MarkMeanings, RecordMeanings DEF WatcherStep
<1>3. ConnectorStep => Meanings'
  BY ListenMeanings, RecvForkMeanings, RecvExecMeanings, RecvExitMeanings, CloseRowMeanings,
     RecvOverrunMeanings DEF ConnectorStep
<1>4. Meanings'
  BY <1>2, <1>3, MachineMeanings, BootMeanings, CrashMeanings, EvictMeanings, StutterMeanings
  DEF Next
<1> QED
  BY <1>1, <1>4 DEF IInv

(* Whatever names a pid, a message, a node, a link of a chain or a row,    *)
(* names the life it was meant for, in every run in which no pid comes     *)
(* round while the daemon remembers it.                                    *)
THEOREM LivesKept == QuickReuse = FALSE => (Spec => []IInv)
<1> SUFFICES ASSUME QuickReuse = FALSE PROVE Spec => []IInv
  OBVIOUS
<1>1. Init => IInv
  BY InitIInv
<1>2. IInv /\ [Next]_vars => IInv'
  BY NextIInv
<1> QED
  BY <1>1, <1>2, PTL DEF Spec

(* A node marked persisted has the row of its process in the graph, in     *)
(* every state of every such run, whatever fails, dies or interleaves.     *)
THEOREM MarksAreTrue == QuickReuse = FALSE => (Spec => []PersistedMeansStored)
<1> SUFFICES ASSUME QuickReuse = FALSE PROVE Spec => []PersistedMeansStored
  OBVIOUS
<1>1. Spec => []IInv
  BY LivesKept
<1>2. IInv => PersistedMeansStored
  BY DEF IInv, Meanings
<1> QED
  BY <1>1, <1>2, PTL
=============================================================================
