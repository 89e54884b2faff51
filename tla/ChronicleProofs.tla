--------------------------- MODULE ChronicleProofs ---------------------------
(***************************************************************************)
(* chronicle beside the daemon, whatever the daemon has recorded and       *)
(* however its threads stand: prune keeps the row an event it keeps        *)
(* resolves to and spares the running, rows it leaves open are of          *)
(* processes that may still run, and trace reports what the command and    *)
(* the processes below it wrote, and nothing else.  Of the daemon: a       *)
(* manifest is what the processes below wrote, all of it and only it.      *)
(***************************************************************************)
EXTENDS Chronicle, ExitProofs

(* The rows of the pid of a retained event are not prunable. *)
LEMMA PidPinned ==
    ASSUME NEW R, NEW E, NEW before \in Int, NEW e \in RetainedEvents(E, before), e.ts \in Int,
           NEW r \in R, r.pid = e.pid
    PROVE  r \notin Prunable(R, E, before)
  BY DEF RetainedEvents, Prunable

(* The writer of an event depends on the rows of its pid alone. *)
LEMMA WriterOfPid ==
    ASSUME NEW R, NEW S, NEW e,
           {r \in R : r.pid = e.pid} = {r \in S : r.pid = e.pid}
    PROVE  Writer(R, e) = Writer(S, e)
<1>1. \A s : Keyed(R, e.pid, s) = Keyed(S, e.pid, s)
  BY DEF Keyed
<1>2. Started(R, e.pid, e.ts) = Started(S, e.pid, e.ts)
  BY DEF Started
<1>3. QueryStart(R, e) = QueryStart(S, e)
  BY <1>2 DEF QueryStart
<1> QED
  BY <1>1, <1>3 DEF Writer

LEMMA OnlyPruneCounts ==
    ASSUME [ChronicleNext]_chronicleVars, prunes' # prunes
    PROVE  PruneProcesses
  BY DEF ChronicleNext, chronicleVars, pruneVars, traceVars, PruneEvents, PruneStopsHalfWay,
         Spawn, Poll, Wait, LookAgain, Report

(* chronicle leaves the daemon's variables well formed: it deletes rows.   *)
LEMMA SpawnType == ASSUME TypeOK, Spawn PROVE TypeOK'
<1>1. PICK q \in Pid, p \in Pid : Settled(p) /\ Fork(q, p)
  BY DEF Spawn
<1>2. KernelTypeOK'
  BY <1>1, ForkType
<1>3. DaemonTypeOK'
  BY DEF Spawn, daemonVars, threadVars, TypeOK, DaemonTypeOK
<1> QED
  BY <1>2, <1>3 DEF TypeOK

LEMMA PruneProcessesType == ASSUME TypeOK, PruneProcesses PROVE TypeOK' /\ cutoff' \in Nat
<1>1. rows' \subseteq rows /\ now \in Nat
  BY DEF PruneProcesses, TypeOK, KernelTypeOK
<1>2. cutoff' \in Nat
  BY <1>1 DEF PruneProcesses
<1>3. KernelTypeOK'
  BY DEF PruneProcesses, TheRest, kernelVars, TypeOK, KernelTypeOK
<1>4. DaemonTypeOK'
  BY <1>1 DEF PruneProcesses, TheRest, kernelVars, threadVars, TypeOK, DaemonTypeOK
<1> QED
  BY <1>2, <1>3, <1>4 DEF TypeOK

LEMMA PruneEventsType == ASSUME TypeOK, PruneEvents PROVE TypeOK'
<1>1. events' \subseteq events
  BY DEF PruneEvents, RetainedEvents
<1>2. KernelTypeOK'
  BY DEF PruneEvents, TheRest, kernelVars, TypeOK, KernelTypeOK
<1>3. DaemonTypeOK'
  BY <1>1 DEF PruneEvents, TheRest, kernelVars, threadVars, TypeOK, DaemonTypeOK
<1> QED
  BY <1>2, <1>3 DEF TypeOK

LEMMA ChronicleNextType == TypeOK /\ [ChronicleNext]_chronicleVars => TypeOK'
<1> SUFFICES ASSUME TypeOK, [ChronicleNext]_chronicleVars PROVE TypeOK'
  OBVIOUS
<1>1. CASE Next \/ UNCHANGED vars
  BY <1>1, NextType
<1>2. CASE PruneStopsHalfWay \/ Poll \/ Wait \/ LookAgain \/ Report
  BY <1>2, StutterType DEF PruneStopsHalfWay, Poll, Wait, LookAgain, Report
<1> QED
  BY <1>1, <1>2, SpawnType, PruneProcessesType, PruneEventsType DEF ChronicleNext, chronicleVars

(* An event retained by a prune keeps the writer log names for it, while   *)
(* the daemon inserts, closes and evicts (graph.rs:567-579).               *)
THEOREM PruneKeepsWriters == ChronicleSpec => RetainedStayAttributed
<1>1. ChronicleInit => TypeOK
  BY InitType DEF ChronicleInit
<1>2. TypeOK /\ [ChronicleNext]_chronicleVars =>
        [prunes' # prunes =>
          \A e \in RetainedEvents(events, cutoff') : Writer(rows', e) = Writer(rows, e)]_chronicleVars
  <2> SUFFICES ASSUME TypeOK, [ChronicleNext]_chronicleVars, prunes' # prunes,
                      NEW e \in RetainedEvents(events, cutoff')
               PROVE  Writer(rows', e) = Writer(rows, e)
    OBVIOUS
  <2>1. PruneProcesses
    BY OnlyPruneCounts
  <2>2. cutoff' \in Nat
    BY <2>1, PruneProcessesType
  <2>3. e.ts \in Nat
    BY DEF RetainedEvents, TypeOK, DaemonTypeOK, EventRow
  <2>4. rows' = rows \ Prunable(rows, events, cutoff')
    BY <2>1 DEF PruneProcesses
  <2>5. \A r \in rows : r.pid = e.pid => r \notin Prunable(rows, events, cutoff')
    BY <2>2, <2>3, PidPinned
  <2>6. {r \in rows' : r.pid = e.pid} = {r \in rows : r.pid = e.pid}
    BY <2>4, <2>5
  <2> QED
    BY <2>6, WriterOfPid
<1> QED
  BY <1>1, <1>2, ChronicleNextType, PTL DEF ChronicleSpec, RetainedStayAttributed

-----------------------------------------------------------------------------
(* prune takes rows away, and only that is of concern here. *)
LEMMA RowsGo ==
    ASSUME ExitInv, TypeOK', rows' \subseteq rows,
           UNCHANGED <<now, procs, holder, netlink, subscribed, up, tree, chain, pc,
                       connector, closing>>
    PROVE  ExitInv'
<1>1. TypeOK /\ NamesTrue /\ ClosedMeansGone
  BY DEF ExitInv, ExitParts
<1>2. \A q \in rows' : q.exit = None \/ (\E r \in rows : q.exit = r.exit /\ q.inc = r.inc)
  OBVIOUS
<1>3. ClosedMeansGone'
  BY <1>1, <1>2, SameLives, ClosedStays
<1>4. LinkExited' /\ DownIsEmpty' /\ ClosingOnly'
  BY DEF ExitInv, ExitParts, LinkExited, DownIsEmpty, ClosingOnly
<1>5. \A q \in rows' : \E r \in rows : q.pid = r.pid /\ q.start = r.start /\ q.inc = r.inc
  OBVIOUS
<1>6. \A v \in Watcher : \A i \in 1 .. Len(chain'[v]) :
         \E k \in 1 .. Len(chain[v]) : chain'[v][i] = chain[v][k]
  OBVIOUS
<1>7. ExitParts'
  BY <1>3, <1>4, <1>5, <1>6, WritesInPlace
<1> QED
  BY <1>4, <1>7 DEF ExitInv

LEMMA ChronicleExitInv == ExitInv /\ [ChronicleNext]_chronicleVars => ExitInv'
<1> SUFFICES ASSUME ExitInv, [ChronicleNext]_chronicleVars PROVE ExitInv'
  OBVIOUS
<1>1. TypeOK'
  BY ChronicleNextType DEF ExitInv
<1>2. CASE Next \/ UNCHANGED vars
  BY <1>2, NextExitInv
<1>3. CASE Spawn
  <2>1. Machine
    BY <1>3 DEF Spawn, Machine
  <2> QED
    BY <2>1, NextExitInv DEF Next
<1>4. CASE PruneProcesses
  BY <1>1, <1>4, RowsGo DEF PruneProcesses, TheRest, kernelVars, threadVars
<1>5. CASE PruneEvents
  BY <1>1, <1>5, RowsGo DEF PruneEvents, TheRest, kernelVars, threadVars
<1>6. PruneStopsHalfWay \/ Poll \/ Wait \/ LookAgain \/ Report => UNCHANGED vars
  BY DEF PruneStopsHalfWay, Poll, Wait, LookAgain, Report
<1> QED
  BY <1>2, <1>3, <1>4, <1>5, <1>6 DEF ChronicleNext, chronicleVars

(* The same beside chronicle, which deletes rows the daemon is to close    *)
(* and spawns processes of its own (chronicle.rs:243, graph.rs:567-579).   *)
THEOREM ClosedBesideChronicle == ChronicleSpec => []ClosedMeansGone
<1>1. ChronicleInit => ExitInv
  BY InitExitInv DEF ChronicleInit
<1>2. ExitInv /\ [ChronicleNext]_chronicleVars => ExitInv'
  BY ChronicleExitInv
<1>3. ExitInv => ClosedMeansGone
  BY DEF ExitInv, ExitParts
<1> QED
  BY <1>1, <1>2, <1>3, PTL DEF ChronicleSpec
-----------------------------------------------------------------------------
(* All is over with the process p: it had its pid, it is gone, and nothing *)
(* more will be heard of it; the table has its exit or nothing.            *)
Finished(p) ==
    /\ \E i \in 1 .. Len(procs) : procs[i].pid = p
    /\ LastHeard(p)
    /\ tree[p] # None => tree[p].exited # None

(* An exit, wherever it is kept, is of a process all is over with. *)
ExitsFinish ==
    /\ \A r \in rows : r.exit # None => Finished(r.pid)
    /\ closing.pid # None => Finished(closing.pid)
    /\ \A w \in Watcher : \A i \in 1 .. Len(chain[w]) :
          chain[w][i].node.exited # None => Finished(chain[w][i].pid)
    /\ \A p \in Pid : tree[p] # None /\ tree[p].exited # None => Finished(p)

(* A fork is the first that is heard of a process. *)
ForksFirst ==
    \A k \in 1 .. Len(netlink) : netlink[k].kind = "fork" =>
        /\ tree[netlink[k].pid] = None
        /\ \A w \in Watcher : \A i \in 1 .. Len(chain[w]) : chain[w][i].pid # netlink[k].pid
        /\ \A j \in 1 .. k - 1 : netlink[j].pid # netlink[k].pid

(* A link has the key of its node, for as long as there is one. *)
LinksAgree ==
    \A w \in Watcher : \A i \in 1 .. Len(chain[w]) :
        IF tree[chain[w][i].pid] = None THEN Finished(chain[w][i].pid)
        ELSE tree[chain[w][i].pid].start = chain[w][i].node.start

(* A link past the insert has a row until all is over with its process,    *)
(* and so has a node marked persisted: prune takes only what is over.      *)
HeadThere ==
    \A w \in Watcher : pc[w] \in {"exit", "mark"} =>
        \/ Finished(Head(chain[w]).pid)
        \/ Keyed(rows, Head(chain[w]).pid, Head(chain[w]).node.start) # {}

MarkThere ==
    \A p \in Pid : tree[p] # None /\ tree[p].persisted =>
        Finished(p) \/ Keyed(rows, p, tree[p].start) # {}

SparesParts == ExitsFinish /\ ForksFirst /\ LinksAgree /\ HeadThere /\ MarkThere

(* The inductive invariant behind PruneSparesTheLiving. *)
SparesInv == ExitInv /\ (NoRecycling => SparesParts)

(* Nothing more happens to a process all is over with, as long as its pid  *)
(* is nobody else's.                                                       *)
LEMMA FinishedStays ==
    ASSUME TypeOK, NEW p, Finished(p), UNCHANGED <<procs, holder>>,
           netlink' = netlink \/ (netlink # <<>> /\ netlink' = Tail(netlink)),
           tree'[p] # None => tree[p] # None /\ (tree[p].exited # None => tree'[p].exited # None)
    PROVE  Finished(p)'
<1>1. LastHeard(p)'
  BY HeardStays DEF Finished
<1> QED
  BY <1>1 DEF Finished

LEMMA OverrunOnly == Overrun.kind = "overrun" /\ Overrun.pid = None
  BY DEF Overrun, Msg

(* The machine says nothing of a pid that is free, but in a fork of it. *)
LEMMA EmitHeard ==
    ASSUME TypeOK, NEW m, Emit(m), NEW p \in Pid, m.pid # p,
           \A i \in 1 .. Len(netlink) : netlink[i].pid # p
    PROVE  \A i \in 1 .. Len(netlink') : netlink'[i].pid # p
<1>1. \A i \in 1 .. Len(netlink') :
         \/ netlink'[i] = Overrun
         \/ i \in 1 .. Len(netlink) /\ netlink'[i] = netlink[i]
         \/ netlink'[i] = m
  BY EmitQueue
<1> QED
  BY <1>1, OverrunOnly, PidAssumption

LEMMA MachineFinished ==
    ASSUME TypeOK, Machine, NoRecycling', NEW p \in Pid, Finished(p)
    PROVE  Finished(p)'
<1>1. PICK n \in 1 .. Len(procs) : procs[n].pid = p
  BY DEF Finished
<1>2. Len(procs) <= Len(procs') /\ \A i \in 1 .. Len(procs) : procs'[i].pid = procs[i].pid
  BY AliveBefore
<1>3. n \in 1 .. Len(procs') /\ procs'[n].pid = p
  BY <1>1, <1>2, AliveBefore DEF TypeOK, KernelTypeOK
<1>4. UNCHANGED tree
  BY DEF Machine, daemonVars
<1>5. holder[p] = 0 /\ \A i \in 1 .. Len(netlink) : netlink[i].pid # p
  BY DEF Finished, LastHeard
<1>6. holder'[p] = 0 /\ \A i \in 1 .. Len(netlink') : netlink'[i].pid # p
  <2>1. ASSUME NEW q \in Pid, NEW x \in Pid, Fork(q, x)
        PROVE  holder'[p] = 0 /\ \A i \in 1 .. Len(netlink') : netlink'[i].pid # p
    <3>1. procs \in Seq(Process) /\ holder \in [Pid -> Nat]
      BY DEF TypeOK, KernelTypeOK
    <3>2. /\ Len(procs) + 1 \in 1 .. Len(procs')
          /\ procs'[Len(procs) + 1].pid = x
      BY <2>1, <3>1 DEF Fork
    <3>3. x # p
      BY <1>1, <1>3, <3>1, <3>2 DEF NoRecycling
    <3>4. PICK m : Emit(m) /\ m.pid = x
      BY <2>1 DEF Fork, Msg
    <3>5. holder'[p] = 0
      BY <1>5, <2>1, <3>1, <3>3 DEF Fork
    <3> QED
      BY <1>5, <3>3, <3>4, <3>5, EmitHeard
  <2>2. ASSUME NEW x \in Pid, NEW im \in Image, Exec(x, im)
        PROVE  holder'[p] = 0 /\ \A i \in 1 .. Len(netlink') : netlink'[i].pid # p
    <3>1. x # p /\ holder'[p] = 0
      BY <1>5, <2>2 DEF Exec
    <3>2. PICK m : Emit(m) /\ m.pid = x
      BY <2>2 DEF Exec, Msg
    <3> QED
      BY <1>5, <3>1, <3>2, EmitHeard
  <2>3. ASSUME NEW x \in Pid, Exit(x)
        PROVE  holder'[p] = 0 /\ \A i \in 1 .. Len(netlink') : netlink'[i].pid # p
    <3>1. x # p /\ holder'[p] = 0
      BY <1>5, <2>3 DEF Exit, TypeOK, KernelTypeOK
    <3>2. PICK m : Emit(m) /\ m.pid = x
      BY <2>3 DEF Exit, Msg
    <3> QED
      BY <1>5, <3>1, <3>2, EmitHeard
  <2>4. ASSUME NEW w \in Watcher, NEW x \in Pid, Write(w, x)
        PROVE  holder'[p] = 0 /\ \A i \in 1 .. Len(netlink') : netlink'[i].pid # p
    BY <1>5, <2>4 DEF Write
  <2>5. CASE Tick
    BY <1>5, <2>5 DEF Tick
  <2> QED
    BY <2>1, <2>2, <2>3, <2>4, <2>5 DEF Machine
<1> QED
  BY <1>3, <1>4, <1>6 DEF Finished, LastHeard

(* A step of the daemon or of chronicle, part by part.  A node is left,    *)
(* changed in place, forgotten, or made for a process just heard of.       *)
NodeKept(p) ==
    /\ tree[p] # None /\ tree'[p].start = tree[p].start
    /\ tree[p].exited # None => tree'[p].exited # None
    /\ tree'[p].exited # None => tree[p].exited # None \/ Finished(p)'
    /\ tree'[p].persisted =>
          tree[p].persisted \/ Finished(p) \/ Keyed(rows, p, tree[p].start) # {}

NodeMade(p) ==
    /\ tree[p] = None /\ tree'[p].exited = None /\ ~tree'[p].persisted
    /\ ~Finished(p)
    /\ \A w \in Watcher : \A i \in 1 .. Len(chain'[w]) : chain'[w][i].pid # p
    /\ \A k \in 1 .. Len(netlink') : netlink'[k].kind = "fork" => netlink'[k].pid # p

NodesStay ==
    \A p \in Pid :
        IF tree'[p] = None THEN tree[p] = None \/ Finished(p) ELSE NodeKept(p) \/ NodeMade(p)

RowsStay ==
    /\ \A r \in rows : Finished(r.pid) \/ Keyed(rows', r.pid, r.start) # {}
    /\ \A q \in rows' : q.exit # None => Finished(q.pid)

LinksStay ==
    \A w \in Watcher : \A i \in 1 .. Len(chain'[w]) :
        \/ \E k \in 1 .. Len(chain[w]) : chain'[w][i] = chain[w][k]
        \/ /\ tree'[chain'[w][i].pid] # None /\ chain'[w][i].node = tree[chain'[w][i].pid]
           /\ UNCHANGED tree

QueueStays == netlink' = netlink \/ (netlink # <<>> /\ netlink' = Tail(netlink))

HeadsStay ==
    \A w \in Watcher : pc'[w] \in {"exit", "mark"} =>
        \/ pc[w] \in {"exit", "mark"} /\ Head(chain'[w]) = Head(chain[w])
        \/ Keyed(rows', Head(chain'[w]).pid, Head(chain'[w]).node.start) # {}

OrderlyStep ==
    /\ UNCHANGED <<procs, holder>> /\ QueueStays
    /\ NodesStay /\ RowsStay /\ LinksStay /\ HeadsStay
    /\ closing'.pid # None => closing'.pid = closing.pid \/ Finished(closing.pid)'

LEMMA OrderlyFinished ==
    ASSUME TypeOK, OrderlyStep, NEW p \in Pid, Finished(p)
    PROVE  Finished(p)'
<1>1. tree'[p] # None => tree[p] # None /\ (tree[p].exited # None => tree'[p].exited # None)
  BY DEF OrderlyStep, NodesStay, NodeKept, NodeMade
<1> QED
  BY <1>1, FinishedStays DEF OrderlyStep, QueueStays

LEMMA OrderlyForks ==
    ASSUME TypeOK, ForksFirst, OrderlyStep
    PROVE  ForksFirst'
<1> SUFFICES ASSUME NEW k \in 1 .. Len(netlink'), netlink'[k].kind = "fork"
             PROVE  /\ tree'[netlink'[k].pid] = None
                    /\ \A w \in Watcher : \A i \in 1 .. Len(chain'[w]) :
                          chain'[w][i].pid # netlink'[k].pid
                    /\ \A j \in 1 .. k - 1 : netlink'[j].pid # netlink'[k].pid
  BY DEF ForksFirst
<1>1. PICK d \in {0, 1} :
         /\ k + d \in 1 .. Len(netlink) /\ netlink'[k] = netlink[k + d]
         /\ \A j \in 1 .. k - 1 : netlink'[j] = netlink[j + d] /\ j + d \in 1 .. (k + d) - 1
  <2>1. CASE netlink' = netlink
    <3>1. k + 0 = k /\ \A j \in 1 .. k - 1 : j + 0 = j
      OBVIOUS
    <3> QED
      BY <2>1, <3>1
  <2>2. CASE netlink # <<>> /\ netlink' = Tail(netlink)
    <3>1. /\ Len(netlink') = Len(netlink) - 1 /\ Len(netlink) \in Nat
          /\ \A i \in 1 .. Len(netlink') : i + 1 \in 1 .. Len(netlink) /\ netlink'[i] = netlink[i + 1]
      BY <2>2, TailQueue
    <3> QED
      BY <3>1
  <2> QED
    BY <2>1, <2>2 DEF OrderlyStep, QueueStays
<1>2. PICK p \in Pid : p = netlink'[k].pid
  BY <1>1, MessageType
<1>3. /\ tree[p] = None
      /\ \A w \in Watcher : \A i \in 1 .. Len(chain[w]) : chain[w][i].pid # p
      /\ \A j \in 1 .. (k + d) - 1 : netlink[j].pid # p
  BY <1>1, <1>2 DEF ForksFirst
<1>4. tree'[p] = None
  BY <1>2, <1>3 DEF OrderlyStep, NodesStay, NodeKept, NodeMade
<1>5. \A w \in Watcher : \A i \in 1 .. Len(chain'[w]) : chain'[w][i].pid # p
  BY <1>3, <1>4 DEF OrderlyStep, LinksStay
<1>6. \A j \in 1 .. k - 1 : netlink'[j].pid # p
  BY <1>1, <1>3
<1> QED
  BY <1>2, <1>4, <1>5, <1>6

LEMMA OrderlySpares ==
    ASSUME TypeOK, TypeOK', SparesParts, OrderlyStep
    PROVE  SparesParts'
<1>1. \A p \in Pid : Finished(p) => Finished(p)'
  BY OrderlyFinished
<1>2. /\ rows \subseteq ProcRow /\ rows' \subseteq ProcRow
      /\ closing \in [pid: Option(Pid), start: Nat, exit: Nat]
      /\ closing' \in [pid: Option(Pid), start: Nat, exit: Nat]
  BY DEF TypeOK, DaemonTypeOK
<1>3. \A r : r \in rows \/ r \in rows' => r.pid \in Pid
  BY <1>2 DEF ProcRow
<1>4. \A w \in Watcher : \A i \in 1 .. Len(chain[w]) : chain[w][i].pid \in Pid
  BY LinkType
<1>5. \A w \in Watcher : \A i \in 1 .. Len(chain'[w]) : chain'[w][i].pid \in Pid
  <2>1. chain' \in [Watcher -> Seq(ChainItem)]
    BY DEF TypeOK, DaemonTypeOK
  <2> SUFFICES ASSUME NEW w \in Watcher, NEW i \in 1 .. Len(chain'[w]) PROVE chain'[w][i].pid \in Pid
    OBVIOUS
  <2>2. PICK c \in Seq(ChainItem) : c = chain'[w]
    BY <2>1
  <2>3. c[i] \in ChainItem
    BY <2>2
  <2> QED
    BY <2>2, <2>3 DEF ChainItem
<1>6. \A p \in Pid : tree'[p] # None /\ tree'[p].exited # None => Finished(p)'
  BY <1>1 DEF SparesParts, ExitsFinish, OrderlyStep, NodesStay, NodeKept, NodeMade
<1>7. ExitsFinish'
  <2>1. \A r \in rows' : r.exit # None => Finished(r.pid)'
    BY <1>1, <1>3 DEF OrderlyStep, RowsStay
  <2>2. closing'.pid # None => Finished(closing.pid)'
    BY <1>1, <1>2 DEF SparesParts, ExitsFinish, OrderlyStep, Option
  <2>3. ASSUME NEW w \in Watcher, NEW i \in 1 .. Len(chain'[w]), chain'[w][i].node.exited # None
        PROVE  Finished(chain[w][i].pid)'
    <3>1. CASE \E k \in 1 .. Len(chain[w]) : chain'[w][i] = chain[w][k]
      BY <1>1, <1>5, <2>3, <3>1 DEF SparesParts, ExitsFinish
    <3>2. CASE /\ tree'[chain'[w][i].pid] # None /\ chain'[w][i].node = tree[chain'[w][i].pid]
               /\ UNCHANGED tree
      BY <1>5, <1>6, <2>3, <3>2
    <3> QED
      BY <3>1, <3>2 DEF OrderlyStep, LinksStay
  <2> QED
    BY <1>6, <2>1, <2>2, <2>3 DEF ExitsFinish
<1>8. LinksAgree'
  <2> SUFFICES ASSUME NEW w \in Watcher, NEW i \in 1 .. Len(chain'[w]), NEW p \in Pid,
                      p = chain'[w][i].pid
               PROVE  IF tree'[p] = None THEN Finished(p)'
                      ELSE tree'[p].start = chain'[w][i].node.start
    BY <1>5 DEF LinksAgree
  <2>1. CASE \E k \in 1 .. Len(chain[w]) : chain'[w][i] = chain[w][k]
    <3>1. IF tree[p] = None THEN Finished(p) ELSE tree[p].start = chain'[w][i].node.start
      BY <2>1 DEF SparesParts, LinksAgree
    <3>2. IF tree'[p] = None THEN tree[p] = None \/ Finished(p) ELSE NodeKept(p)
      BY DEF OrderlyStep, NodesStay, NodeMade
    <3> QED
      BY <1>1, <3>1, <3>2 DEF NodeKept
  <2>2. CASE tree'[p] # None /\ chain'[w][i].node = tree[p] /\ UNCHANGED tree
    BY <2>2
  <2> QED
    BY <2>1, <2>2 DEF OrderlyStep, LinksStay
<1>9. HeadThere'
  <2> SUFFICES ASSUME NEW w \in Watcher, pc'[w] \in {"exit", "mark"}
               PROVE  \/ Finished(Head(chain[w]).pid)'
                      \/ Keyed(rows', Head(chain'[w]).pid, Head(chain'[w]).node.start) # {}
    BY DEF HeadThere
  <2>1. CASE pc[w] \in {"exit", "mark"} /\ Head(chain'[w]) = Head(chain[w])
    <3>1. PICK p, s : p = Head(chain[w]).pid /\ s = Head(chain[w]).node.start
      OBVIOUS
    <3>2. p \in Pid
      BY <1>4, <2>1, <3>1 DEF TypeOK, DaemonTypeOK
    <3>3. Finished(p) \/ Keyed(rows, p, s) # {}
      BY <2>1, <3>1 DEF SparesParts, HeadThere
    <3>4. Finished(p) \/ Keyed(rows', p, s) # {}
      BY <3>3 DEF OrderlyStep, RowsStay, Keyed
    <3> QED
      BY <1>1, <2>1, <3>1, <3>2, <3>4
  <2> QED
    BY <2>1 DEF OrderlyStep, HeadsStay
<1>10. MarkThere'
  <2> SUFFICES ASSUME NEW p \in Pid, tree'[p] # None, tree'[p].persisted
               PROVE  Finished(p)' \/ Keyed(rows', p, tree'[p].start) # {}
    BY DEF MarkThere
  <2>1. NodeKept(p)
    BY DEF OrderlyStep, NodesStay, NodeMade
  <2>2. Finished(p) \/ Keyed(rows, p, tree[p].start) # {}
    BY <2>1 DEF NodeKept, SparesParts, MarkThere
  <2>3. Finished(p) \/ Keyed(rows', p, tree[p].start) # {}
    BY <2>2 DEF OrderlyStep, RowsStay, Keyed
  <2> QED
    BY <1>1, <2>1, <2>3 DEF NodeKept
<1> QED
  BY <1>7, <1>8, <1>9, <1>10, OrderlyForks DEF SparesParts

LEMMA SameRows == SparesParts /\ UNCHANGED rows => RowsStay
  BY DEF SparesParts, ExitsFinish, RowsStay, Keyed

LEMMA SameNodes == UNCHANGED tree => NodesStay
  BY DEF NodesStay, NodeKept

LEMMA SameLinks == UNCHANGED chain => LinksStay
  BY DEF LinksStay

LEMMA QuietOrderly ==
    ASSUME SparesParts, UNCHANGED <<procs, holder, tree, chain, rows, closing>>, QueueStays,
           \A w \in Watcher : pc'[w] \in {"exit", "mark"} => pc[w] \in {"exit", "mark"}
    PROVE  OrderlyStep
  BY SameRows, SameNodes, SameLinks DEF OrderlyStep, HeadsStay

LEMMA QuietWatcherOrderly ==
    ASSUME TypeOK, SparesParts, NEW w \in Watcher,
           \/ Watch(w) \/ IgnoreOwn(w) \/ Stamp(w) \/ RecordEvent(w) \/ AppendLog(w)
           \/ ReadError(w) \/ DropEvent(w)
    PROVE  OrderlyStep
<1>1. pc \in [Watcher -> Place]
  BY DEF TypeOK, DaemonTypeOK
<1>2. UNCHANGED <<procs, holder, netlink, tree, chain, rows, closing>>
  BY DEF Watch, IgnoreOwn, Stamp, RecordEvent, AppendLog, ReadError, DropEvent,
         kernelVars, daemonVars, threadVars
<1>3. \A v \in Watcher : pc'[v] \in {"exit", "mark"} => pc[v] \in {"exit", "mark"}
  BY <1>1 DEF Watch, IgnoreOwn, Stamp, RecordEvent, AppendLog, ReadError, DropEvent,
              daemonVars, threadVars
<1> QED
  BY <1>2, <1>3, QuietOrderly DEF QueueStays

LEMMA TakeEventOrderly ==
    ASSUME TypeOK, SparesParts, NEW w \in Watcher, TakeEvent(w)
    PROVE  OrderlyStep
<1>1. UNCHANGED <<procs, holder, netlink, tree, rows, closing>> /\ pc[w] = "idle"
  BY DEF TakeEvent
<1>2. PICK e \in Event : e = Head(fanotify[w]) /\ e.pid \in Pid
  BY QueueReads DEF TakeEvent, Event
<1>3. \/ UNCHANGED chain
      \/ \E c \in Climbs(tree, e.pid) : chain' = [chain EXCEPT ![w] = ChainOf(tree, c)]
  BY <1>2 DEF TakeEvent
<1>4. tree \in Tables
  BY DEF TypeOK, DaemonTypeOK
<1>5. LinksStay
  <2>1. ASSUME NEW c \in Climbs(tree, e.pid), chain' = [chain EXCEPT ![w] = ChainOf(tree, c)]
        PROVE  LinksStay
    <3>1. \A i \in 1 .. Len(ChainOf(tree, c)) :
             /\ tree[ChainOf(tree, c)[i].pid] # None
             /\ ChainOf(tree, c)[i].node = tree[ChainOf(tree, c)[i].pid]
      BY <1>2, <1>4, <2>1, ChainOfClimb
    <3>2. chain'[w] = ChainOf(tree, c) /\ \A v \in Watcher \ {w} : chain'[v] = chain[v]
      BY <2>1 DEF TypeOK, DaemonTypeOK
    <3> QED
      BY <1>1, <3>1, <3>2 DEF LinksStay
  <2> QED
    BY <1>3, <2>1, SameLinks
<1>6. HeadsStay
  <2>1. \A v \in Watcher : pc'[v] \in {"exit", "mark"} => pc[v] \in {"exit", "mark"} /\ chain'[v] = chain[v]
    BY <1>1 DEF TakeEvent, AfterChain, TypeOK, DaemonTypeOK
  <2> QED
    BY <2>1 DEF HeadsStay
<1> QED
  BY <1>1, <1>5, <1>6, SameRows, SameNodes DEF OrderlyStep, QueueStays

LEMMA InsertRowOrderly ==
    ASSUME TypeOK, SparesParts, NEW w \in Watcher, InsertRow(w)
    PROVE  OrderlyStep
<1>1. pc[w] = "insert" /\ chain[w] # <<>> /\ rows \in SUBSET ProcRow
  BY DEF InsertRow, TypeOK, DaemonTypeOK
<1>2. UNCHANGED <<procs, holder, netlink, closing, tree>>
  BY DEF InsertRow
<1>3. CASE /\ chain' = [chain EXCEPT ![w] = Tail(@)]
           /\ pc' = [pc EXCEPT ![w] = AfterChain(Tail(chain[w]))]
           /\ UNCHANGED rows
  <2>1. LinksStay /\ HeadsStay
    BY <1>1, <1>3, ChainShrinks DEF LinksStay, HeadsStay
  <2> QED
    BY <1>2, <1>3, <2>1, SameRows, SameNodes DEF OrderlyStep, QueueStays
<1>4. CASE /\ rows' = RecordExisting(rows, Head(chain[w]).pid, Head(chain[w]).node)
           /\ pc' = [pc EXCEPT ![w] = IF Head(chain[w]).node.exited = None
                                     THEN "mark" ELSE "exit"]
           /\ UNCHANGED chain
  <2>1. PICK p \in Pid, node \in ProcNode : p = Head(chain[w]).pid /\ node = Head(chain[w]).node
    BY <1>1, HeadOfChain
  <2>2. /\ rows \subseteq rows' /\ Keyed(rows', p, node.start) # {}
        /\ \A r \in rows' : r \in rows \/ r.exit = None
    <3>1. rows' = RecordExisting(rows, p, node)
      BY <1>4, <2>1
    <3> QED
      BY <1>1, <3>1, RecordExistingStores
  <2>3. RowsStay
    BY <2>2 DEF RowsStay, Keyed, SparesParts, ExitsFinish
  <2>4. \A v \in Watcher : v # w => pc'[v] = pc[v]
    BY <1>4 DEF TypeOK, DaemonTypeOK
  <2>5. HeadsStay
    BY <1>4, <2>1, <2>2, <2>4 DEF HeadsStay
  <2> QED
    BY <1>2, <1>4, <2>3, <2>5, SameNodes, SameLinks DEF OrderlyStep, QueueStays
<1> QED
  BY <1>3, <1>4 DEF InsertRow

(* A row that is closed keeps its key, and another pid's are left alone.   *)
LEMMA ExitsRightRows ==
    ASSUME TypeOK, SparesParts, NEW p, NEW s, NEW x \in Option(Nat),
           p \in Pid => Finished(p), rows' = RecordExitAt(rows, p, s, x)
    PROVE  RowsStay
<1>1. rows \in SUBSET ProcRow
  BY DEF TypeOK, DaemonTypeOK
<1>2. \A r \in rows : Keyed(rows', r.pid, r.start) # {}
  BY <1>1, RecordExitAtKeeps DEF Keyed
<1>3. ASSUME NEW q \in rows', q.exit # None PROVE Finished(q.pid)
  <2>1. PICK r \in rows : q = IF r.pid = p /\ r.start = s THEN [r EXCEPT !.exit = x] ELSE r
    BY DEF RecordExitAt
  <2>2. q.pid = r.pid /\ r.pid \in Pid /\ (q.exit = r.exit \/ r.pid = p)
    BY <1>1, <2>1 DEF ProcRow
  <2> QED
    BY <1>3, <2>2 DEF SparesParts, ExitsFinish
<1> QED
  BY <1>2, <1>3 DEF RowsStay

LEMMA WriteExitOrderly ==
    ASSUME ExitInv, SparesParts, NEW w \in Watcher, WriteExit(w)
    PROVE  OrderlyStep
<1>1. TypeOK /\ LinkExited /\ pc[w] = "exit" /\ chain[w] # <<>>
  BY DEF ExitInv, ExitParts, WriteExit, TypeOK, DaemonTypeOK
<1>2. UNCHANGED <<procs, holder, netlink, closing, tree, chain>>
  BY DEF WriteExit
<1>3. PICK p \in Pid, node \in ProcNode : p = Head(chain[w]).pid /\ node = Head(chain[w]).node
  BY <1>1, HeadOfChain
<1>4. node.exited # None /\ node.exited \in Option(Nat)
  BY <1>1, <1>3 DEF LinkExited, ProcNode
<1>5. Finished(p)
  <2>1. 1 \in 1 .. Len(chain[w]) /\ Head(chain[w]) = chain[w][1]
    BY <1>1 DEF TypeOK, DaemonTypeOK
  <2> QED
    BY <1>3, <1>4, <2>1 DEF SparesParts, ExitsFinish
<1>6. RowsStay
  BY <1>1, <1>3, <1>4, <1>5, ExitsRightRows, SameRows DEF WriteExit
<1>7. HeadsStay
  BY <1>1, <1>2 DEF WriteExit, HeadsStay, TypeOK, DaemonTypeOK
<1> QED
  BY <1>2, <1>6, <1>7, SameNodes, SameLinks DEF OrderlyStep, QueueStays

(* The mark goes to whatever node has the pid: the link's, or one that all *)
(* is over with.                                                           *)
LEMMA MarkOrderly ==
    ASSUME TypeOK, SparesParts, NEW w \in Watcher, Mark(w)
    PROVE  OrderlyStep
<1>1. pc[w] = "mark" /\ chain[w] # <<>> /\ tree \in Tables
  BY DEF Mark, TypeOK, DaemonTypeOK
<1>2. UNCHANGED <<procs, holder, netlink, closing, rows>>
  BY DEF Mark, kernelVars
<1>3. PICK p \in Pid, node \in ProcNode : p = Head(chain[w]).pid /\ node = Head(chain[w]).node
  BY <1>1, HeadOfChain
<1>4. LinksStay /\ HeadsStay
  BY <1>1, ChainShrinks DEF Mark, LinksStay, HeadsStay
<1>5. tree' = MarkPersisted(tree, p)
  BY <1>3 DEF Mark
<1>6. /\ \A q \in Pid \ {p} : tree'[q] = tree[q]
      /\ tree[p] = None => tree'[p] = None
      /\ tree[p] # None => /\ tree'[p] # None /\ tree'[p].start = tree[p].start
                           /\ tree'[p].exited = tree[p].exited
  BY <1>1, <1>5, MarkPersistedTable
<1>7. tree[p] # None => Finished(p) \/ Keyed(rows, p, tree[p].start) # {}
  <2>1. 1 \in 1 .. Len(chain[w]) /\ Head(chain[w]) = chain[w][1]
    BY <1>1 DEF TypeOK, DaemonTypeOK
  <2>2. tree[p] # None => tree[p].start = node.start
    BY <1>3, <2>1 DEF SparesParts, LinksAgree
  <2>3. Finished(p) \/ Keyed(rows, p, node.start) # {}
    BY <1>1, <1>3 DEF SparesParts, HeadThere
  <2> QED
    BY <2>2, <2>3
<1>8. NodesStay
  BY <1>6, <1>7 DEF NodesStay, NodeKept
<1> QED
  BY <1>2, <1>4, <1>8, SameRows DEF OrderlyStep, QueueStays

(* A message is only about processes not over, and after a fork no other   *)
(* fork of the pid is waiting.                                             *)
LEMMA HeadNotFinished ==
    ASSUME TypeOK, ForksFirst, NEW kind, Receives(kind), NEW p \in Pid, p = Head(netlink).pid
    PROVE  /\ ~Finished(p) /\ QueueStays
           /\ \A k \in 1 .. Len(netlink') : netlink'[k].kind = "fork" => netlink'[k].pid # p
<1>1. /\ Len(netlink) \in Nat /\ 1 \in 1 .. Len(netlink) /\ netlink[1].pid = p
      /\ \A i \in 1 .. Len(netlink') : i + 1 \in 1 .. Len(netlink) /\ netlink'[i] = netlink[i + 1]
  BY ReadsQueue
<1>2. QueueStays
  BY DEF Receives, QueueStays
<1>3. ASSUME NEW k \in 1 .. Len(netlink'), netlink'[k].kind = "fork" PROVE netlink'[k].pid # p
  <2>1. PICK n \in 1 .. Len(netlink) : n = k + 1 /\ netlink'[k] = netlink[n] /\ 1 \in 1 .. n - 1
    BY <1>1
  <2> QED
    BY <1>1, <1>3, <2>1 DEF ForksFirst
<1> QED
  BY <1>1, <1>2, <1>3 DEF Finished, LastHeard

LEMMA NodeMadeOrderly ==
    ASSUME TypeOK, SparesParts, UNCHANGED <<procs, holder, chain, rows, pc, closing>>,
           NEW kind, Receives(kind), NEW p \in Pid, p = Head(netlink).pid, tree[p] = None,
           NEW ppid, NEW info, NEW ts, NEW n, tree'[p] = NewNode(ppid, info, ts, n),
           \A x \in Pid \ {p} : tree'[x] = tree[x]
    PROVE  OrderlyStep
<1>1. /\ ~Finished(p) /\ QueueStays
      /\ \A k \in 1 .. Len(netlink') : netlink'[k].kind = "fork" => netlink'[k].pid # p
  BY HeadNotFinished DEF SparesParts
<1>2. \A w \in Watcher : \A i \in 1 .. Len(chain[w]) : chain[w][i].pid # p
  BY <1>1 DEF SparesParts, LinksAgree
<1>3. tree'[p].exited = None /\ tree'[p].persisted = FALSE
  BY DEF NewNode
<1>4. NodeMade(p)
  BY <1>1, <1>2, <1>3 DEF NodeMade
<1>5. NodesStay
  BY <1>4 DEF NodesStay, NodeKept
<1>6. LinksStay /\ HeadsStay
  BY DEF LinksStay, HeadsStay
<1> QED
  BY <1>1, <1>5, <1>6, SameRows DEF OrderlyStep

LEMMA RecvForkOrderly ==
    ASSUME TypeOK, SparesParts, RecvFork
    PROVE  OrderlyStep
<1>1. Receives("fork")
  BY DEF RecvFork
<1>2. PICK p \in Pid, n \in Nat : p = Head(netlink).pid /\ n = Head(netlink).inc
  BY <1>1, HeadOfNetlink
<1>3. PICK q \in Option(Pid) : q = Head(netlink).parent
  BY <1>1, HeadOfNetlink
<1>4. tree \in Tables /\ now \in Nat
  BY DEF TypeOK, KernelTypeOK, DaemonTypeOK
<1>5. tree' = OnFork(tree, q, p, now, n)
  BY <1>2, <1>3 DEF RecvFork
<1>6. tree'[p] = NewNode(q, None, now, n) /\ \A x \in Pid \ {p} : tree'[x] = tree[x]
  BY <1>4, <1>5, OnForkTable
<1>7. tree[p] = None
  <2>1. 1 \in 1 .. Len(netlink) /\ netlink[1].pid = p /\ netlink[1].kind = "fork"
    BY <1>1, <1>2, ReadsQueue
  <2> QED
    BY <2>1 DEF SparesParts, ForksFirst
<1>8. UNCHANGED <<procs, holder, chain, rows, pc, closing>>
  BY DEF RecvFork, threadVars
<1> QED
  BY <1>1, <1>2, <1>6, <1>7, <1>8, NodeMadeOrderly

LEMMA RecvExecOrderly ==
    ASSUME TypeOK, SparesParts, RecvExec
    PROVE  OrderlyStep
<1>1. Receives("exec")
  BY DEF RecvExec
<1>2. PICK p \in Pid, n \in Nat : p = Head(netlink).pid /\ n = Head(netlink).inc
  BY <1>1, HeadOfNetlink
<1>3. PICK im \in Option(Image), q \in Option(Pid) : im = ProcImage(p) /\ q = ProcParent(p)
  BY <1>1, ProcReads
<1>4. tree \in Tables /\ now \in Nat
  BY DEF TypeOK, KernelTypeOK, DaemonTypeOK
<1>5. tree' = OnExec(tree, p, im, q, now, n)
  BY <1>2, <1>3 DEF RecvExec
<1>6. /\ \A x \in Pid \ {p} : tree'[x] = tree[x]
      /\ tree[p] = None => tree'[p] = NewNode(q, im, now, n)
      /\ tree[p] # None => /\ tree'[p] # None
                           /\ tree'[p].start = tree[p].start
                           /\ tree'[p].exited = tree[p].exited
                           /\ tree'[p].persisted = tree[p].persisted
  BY <1>4, <1>5, OnExecTable
<1>7. UNCHANGED <<procs, holder, chain, rows, pc, closing>>
  BY DEF RecvExec, threadVars
<1>8. CASE tree[p] # None
  <2>1. NodesStay
    BY <1>6, <1>8 DEF NodesStay, NodeKept
  <2>2. HeadsStay /\ QueueStays
    BY <1>1, <1>7 DEF HeadsStay, QueueStays, Receives
  <2> QED
    BY <1>7, <2>1, <2>2, SameRows, SameLinks DEF OrderlyStep
<1>9. CASE tree[p] = None
  BY <1>1, <1>2, <1>6, <1>7, <1>9, NodeMadeOrderly
<1> QED
  BY <1>8, <1>9

(* The exit is the last that is heard of its process. *)
LEMMA RecvExitOrderly ==
    ASSUME ExitInv, SparesParts, RecvExit
    PROVE  OrderlyStep
<1>1. TypeOK /\ QueueTrue /\ Receives("exit") /\ tree \in Tables /\ now \in Nat
  BY DEF ExitInv, ExitParts, RecvExit, TypeOK, KernelTypeOK, DaemonTypeOK
<1>2. PICK p \in Pid : p = Head(netlink).pid
  BY <1>1, HeadOfNetlink
<1>3. /\ Len(netlink) \in Nat /\ 1 \in 1 .. Len(netlink)
      /\ netlink[1].pid = p /\ netlink[1].kind = "exit"
      /\ Len(netlink') = Len(netlink) - 1
      /\ \A i \in 1 .. Len(netlink') : i + 1 \in 1 .. Len(netlink) /\ netlink'[i] = netlink[i + 1]
  BY <1>1, <1>2, ReadsQueue
<1>4. UNCHANGED <<procs, holder, chain, rows, pc>> /\ QueueStays
  BY <1>1 DEF RecvExit, Receives, QueueStays, threadVars
<1>5. tree' = OnExit(tree, p, now)
  BY <1>2 DEF RecvExit
<1>6. /\ \A x \in Pid \ {p} : tree'[x] = tree[x]
      /\ tree[p] = None => tree'[p] = None
      /\ tree[p] # None => /\ tree'[p] # None /\ tree'[p].start = tree[p].start
                           /\ tree'[p].persisted = tree[p].persisted
                           /\ tree'[p].exited = now
  BY <1>1, <1>5, OnExitTable
<1>7. Finished(p)'
  <2>1. netlink[1] # Overrun
    BY <1>1, <1>3, MessageType
  <2>2. /\ holder[p] = 0 /\ \A j \in 2 .. Len(netlink) : netlink[j].pid # p
        /\ netlink[1].inc \in 1 .. Len(procs) /\ procs[netlink[1].inc].pid = p
    <3>1. /\ netlink[1].inc \in 1 .. Len(procs)
          /\ procs[netlink[1].inc].pid = netlink[1].pid /\ holder[netlink[1].pid] = 0
          /\ \A j \in 1 + 1 .. Len(netlink) : netlink[j].pid # netlink[1].pid
      BY <1>1, <1>3, <2>1 DEF QueueTrue
    <3> QED
      BY <1>3, <3>1
  <2>3. \A i \in 1 .. Len(netlink') : i + 1 \in 2 .. Len(netlink)
    BY <1>3
  <2>4. LastHeard(p)'
    BY <1>3, <1>4, <2>2, <2>3 DEF LastHeard
  <2>5. tree'[p] # None => tree'[p].exited # None
    BY <1>1, <1>6, PidAssumption
  <2> QED
    BY <1>4, <2>2, <2>4, <2>5 DEF Finished
<1>8. NodesStay
  BY <1>1, <1>6, <1>7, PidAssumption DEF NodesStay, NodeKept
<1>9. closing'.pid # None => closing'.pid = closing.pid \/ Finished(closing.pid)'
  <2>1. closing' = closing \/ closing'.pid = p
    BY <1>2 DEF RecvExit
  <2> QED
    BY <1>7, <2>1
<1> QED
  BY <1>4, <1>8, <1>9, SameRows, SameLinks DEF OrderlyStep, HeadsStay

LEMMA CloseRowOrderly ==
    ASSUME TypeOK, SparesParts, CloseRow
    PROVE  OrderlyStep
<1>1. closing \in [pid: Option(Pid), start: Nat, exit: Nat]
  BY DEF TypeOK, DaemonTypeOK
<1>2. PICK p, s, x : x \in Option(Nat) /\ p = closing.pid /\ s = closing.start /\ x = closing.exit
  BY <1>1 DEF Option
<1>3. p \in Pid => Finished(p)
  BY <1>2, PidAssumption DEF SparesParts, ExitsFinish
<1>4. UNCHANGED rows \/ rows' = RecordExitAt(rows, p, s, x)
  BY <1>2 DEF CloseRow
<1>5. RowsStay
  BY <1>2, <1>3, <1>4, ExitsRightRows, SameRows
<1>6. UNCHANGED <<procs, holder, netlink, tree, chain, pc>> /\ closing'.pid = None
  BY DEF CloseRow, threadVars, NoClosing
<1> QED
  BY <1>5, <1>6, SameNodes, SameLinks DEF OrderlyStep, QueueStays, HeadsStay

LEMMA EvictOrderly ==
    ASSUME TypeOK, SparesParts, Evict
    PROVE  OrderlyStep
<1>1. UNCHANGED <<procs, holder, netlink, rows, chain, pc, closing>>
  BY DEF Evict, kernelVars, threadVars
<1>2. PICK before \in Int : before = now - Grace
  BY GraceAssumption DEF TypeOK, KernelTypeOK
<1>3. tree \in Tables /\ tree' = EvictStale(tree, before)
  BY <1>2 DEF Evict, TypeOK, DaemonTypeOK
<1>4. \A p \in Pid : \/ tree'[p] = tree[p]
                     \/ tree'[p] = None /\ tree[p] # None /\ tree[p].exited # None
  BY <1>3, EvictStaleTable
<1>5. NodesStay
  BY <1>4 DEF NodesStay, NodeKept, SparesParts, ExitsFinish
<1> QED
  BY <1>1, <1>5, SameRows, SameLinks DEF OrderlyStep, QueueStays, HeadsStay

LEMMA QuietConnectorOrderly ==
    ASSUME TypeOK, SparesParts, Listen \/ RecvOverrun \/ UNCHANGED vars
    PROVE  OrderlyStep
<1>1. UNCHANGED <<procs, holder, tree, chain, rows, closing, pc>> /\ QueueStays
  BY DEF Listen, RecvOverrun, vars, kernelVars, daemonVars, threadVars, QueueStays, Receives
<1> QED
  BY <1>1, QuietOrderly

LEMMA DaemonOrderly ==
    ASSUME ExitInv, SparesParts, Next \/ UNCHANGED vars, ~Machine, ~Boot, ~Crash
    PROVE  OrderlyStep
<1>1. TypeOK
  BY DEF ExitInv
<1>2. ASSUME NEW w \in Watcher, WatcherStep(w) \/ ReadError(w) \/ DropEvent(w) PROVE OrderlyStep
  BY <1>1, <1>2, QuietWatcherOrderly, TakeEventOrderly, InsertRowOrderly, WriteExitOrderly,
     MarkOrderly DEF WatcherStep
<1>3. CASE ConnectorStep
  BY <1>1, <1>3, RecvForkOrderly, RecvExecOrderly, RecvExitOrderly, CloseRowOrderly,
     QuietConnectorOrderly DEF ConnectorStep
<1> QED
  BY <1>1, <1>2, <1>3, EvictOrderly, QuietConnectorOrderly DEF Next

(* With the daemon start and end its nodes, links and queue. *)
LEMMA RestartSpares ==
    ASSUME ExitInv, SparesParts, Boot \/ Crash
    PROVE  SparesParts'
<1>1. /\ TypeOK /\ UNCHANGED <<procs, holder, rows>>
      /\ holder \in [Pid -> Nat] /\ rows \subseteq ProcRow
  <2>1. TypeOK
    BY DEF ExitInv
  <2>2. UNCHANGED <<procs, holder, rows>>
    BY DEF Boot, Crash
  <2>3. holder \in [Pid -> Nat]
    BY <2>1 DEF TypeOK, KernelTypeOK
  <2> QED
    BY <2>1, <2>2, <2>3 DEF TypeOK, DaemonTypeOK
<1>2. /\ netlink' = <<>> /\ \A w \in Watcher : chain'[w] = <<>> /\ pc'[w] = "off"
      /\ closing'.pid = None
  <2>1. CASE Boot
    <3>1. connector # "close" /\ closing = NoClosing
      BY <2>1 DEF ExitInv, DownIsEmpty, ClosingOnly, Boot
    <3> QED
      BY <2>1, <3>1 DEF ExitInv, DownIsEmpty, Boot, threadVars, NoClosing
  <2>2. CASE Crash
    BY <2>2 DEF Crash, NoClosing
  <2> QED
    BY <2>1, <2>2
<1>3. \A p \in Pid : tree'[p] # None => holder[p] # 0 /\ tree'[p].exited = None /\ ~tree'[p].persisted
  <2>1. CASE Boot
    BY <2>1, BootNodes
  <2>2. CASE Crash
    BY <2>2 DEF Crash, EmptyTable
  <2> QED
    BY <2>1, <2>2
<1>4. Len(netlink') = 0 /\ \A w \in Watcher : Len(chain'[w]) = 0
  BY <1>2
<1>5. \A p \in Pid : Finished(p) => Finished(p)'
  BY <1>1, <1>3, <1>4 DEF Finished, LastHeard
<1>6. \A r \in rows : r.pid \in Pid
  BY <1>1 DEF ProcRow
<1>7. ExitsFinish'
  BY <1>1, <1>2, <1>3, <1>4, <1>5, <1>6 DEF SparesParts, ExitsFinish
<1>8. ForksFirst' /\ LinksAgree'
  BY <1>4 DEF ForksFirst, LinksAgree
<1>9. HeadThere' /\ MarkThere'
  BY <1>2, <1>3 DEF HeadThere, MarkThere
<1> QED
  BY <1>7, <1>8, <1>9 DEF SparesParts

(* The machine names a new process only by a pid nobody had. *)
LEMMA MachineForks ==
    ASSUME ExitInv, SparesParts, Machine, NoRecycling'
    PROVE  ForksFirst'
<1>1. /\ TypeOK /\ QueueTrue /\ NamesTrue
      /\ UNCHANGED <<tree, chain, rows>> /\ procs \in Seq(Process) /\ holder \in [Pid -> Nat]
  BY DEF ExitInv, ExitParts, Machine, daemonVars, threadVars, TypeOK, KernelTypeOK
<1>2. \A i \in 1 .. Len(procs) : i \in 1 .. Len(procs') /\ procs'[i].pid = procs[i].pid
  BY <1>1, AliveBefore
<1>3. CASE UNCHANGED netlink
  BY <1>1, <1>3 DEF SparesParts, ForksFirst
<1>4. ASSUME NEW m, Emit(m), m.kind # "fork" PROVE ForksFirst'
  <2> SUFFICES ASSUME NEW k \in 1 .. Len(netlink'), netlink'[k].kind = "fork"
               PROVE  /\ tree[netlink'[k].pid] = None
                      /\ \A w \in Watcher : \A i \in 1 .. Len(chain[w]) :
                            chain[w][i].pid # netlink'[k].pid
                      /\ \A j \in 1 .. k - 1 : netlink'[j].pid # netlink'[k].pid
    BY <1>1 DEF ForksFirst
  <2>1. k \in 1 .. Len(netlink) /\ netlink'[k] = netlink[k] /\ Len(netlink) \in Nat
    BY <1>1, <1>4, EmitQueue, OverrunOnly DEF TypeOK, KernelTypeOK
  <2>2. \A j \in 1 .. k - 1 : netlink'[j] = Overrun \/ netlink'[j] = netlink[j]
    BY <1>1, <1>4, <2>1, EmitQueue
  <2>3. netlink[k].pid \in Pid
    BY <1>1, <2>1, MessageType
  <2> QED
    BY <2>1, <2>2, <2>3, OverrunOnly, PidAssumption DEF SparesParts, ForksFirst
<1>5. ASSUME NEW q \in Pid, NEW x \in Pid, Fork(q, x) PROVE ForksFirst'
  <2>1. /\ Len(procs) + 1 \in 1 .. Len(procs') /\ procs'[Len(procs) + 1].pid = x
        /\ Len(procs) \in Nat
    BY <1>1, <1>5 DEF Fork
  <2>2. \A i \in 1 .. Len(procs) : procs[i].pid # x
    BY <1>2, <2>1 DEF NoRecycling
  <2>3. PICK m : Emit(m) /\ m.pid = x
    BY <1>5 DEF Fork, Msg
  <2>4. tree[x] = None
    <3> SUFFICES ASSUME tree[x] # None PROVE FALSE
      OBVIOUS
    <3>1. tree[x] \in ProcNode
      BY <1>1 DEF TypeOK, DaemonTypeOK, Tables, Option
    <3>2. PICK s \in Nat, n \in Nat : s = tree[x].start /\ n = tree[x].inc
      BY <3>1 DEF ProcNode
    <3>3. Names(x, s, n)
      BY <3>2 DEF Names
    <3> QED
      BY <1>1, <2>2, <3>3 DEF NamesTrue
  <2>5. \A w \in Watcher : \A i \in 1 .. Len(chain[w]) : chain[w][i].pid # x
    <3> SUFFICES ASSUME NEW w \in Watcher, NEW i \in 1 .. Len(chain[w]), chain[w][i].pid = x
                 PROVE  FALSE
      OBVIOUS
    <3>1. PICK s \in Nat, n \in Nat : s = chain[w][i].node.start /\ n = chain[w][i].node.inc
      BY <1>1, LinkType DEF ProcNode
    <3>2. Names(x, s, n)
      BY <3>1 DEF Names
    <3> QED
      BY <1>1, <2>2, <3>2 DEF NamesTrue
  <2>6. \A j \in 1 .. Len(netlink) : netlink[j].pid # x
    BY <1>1, <2>2, OverrunOnly, PidAssumption DEF QueueTrue
  <2>7. ASSUME NEW k \in 1 .. Len(netlink'), netlink'[k].kind = "fork"
        PROVE  /\ tree[netlink'[k].pid] = None
               /\ \A w \in Watcher : \A i \in 1 .. Len(chain[w]) :
                     chain[w][i].pid # netlink'[k].pid
               /\ \A j \in 1 .. k - 1 : netlink'[j].pid # netlink'[k].pid
    <3>1. Len(netlink) \in Nat /\ netlink'[k] # Overrun
      BY <1>1, <2>7, OverrunOnly DEF TypeOK, KernelTypeOK
    <3>2. CASE k \in 1 .. Len(netlink) /\ netlink'[k] = netlink[k]
      <4>1. \A j \in 1 .. k - 1 :
               netlink'[j] = Overrun \/ netlink'[j] = netlink[j] \/ j = Len(netlink) + 1
        BY <1>1, <2>3, EmitQueue
      <4>2. \A j \in 1 .. k - 1 : netlink'[j] = Overrun \/ netlink'[j] = netlink[j]
        BY <3>1, <3>2, <4>1
      <4>3. netlink[k].pid \in Pid
        BY <1>1, <3>1, <3>2, MessageType
      <4> QED
        BY <2>7, <3>2, <4>2, <4>3, OverrunOnly, PidAssumption DEF SparesParts, ForksFirst
    <3>3. CASE /\ netlink'[k] = m /\ k = Len(netlink) + 1
               /\ \A j \in 1 .. Len(netlink) : netlink'[j] = netlink[j]
      <4>1. \A j \in 1 .. k - 1 : netlink'[j].pid # x
        BY <2>6, <3>1, <3>3
      <4> QED
        BY <2>3, <2>4, <2>5, <3>3, <4>1
    <3> QED
      BY <1>1, <2>3, <3>1, <3>2, <3>3, EmitQueue
  <2> QED
    BY <1>1, <2>7 DEF ForksFirst
<1>6. ASSUME NEW x \in Pid, NEW im \in Image, Exec(x, im) PROVE ForksFirst'
  <2>1. PICK m : Emit(m) /\ m.kind # "fork"
    BY <1>6 DEF Exec, Msg
  <2> QED
    BY <1>4, <2>1
<1>7. ASSUME NEW x \in Pid, Exit(x) PROVE ForksFirst'
  <2>1. PICK m : Emit(m) /\ m.kind # "fork"
    BY <1>7 DEF Exit, Msg
  <2> QED
    BY <1>4, <2>1
<1>8. ASSUME NEW w \in Watcher, NEW x \in Pid, Write(w, x) PROVE ForksFirst'
  BY <1>3, <1>8 DEF Write
<1>9. CASE Tick
  BY <1>3, <1>9 DEF Tick
<1> QED
  BY <1>5, <1>6, <1>7, <1>8, <1>9 DEF Machine

LEMMA MachineSpares ==
    ASSUME ExitInv, SparesParts, Machine, NoRecycling'
    PROVE  SparesParts'
<1>1. TypeOK /\ UNCHANGED <<tree, chain, rows, pc, closing>>
  BY DEF ExitInv, Machine, daemonVars, threadVars
<1>2. \A p \in Pid : Finished(p) => Finished(p)'
  BY <1>1, MachineFinished
<1>3. /\ \A r \in rows : r.pid \in Pid
      /\ closing.pid # None => closing.pid \in Pid
      /\ \A w \in Watcher : \A i \in 1 .. Len(chain[w]) : chain[w][i].pid \in Pid
      /\ \A w \in Watcher : pc[w] \in {"exit", "mark"} => Head(chain[w]).pid \in Pid
  BY <1>1, LinkType, HeadOfChain DEF TypeOK, DaemonTypeOK, ProcRow, Option
<1>4. ExitsFinish'
  BY <1>1, <1>2, <1>3 DEF SparesParts, ExitsFinish
<1>5. LinksAgree'
  BY <1>1, <1>2, <1>3 DEF SparesParts, LinksAgree
<1>6. HeadThere' /\ MarkThere'
  BY <1>1, <1>2, <1>3 DEF SparesParts, HeadThere, MarkThere
<1> QED
  BY <1>4, <1>5, <1>6, MachineForks DEF SparesParts

(* prune takes rows of processes all is over with. *)
LEMMA PruneOrderly ==
    ASSUME TypeOK, SparesParts, PruneProcesses \/ PruneEvents
    PROVE  OrderlyStep
<1>1. UNCHANGED <<procs, holder, netlink, tree, chain, pc, closing>>
  BY DEF PruneProcesses, PruneEvents, TheRest, kernelVars, threadVars
<1>2. /\ rows' \subseteq rows
      /\ \A r \in rows : r \in rows' \/ r.exit # None
  BY DEF PruneProcesses, PruneEvents, Prunable
<1>3. RowsStay
  BY <1>2 DEF SparesParts, ExitsFinish, RowsStay, Keyed
<1> QED
  BY <1>1, <1>3, SameNodes, SameLinks DEF OrderlyStep, QueueStays, HeadsStay

(* No pid was handed out twice by now, if none was by the next state. *)
LEMMA OnlyMachineForks == [ChronicleNext]_chronicleVars => Machine \/ UNCHANGED procs
<1>1. Spawn => Machine
  BY DEF Spawn, Machine
<1>2. Next => Machine \/ UNCHANGED procs
  <2>1. Boot \/ Crash \/ Evict => UNCHANGED procs
    BY DEF Boot, Crash, Evict, kernelVars
  <2>2. ConnectorStep => UNCHANGED procs
    BY DEF ConnectorStep, Listen, RecvFork, RecvExec, RecvExit, CloseRow, RecvOverrun, kernelVars
  <2>3. ASSUME NEW w \in Watcher, WatcherStep(w) PROVE UNCHANGED procs
    <3>1. Watch(w) \/ IgnoreOwn(w) \/ TakeEvent(w) \/ InsertRow(w) => UNCHANGED procs
      BY DEF Watch, IgnoreOwn, TakeEvent, InsertRow, kernelVars
    <3>2. WriteExit(w) \/ Mark(w) \/ Stamp(w) \/ RecordEvent(w) \/ AppendLog(w) => UNCHANGED procs
      BY DEF WriteExit, Mark, Stamp, RecordEvent, AppendLog, kernelVars
    <3> QED
      BY <2>3, <3>1, <3>2 DEF WatcherStep
  <2>4. ASSUME NEW w \in Watcher, ReadError(w) \/ DropEvent(w) PROVE UNCHANGED procs
    BY <2>4 DEF ReadError, DropEvent, kernelVars
  <2> QED
    BY <2>1, <2>2, <2>3, <2>4 DEF Next
<1>3. [ChronicleNext]_chronicleVars => Next \/ Spawn \/ UNCHANGED procs
  BY DEF ChronicleNext, chronicleVars, vars, kernelVars, PruneProcesses, PruneEvents, TheRest,
         PruneStopsHalfWay, Poll, Wait, LookAgain, Report
<1> QED
  BY <1>1, <1>2, <1>3

LEMMA NotRecycledBefore ==
    ASSUME TypeOK, [ChronicleNext]_chronicleVars, NoRecycling'
    PROVE  NoRecycling
<1>1. \A i \in 1 .. Len(procs) : i \in 1 .. Len(procs') /\ procs'[i].pid = procs[i].pid
  <2>1. CASE Machine
    BY <2>1, AliveBefore DEF TypeOK, KernelTypeOK
  <2>2. CASE UNCHANGED procs
    BY <2>2
  <2>3. Machine \/ UNCHANGED procs
    BY OnlyMachineForks
  <2> QED
    BY <2>1, <2>2, <2>3
<1> QED
  BY <1>1 DEF NoRecycling

LEMMA ChronicleSpares == SparesInv /\ [ChronicleNext]_chronicleVars => SparesInv'
<1> SUFFICES ASSUME SparesInv, [ChronicleNext]_chronicleVars PROVE SparesInv'
  OBVIOUS
<1>1. ExitInv /\ ExitInv' /\ TypeOK /\ TypeOK'
  BY ChronicleExitInv DEF SparesInv, ExitInv
<1>2. SUFFICES ASSUME NoRecycling' PROVE SparesParts'
  BY <1>1 DEF SparesInv
<1>3. SparesParts
  BY <1>1, <1>2, NotRecycledBefore DEF SparesInv
<1>4. CASE Machine
  BY <1>1, <1>2, <1>3, <1>4, MachineSpares
<1>5. CASE Boot \/ Crash
  BY <1>1, <1>3, <1>5, RestartSpares
<1>6. CASE (Next \/ UNCHANGED vars) /\ ~Machine /\ ~Boot /\ ~Crash
  BY <1>1, <1>3, <1>6, DaemonOrderly, OrderlySpares
<1>7. CASE PruneProcesses \/ PruneEvents
  BY <1>1, <1>3, <1>7, PruneOrderly, OrderlySpares
<1>8. Spawn => Machine
  BY DEF Spawn, Machine
<1>9. PruneStopsHalfWay \/ Poll \/ Wait \/ LookAgain \/ Report => UNCHANGED vars
  BY DEF PruneStopsHalfWay, Poll, Wait, LookAgain, Report
<1> QED
  BY <1>4, <1>5, <1>6, <1>7, <1>8, <1>9 DEF ChronicleNext, chronicleVars

(* prune never takes the row of a process that runs, whenever it comes     *)
(* between the daemon's copy, insert and mark, as long as no pid came      *)
(* round (proctree.rs:148, graph.rs:572).                                  *)
THEOREM PruneSparesRunning == ChronicleSpec => []PruneSparesTheLiving
<1>1. ChronicleInit => SparesInv
  <2> SUFFICES ASSUME Init PROVE SparesInv
    BY DEF ChronicleInit
  <2>1. /\ \A p \in Pid : tree[p] = None
        /\ rows = {} /\ Len(netlink) = 0 /\ closing.pid = None
        /\ \A w \in Watcher : Len(chain[w]) = 0 /\ pc[w] = "off"
    BY DEF Init, KernelInit, NoClosing, EmptyTable
  <2> QED
    BY <2>1, InitExitInv DEF SparesInv, SparesParts, ExitsFinish, ForksFirst, LinksAgree,
                             HeadThere, MarkThere
<1>2. SparesInv => PruneSparesTheLiving
  <2> SUFFICES ASSUME SparesInv, NoRecycling, NEW p \in Pid,
                      tree[p] # None, tree[p].persisted, tree[p].exited = None
               PROVE  \E r \in Keyed(rows, p, tree[p].start) : r.inc = tree[p].inc /\ r.exit = None
    BY DEF PruneSparesTheLiving
  <2>1. SparesParts /\ NamesTrue /\ TypeOK
    BY DEF SparesInv, ExitInv, ExitParts
  <2>2. ~Finished(p)
    BY DEF Finished
  <2>3. PICK r \in rows : r.pid = p /\ r.start = tree[p].start
    BY <2>1, <2>2 DEF SparesParts, MarkThere, Keyed
  <2>4. r.exit = None
    BY <2>1, <2>2, <2>3 DEF SparesParts, ExitsFinish
  <2>5. tree[p] \in ProcNode /\ r \in ProcRow
    BY <2>1 DEF TypeOK, DaemonTypeOK, Tables, Option
  <2>6. PICK s \in Nat, i \in Nat, j \in Nat : s = r.start /\ i = r.inc /\ j = tree[p].inc
    BY <2>5 DEF ProcNode, ProcRow
  <2>7. Names(p, s, i) /\ Names(p, s, j)
    BY <2>3, <2>6 DEF Names
  <2>8. i = j
    BY <2>1, <2>6, <2>7 DEF NamesTrue, NoRecycling
  <2> QED
    BY <2>3, <2>4, <2>6, <2>8 DEF Keyed
<1> QED
  BY <1>1, <1>2, ChronicleSpares, PTL DEF ChronicleSpec
-----------------------------------------------------------------------------
(* In the line of a process are itself and, with each, its parent.         *)
LEMMA ForebearsClosed ==
    ASSUME NEW i \in 1 .. Len(procs), Len(procs) \in Nat, Len(procs) <= MaxProcs,
           \A k \in 1 .. Len(procs) : procs[k].parent \in Nat /\ procs[k].parent < k
    PROVE  /\ i \in Forebears(i) /\ Forebears(i) \subseteq 0 .. Len(procs)
           /\ \A j \in Forebears(i) \ {0} : procs[j].parent \in Forebears(i)
<1> DEFINE line == CHOOSE line : line =
              [d \in 0 .. MaxProcs |->
                  IF d = 0 THEN {i}
                  ELSE line[d - 1] \cup {procs[j].parent : j \in line[d - 1] \ {0}}]
<1>1. PICK U : U = 0 .. Len(procs)
  OBVIOUS
<1>2. PICK X \in SUBSET U : X = {i}
  <2>1. i \in U
    BY <1>1
  <2> QED
    BY <2>1
<1>3. PICK G \in [SUBSET U -> SUBSET U] :
         \A Y \in SUBSET U : G[Y] = Y \cup {procs[j].parent : j \in Y \ {0}}
  <2>1. PICK G : G = [Y \in SUBSET U |-> Y \cup {procs[j].parent : j \in Y \ {0}}]
    OBVIOUS
  <2>2. \A j \in U \ {0} : procs[j].parent \in U
    BY <1>1
  <2>3. \A Y \in SUBSET U : Y \cup {procs[j].parent : j \in Y \ {0}} \in SUBSET U
    BY <2>2
  <2>4. G \in [SUBSET U -> SUBSET U]
    BY <2>1, <2>3
  <2> QED
    BY <2>1, <2>4
<1>4. PICK N \in Nat : N = MaxProcs
  BY BoundAssumption
<1>5. PICK f \in [0 .. N -> SUBSET U] : Searches(f, X, G, N)
  BY <1>2, <1>3, <1>4, LevelsExist
<1>6. f = [d \in 0 .. MaxProcs |->
              IF d = 0 THEN {i} ELSE f[d - 1] \cup {procs[j].parent : j \in f[d - 1] \ {0}}]
  <2>1. \A d \in 0 .. N : d # 0 => d - 1 \in 0 .. N
    OBVIOUS
  <2>2. \A d \in 0 .. N : d # 0 =>
           G[f[d - 1]] = f[d - 1] \cup {procs[j].parent : j \in f[d - 1] \ {0}}
    BY <1>3, <1>5, <2>1
  <2> QED
    BY <1>2, <1>4, <1>5, <2>2 DEF Searches
<1>7. line = [d \in 0 .. MaxProcs |->
              IF d = 0 THEN {i} ELSE line[d - 1] \cup {procs[j].parent : j \in line[d - 1] \ {0}}]
  BY <1>6
<1>8. Forebears(i) = line[MaxProcs]
  BY DEF Forebears
<1> HIDE DEF line
<1> DEFINE Good(d) ==
              /\ i \in line[d] /\ line[d] \subseteq 0 .. Len(procs)
              /\ \A j \in line[d] : j <= i - d \/ (j # 0 => procs[j].parent \in line[d])
           S == {n \in Nat : n \in 0 .. N => Good(n)}
<1>9. 0 \in S
  BY <1>4, <1>7
<1>10. ASSUME NEW n \in Nat, n \in S PROVE n + 1 \in S
  <2>1. ASSUME n + 1 \in 0 .. N PROVE Good(n + 1)
    <3>1. n \in 0 .. N /\ n + 1 # 0 /\ (n + 1) - 1 = n
      BY <2>1
    <3>2. line[n + 1] = line[n] \cup {procs[j].parent : j \in line[n] \ {0}}
      BY <1>4, <1>7, <2>1, <3>1
    <3>3. Good(n)
      BY <1>10, <3>1
    <3>4. \A j \in line[n] : j \in 0 .. Len(procs)
      BY <3>3
    <3>5. \A j \in line[n] \ {0} :
             procs[j].parent \in 0 .. Len(procs) /\ procs[j].parent < j /\ j \in Nat
      BY <3>4
    <3>6. i \in line[n + 1] /\ line[n + 1] \subseteq 0 .. Len(procs)
      BY <3>2, <3>3, <3>4, <3>5
    <3>7. ASSUME NEW j \in line[n + 1], j # 0, ~(j <= i - (n + 1))
          PROVE  procs[j].parent \in line[n + 1]
      <4>1. CASE j \in line[n]
        BY <3>2, <3>7, <4>1
      <4>2. CASE j \notin line[n]
        <5>1. PICK k \in line[n] \ {0} : j = procs[k].parent
          BY <3>2, <3>7, <4>2
        <5>2. ~(k <= i - n)
          <6>1. j < k /\ j \in Nat /\ k \in Nat
            BY <3>5, <5>1
          <6> QED
            BY <3>7, <6>1
        <5> QED
          BY <3>3, <4>2, <5>1, <5>2
      <4> QED
        BY <4>1, <4>2
    <3> QED
      BY <3>6, <3>7
  <2> QED
    BY <2>1
<1>11. Nat \subseteq S
  <2> HIDE DEF S
  <2> QED
    BY <1>9, <1>10, AllNaturals
<1>12. Good(N)
  <2>1. N \in S
    BY <1>11
  <2> QED
    BY <2>1
<1>13. \A j \in line[N] : j <= i - N => j = 0
  BY <1>4, <1>12
<1> QED
  BY <1>4, <1>8, <1>12, <1>13

-----------------------------------------------------------------------------
(* i is the process that had the pid p. *)
Told(p, i) == i \in 1 .. Len(procs) /\ procs[i].pid = p

(* A record about the process i may name q as its parent: it names none,   *)
(* the process that adopts orphans, or the pid of the one that forked i.   *)
Kin(q, i) == i \in 1 .. Len(procs) /\ (q \in {None, InitPid} \/ Told(q, procs[i].parent))

(* Nodes, links, rows and forks name the parent of the process they are    *)
(* about; ...                                                              *)
NodesKin == \A p \in Pid : tree[p] # None => Kin(tree[p].ppid, tree[p].inc)

LinksKin ==
    \A w \in Watcher : \A k \in 1 .. Len(chain[w]) :
        Kin(chain[w][k].node.ppid, chain[w][k].node.inc)

RowsKin == \A r \in rows : Kin(r.ppid, r.inc)

ForksKin ==
    \A k \in 1 .. Len(netlink) : netlink[k].kind = "fork" =>
        Kin(netlink[k].parent, netlink[k].inc)

ParentsTrue == NodesKin /\ LinksKin /\ RowsKin /\ ForksKin

(* ... an event, wherever it is kept, is by the process that had the pid.  *)
EventsTrue ==
    /\ \A e \in events : Told(e.pid, e.inc)
    /\ \A w \in Watcher : cur[w].pid \in Pid => Told(cur[w].pid, cur[w].inc)
    /\ \A w \in Watcher : \A k \in 1 .. Len(fanotify[w]) :
          fanotify[w][k].pid \in Pid => Told(fanotify[w][k].pid, fanotify[w][k].inc)

(* j is in every set that holds i and, with a process, its parent. *)
InLine(i, j) ==
    \A C \in SUBSET (0 .. Len(procs)) :
        i \in C /\ (\A k \in C \ {0} : procs[k].parent \in C) => j \in C

TracedThere ==
    /\ 1 <= Len(procs) /\ procs[1].pid = InitPid
    /\ tracer # "off" => traced \in 2 .. Len(procs) /\ Len(procs) <= MaxProcs

ManifestTrue ==
    tracer = "done" /\ NoRecycling =>
        \A e \in manifest : e.inc \in 1 .. Len(procs) /\ InLine(e.inc, traced)

(* The inductive invariant behind TraceReportsItsOwn. *)
TraceParts ==
    EventsTrue /\ TracedThere /\ ManifestTrue /\ (NoRecycling => ParentsTrue)

TraceInv == ExitInv /\ TraceParts

(* Processes are added, and one keeps its pid and its parent. *)
ProcsGrow ==
    /\ Len(procs) \in Nat /\ Len(procs') \in Nat /\ Len(procs) <= Len(procs')
    /\ \A i \in 1 .. Len(procs) :
          procs'[i].pid = procs[i].pid /\ procs'[i].parent = procs[i].parent

LEMMA MachineProcs == ASSUME TypeOK, Machine PROVE ProcsGrow
<1>1. procs \in Seq(Process) /\ Len(procs) \in Nat /\ holder \in [Pid -> 0 .. Len(procs)]
  BY DEF TypeOK, KernelTypeOK
<1>2. ASSUME NEW q \in Pid, NEW p \in Pid, Fork(q, p) PROVE ProcsGrow
  <2>1. Len(procs') = Len(procs) + 1 /\ \A i \in 1 .. Len(procs) : procs'[i] = procs[i]
    BY <1>2, ForkType
  <2> QED
    BY <1>1, <2>1 DEF ProcsGrow
<1>3. ASSUME NEW p \in Pid, NEW im \in Image, Exec(p, im) PROVE ProcsGrow
  BY <1>3, ExecType DEF ProcsGrow
<1>4. CASE UNCHANGED procs
  BY <1>1, <1>4 DEF ProcsGrow
<1> QED
  BY <1>2, <1>3, <1>4 DEF Machine, Exit, Write, Tick

LEMMA KinStays ==
    ASSUME TypeOK, ProcsGrow
    PROVE  /\ \A p, i : Told(p, i) => Told(p, i)'
           /\ \A q, i : Kin(q, i) => Kin(q, i)'
<1>1. \A p, i : Told(p, i) => Told(p, i)'
  BY DEF Told, ProcsGrow
<1>2. ASSUME NEW q, NEW i, Kin(q, i) PROVE Kin(q, i)'
  <2>1. i \in 1 .. Len(procs') /\ procs'[i].parent = procs[i].parent
    BY <1>2 DEF Kin, ProcsGrow
  <2>2. PICK k : k = procs[i].parent
    OBVIOUS
  <2>3. Told(q, k) => Told(q, k)'
    BY <1>1
  <2> QED
    BY <1>2, <2>1, <2>2, <2>3 DEF Kin, Told
<1> QED
  BY <1>1, <1>2

-----------------------------------------------------------------------------
(* Events move from the queues to the threads and to the graph. *)
EventsMove ==
    /\ \A e \in events' :
          e \in events \/ \E w \in Watcher : cur[w].pid \in Pid /\ e.pid = cur[w].pid /\ e.inc = cur[w].inc
    /\ \A w \in Watcher : cur'[w].pid \in Pid =>
          cur'[w] = cur[w] \/ \E k \in 1 .. Len(fanotify[w]) : cur'[w] = fanotify[w][k]
    /\ \A w \in Watcher : \A i \in 1 .. Len(fanotify'[w]) : fanotify'[w][i].pid \in Pid =>
          \E k \in 1 .. Len(fanotify[w]) : fanotify'[w][i] = fanotify[w][k]

LEMMA EventsMoved ==
    ASSUME TypeOK, EventsTrue, EventsMove, UNCHANGED procs
    PROVE  EventsTrue'
<1>1. \A e \in events' : Told(e.pid, e.inc)
  BY DEF EventsTrue, EventsMove
<1>2. \A w \in Watcher : cur'[w].pid \in Pid => Told(cur'[w].pid, cur'[w].inc)
  BY DEF EventsTrue, EventsMove
<1>3. \A w \in Watcher : \A k \in 1 .. Len(fanotify'[w]) :
         fanotify'[w][k].pid \in Pid => Told(fanotify'[w][k].pid, fanotify'[w][k].inc)
  BY DEF EventsTrue, EventsMove
<1> QED
  BY <1>1, <1>2, <1>3 DEF EventsTrue, Told

LEMMA QuietEvents ==
    ASSUME UNCHANGED <<events, cur, fanotify>>
    PROVE  EventsMove
  BY DEF EventsMove

LEMMA EchoedEvents ==
    ASSUME TypeOK, fanotify' = fanotify \/ fanotify' = Echoed(fanotify),
           NEW w \in Watcher, NEW i \in 1 .. Len(fanotify'[w]), fanotify'[w][i].pid \in Pid
    PROVE  \E k \in 1 .. Len(fanotify[w]) : fanotify'[w][i] = fanotify[w][k]
<1>1. CASE fanotify' = fanotify
  BY <1>1
<1>2. CASE fanotify' = Echoed(fanotify)
  BY <1>2, OwnEchoes
<1> QED
  BY <1>1, <1>2

LEMMA EchoMoves ==
    ASSUME TypeOK, fanotify' = fanotify \/ fanotify' = Echoed(fanotify),
           UNCHANGED <<events, cur>>
    PROVE  EventsMove
  BY EchoedEvents DEF EventsMove

LEMMA TakeMoves ==
    ASSUME TypeOK, NEW w \in Watcher, fanotify[w] # <<>>,
           fanotify' = [fanotify EXCEPT ![w] = Tail(@)],
           cur' = cur \/ cur' = [cur EXCEPT ![w] = Head(fanotify[w])], UNCHANGED events
    PROVE  EventsMove
<1>1. \A v \in Watcher : \A i \in 1 .. Len(fanotify'[v]) :
         \E k \in 1 .. Len(fanotify[v]) : fanotify'[v][i] = fanotify[v][k]
  BY TookHead
<1>2. \E k \in 1 .. Len(fanotify[w]) : Head(fanotify[w]) = fanotify[w][k]
  BY TookHead
<1>3. cur \in [Watcher -> Event]
  BY DEF TypeOK, DaemonTypeOK
<1> QED
  BY <1>1, <1>2, <1>3 DEF EventsMove

LEMMA RecordMoves ==
    ASSUME TypeOK, NEW w \in Watcher, RecordEvent(w)
    PROVE  EventsMove
<1>1. cur[w].pid \in Pid /\ UNCHANGED cur
  BY DEF RecordEvent, TypeOK, DaemonTypeOK
<1>2. fanotify' = fanotify \/ fanotify' = Echoed(fanotify)
  BY DEF RecordEvent
<1>3. events' = events \/ \E start : events' = events \cup {Recorded(w, start)}
  BY DEF RecordEvent
<1>4. \A start : Recorded(w, start).pid = cur[w].pid /\ Recorded(w, start).inc = cur[w].inc
  BY DEF Recorded
<1>5. \A e \in events' :
         e \in events \/ \E v \in Watcher : cur[v].pid \in Pid /\ e.pid = cur[v].pid /\ e.inc = cur[v].inc
  BY <1>1, <1>3, <1>4
<1>6. \A v \in Watcher : \A i \in 1 .. Len(fanotify'[v]) : fanotify'[v][i].pid \in Pid =>
         \E k \in 1 .. Len(fanotify[v]) : fanotify'[v][i] = fanotify[v][k]
  BY <1>2, EchoedEvents
<1> QED
  BY <1>1, <1>5, <1>6 DEF EventsMove

LEMMA AppendMoves ==
    ASSUME TypeOK, NEW w \in Watcher, AppendLog(w)
    PROVE  EventsMove
<1>1. fanotify' = fanotify \/ fanotify' = Echoed(fanotify)
  BY DEF AppendLog
<1>2. UNCHANGED events /\ \A v \in Watcher : cur'[v] = cur[v] \/ cur'[v] = NoEvent
  BY DEF AppendLog, TypeOK, DaemonTypeOK
<1>3. NoEvent.pid \notin Pid
  BY SelfAssumption DEF NoEvent, OwnEvent
<1>4. \A v \in Watcher : \A i \in 1 .. Len(fanotify'[v]) : fanotify'[v][i].pid \in Pid =>
         \E k \in 1 .. Len(fanotify[v]) : fanotify'[v][i] = fanotify[v][k]
  BY <1>1, EchoedEvents
<1> QED
  BY <1>2, <1>3, <1>4 DEF EventsMove

LEMMA CrashMoves == Crash => EventsMove
<1> SUFFICES ASSUME Crash PROVE EventsMove
  OBVIOUS
<1>1. UNCHANGED events /\ \A w \in Watcher : cur'[w] = NoEvent /\ Len(fanotify'[w]) = 0
  BY DEF Crash
<1>2. NoEvent.pid \notin Pid
  BY SelfAssumption DEF NoEvent, OwnEvent
<1> QED
  BY <1>1, <1>2 DEF EventsMove

LEMMA DaemonMoves ==
    ASSUME TypeOK, Next, ~Machine
    PROVE  EventsMove /\ UNCHANGED procs
<1>1. CASE Boot \/ Evict \/ Listen \/ RecvFork \/ RecvExec \/ RecvExit \/ RecvOverrun
  BY <1>1, QuietEvents DEF Boot, Evict, Listen, RecvFork, RecvExec, RecvExit, RecvOverrun,
                           kernelVars, threadVars
<1>2. CASE CloseRow
  BY <1>2, EchoMoves DEF CloseRow, threadVars
<1>3. CASE Crash
  BY <1>3, CrashMoves DEF Crash
<1>4. ASSUME NEW w \in Watcher,
             Watch(w) \/ InsertRow(w) \/ WriteExit(w) \/ Mark(w) \/ Stamp(w) \/ ReadError(w)
      PROVE  EventsMove /\ UNCHANGED procs
  BY <1>4, EchoMoves DEF Watch, InsertRow, WriteExit, Mark, Stamp, ReadError, kernelVars
<1>5. ASSUME NEW w \in Watcher, IgnoreOwn(w) \/ DropEvent(w) \/ TakeEvent(w)
      PROVE  EventsMove /\ UNCHANGED procs
  BY <1>5, TakeMoves DEF IgnoreOwn, DropEvent, TakeEvent, daemonVars, threadVars
<1>6. ASSUME NEW w \in Watcher, RecordEvent(w) \/ AppendLog(w)
      PROVE  EventsMove /\ UNCHANGED procs
  BY <1>6, RecordMoves, AppendMoves DEF RecordEvent, AppendLog
<1> QED
  BY <1>1, <1>2, <1>3, <1>4, <1>5, <1>6 DEF Next, WatcherStep, ConnectorStep

(* A write is reported of the process that has the pid. *)
LEMMA MachineTold ==
    ASSUME TypeOK, HolderTrue, EventsTrue, Machine
    PROVE  EventsTrue'
<1>1. fanotify \in [Watcher -> Seq(Event)] /\ UNCHANGED <<events, cur>> /\ ProcsGrow
  BY MachineProcs DEF Machine, daemonVars, threadVars, TypeOK, KernelTypeOK
<1>2. \A p, i : Told(p, i) => Told(p, i)'
  BY <1>1, KinStays
<1>3. /\ \A e \in events : Told(e.pid, e.inc)'
      /\ \A w \in Watcher : cur[w].pid \in Pid => Told(cur[w].pid, cur[w].inc)'
  <2>1. \A e \in events : Told(e.pid, e.inc)'
    <3> SUFFICES ASSUME NEW e \in events PROVE Told(e.pid, e.inc)'
      OBVIOUS
    <3>1. PICK p, i : p = e.pid /\ i = e.inc /\ Told(p, i)
      BY DEF EventsTrue
    <3> QED
      BY <1>2, <3>1 DEF Told
  <2>2. ASSUME NEW w \in Watcher, cur[w].pid \in Pid PROVE Told(cur[w].pid, cur[w].inc)'
    <3>1. PICK p, i : p = cur[w].pid /\ i = cur[w].inc /\ Told(p, i)
      BY <2>2 DEF EventsTrue
    <3> QED
      BY <1>1, <1>2, <3>1 DEF Told
  <2> QED
    BY <2>1, <2>2
<1>4. ASSUME NEW w \in Watcher, NEW k \in 1 .. Len(fanotify[w]), fanotify[w][k].pid \in Pid
      PROVE  /\ fanotify[w][k].inc \in 1 .. Len(procs')
             /\ procs'[fanotify[w][k].inc].pid = fanotify[w][k].pid
  <2>1. PICK p, i : p = fanotify[w][k].pid /\ i = fanotify[w][k].inc /\ Told(p, i)
    BY <1>4 DEF EventsTrue
  <2> QED
    BY <1>2, <2>1 DEF Told
<1>5. CASE UNCHANGED fanotify
  BY <1>1, <1>3, <1>4, <1>5 DEF EventsTrue, Told
<1>6. ASSUME NEW w \in Watcher, NEW p \in Pid, Write(w, p) PROVE EventsTrue'
  <2>1. PICK e : e = [pid |-> p, n |-> written + 1, inc |-> holder[p]]
    OBVIOUS
  <2>2. /\ fanotify'[w] = Append(fanotify[w], e)
        /\ \A v \in Watcher \ {w} : fanotify'[v] = fanotify[v]
        /\ UNCHANGED procs /\ holder[p] # 0 /\ e.pid = p /\ e.inc = holder[p]
    BY <1>1, <1>6, <2>1 DEF Write
  <2>3. e.inc \in 1 .. Len(procs') /\ procs'[e.inc].pid = e.pid
    BY <2>2, HolderType DEF HolderTrue
  <2>4. \A v \in Watcher : \A k \in 1 .. Len(fanotify'[v]) :
           fanotify'[v][k] = e \/ \E j \in 1 .. Len(fanotify[v]) : fanotify'[v][k] = fanotify[v][j]
    <3>1. fanotify[w] \in Seq(Event)
      BY <1>1
    <3>2. \A k \in 1 .. Len(Append(fanotify[w], e)) :
             \/ Append(fanotify[w], e)[k] = e
             \/ k \in 1 .. Len(fanotify[w]) /\ Append(fanotify[w], e)[k] = fanotify[w][k]
      BY <3>1
    <3>3. ASSUME NEW v \in Watcher \ {w}, NEW k \in 1 .. Len(fanotify'[v])
          PROVE  \E j \in 1 .. Len(fanotify[v]) : fanotify'[v][k] = fanotify[v][j]
      BY <2>2, <3>3
    <3>4. ASSUME NEW k \in 1 .. Len(fanotify'[w])
          PROVE  \/ fanotify'[w][k] = e
                 \/ \E j \in 1 .. Len(fanotify[w]) : fanotify'[w][k] = fanotify[w][j]
      BY <2>2, <3>2, <3>4
    <3> QED
      BY <3>3, <3>4
  <2>5. ASSUME NEW v \in Watcher, NEW k \in 1 .. Len(fanotify'[v]), fanotify'[v][k].pid \in Pid
        PROVE  /\ fanotify'[v][k].inc \in 1 .. Len(procs')
               /\ procs'[fanotify'[v][k].inc].pid = fanotify'[v][k].pid
    <3>1. CASE fanotify'[v][k] = e
      BY <2>3, <3>1
    <3>2. ASSUME NEW j \in 1 .. Len(fanotify[v]), fanotify'[v][k] = fanotify[v][j]
          PROVE  /\ fanotify'[v][k].inc \in 1 .. Len(procs')
                 /\ procs'[fanotify'[v][k].inc].pid = fanotify'[v][k].pid
      BY <1>4, <2>5, <3>2
    <3> QED
      BY <2>4, <3>1, <3>2
  <2> QED
    BY <1>1, <1>3, <2>5 DEF EventsTrue, Told
<1> QED
  BY <1>5, <1>6 DEF Machine, Fork, Exec, Exit, Tick

-----------------------------------------------------------------------------
(* Who names a parent, part by part. *)
ParentKept(t, u, p) ==
    u[p] # None => t[p] # None /\ u[p].ppid = t[p].ppid /\ u[p].inc = t[p].inc

(* exit, mark and eviction keep the parents that nodes name. *)
LEMMA ParentsStay ==
    ASSUME NEW t \in Tables, NEW p \in Pid, NEW q \in Pid, NEW ts \in Int
    PROVE  /\ ts \in Nat => ParentKept(t, OnExit(t, p, ts), q)
           /\ ParentKept(t, MarkPersisted(t, p), q)
           /\ ParentKept(t, EvictStale(t, ts), q)
<1>1. t[p] # None => t[p] \in ProcNode
  BY DEF Tables, Option
<1>2. ts \in Nat => ParentKept(t, OnExit(t, p, ts), q)
  <2>1. t[p] # None => [t[p] EXCEPT !.exited = ts].ppid = t[p].ppid
                       /\ [t[p] EXCEPT !.exited = ts].inc = t[p].inc
    BY <1>1 DEF ProcNode
  <2>2. OnExit(t, p, ts) = IF t[p] = None THEN t ELSE [t EXCEPT ![p] = [t[p] EXCEPT !.exited = ts]]
    BY DEF OnExit
  <2> QED
    BY <2>1, <2>2 DEF ParentKept, Tables
<1>3. ParentKept(t, MarkPersisted(t, p), q)
  <2>1. t[p] # None => [t[p] EXCEPT !.persisted = TRUE].ppid = t[p].ppid
                       /\ [t[p] EXCEPT !.persisted = TRUE].inc = t[p].inc
    BY <1>1 DEF ProcNode
  <2>2. MarkPersisted(t, p) =
          IF t[p] = None THEN t ELSE [t EXCEPT ![p] = [t[p] EXCEPT !.persisted = TRUE]]
    BY DEF MarkPersisted
  <2> QED
    BY <2>1, <2>2 DEF ParentKept, Tables
<1>4. ParentKept(t, EvictStale(t, ts), q)
  BY DEF ParentKept, EvictStale
<1> QED
  BY <1>2, <1>3, <1>4

LEMMA ExecKeepsParents ==
    ASSUME NEW t \in Tables, NEW p \in Pid, NEW im, NEW ppid, NEW ts, NEW inc, NEW q \in Pid,
           p = q => t[p] # None
    PROVE  ParentKept(t, OnExec(t, p, im, ppid, ts, inc), q)
<1>1. t[p] # None => t[p] \in ProcNode
  BY DEF Tables, Option
<1>2. t[p] # None => [t[p] EXCEPT !.info = im].ppid = t[p].ppid
                     /\ [t[p] EXCEPT !.info = im].inc = t[p].inc
  BY <1>1 DEF ProcNode
<1>3. CASE t[p] # None
  <2>1. OnExec(t, p, im, ppid, ts, inc) = [t EXCEPT ![p] = [t[p] EXCEPT !.info = im]]
    BY <1>3 DEF OnExec
  <2> QED
    BY <1>2, <2>1 DEF ParentKept, Tables
<1>4. CASE t[p] = None
  <2>1. OnExec(t, p, im, ppid, ts, inc) = [t EXCEPT ![p] = NewNode(ppid, im, ts, inc)]
    BY <1>4 DEF OnExec
  <2> QED
    BY <1>4, <2>1 DEF ParentKept, Tables
<1> QED
  BY <1>3, <1>4

LEMMA RowsKeepParents ==
    ASSUME NEW R \in SUBSET ProcRow, NEW p, NEW s, NEW x, NEW q \in RecordExitAt(R, p, s, x)
    PROVE  \E r \in R : q.ppid = r.ppid /\ q.inc = r.inc
<1>1. PICK r \in R : q = IF r.pid = p /\ r.start = s THEN [r EXCEPT !.exit = x] ELSE r
  BY DEF RecordExitAt
<1>2. [r EXCEPT !.exit = x].ppid = r.ppid /\ [r EXCEPT !.exit = x].inc = r.inc
  BY DEF ProcRow
<1> QED
  BY <1>1, <1>2

(* A step of the daemon: a node is left, or made with the right parent,    *)
(* and what it writes is copied.                                           *)
KinStep ==
    /\ UNCHANGED procs
    /\ \A p \in Pid : ParentKept(tree, tree', p) \/ Kin(tree'[p].ppid, tree'[p].inc)
    /\ \A w \in Watcher : \A i \in 1 .. Len(chain'[w]) :
          \/ \E k \in 1 .. Len(chain[w]) : chain'[w][i] = chain[w][k]
          \/ \E p \in Pid : tree[p] # None /\ chain'[w][i].node = tree[p]
    /\ \A q \in rows' :
          \/ \E r \in rows : q.ppid = r.ppid /\ q.inc = r.inc
          \/ \E w \in Watcher : \E k \in 1 .. Len(chain[w]) :
                q.ppid = chain[w][k].node.ppid /\ q.inc = chain[w][k].node.inc
    /\ \A i \in 1 .. Len(netlink') :
          \E k \in 1 .. Len(netlink) : netlink'[i] = netlink[k]

LEMMA KinKept ==
    ASSUME ParentsTrue, KinStep
    PROVE  ParentsTrue'
<1>1. \A q, i : Kin(q, i)' <=> Kin(q, i)
  BY DEF KinStep, Kin, Told
<1>2. \A p \in Pid : tree'[p] # None => Kin(tree'[p].ppid, tree'[p].inc)
  BY DEF ParentsTrue, NodesKin, KinStep, ParentKept
<1>3. \A w \in Watcher : \A i \in 1 .. Len(chain'[w]) :
         Kin(chain'[w][i].node.ppid, chain'[w][i].node.inc)
  BY DEF ParentsTrue, NodesKin, LinksKin, KinStep
<1>4. \A q \in rows' : Kin(q.ppid, q.inc)
  BY DEF ParentsTrue, LinksKin, RowsKin, KinStep
<1>5. \A k \in 1 .. Len(netlink') : netlink'[k].kind = "fork" =>
         Kin(netlink'[k].parent, netlink'[k].inc)
  BY DEF ParentsTrue, ForksKin, KinStep
<1>6. UNCHANGED procs
  BY DEF KinStep
<1> QED
  BY <1>2, <1>3, <1>4, <1>5, <1>6 DEF ParentsTrue, NodesKin, LinksKin, RowsKin, ForksKin, Kin, Told

LEMMA RowsGoKin ==
    ASSUME UNCHANGED <<procs, tree, chain, netlink>>, rows' \subseteq rows
    PROVE  KinStep
  BY DEF KinStep, ParentKept

LEMMA InsertRowKin ==
    ASSUME TypeOK, NEW w \in Watcher, InsertRow(w)
    PROVE  KinStep
<1>1. chain[w] # <<>> /\ chain[w] \in Seq(ChainItem) /\ UNCHANGED <<procs, tree, netlink>>
  BY DEF InsertRow, TypeOK, DaemonTypeOK
<1>2. CASE chain' = [chain EXCEPT ![w] = Tail(@)] /\ UNCHANGED rows
           /\ pc' = [pc EXCEPT ![w] = AfterChain(Tail(chain[w]))]
  BY <1>1, <1>2, ChainShrinks DEF KinStep, ParentKept
<1>3. CASE rows' = RecordExisting(rows, Head(chain[w]).pid, Head(chain[w]).node) /\ UNCHANGED chain
  <2>1. 1 \in 1 .. Len(chain[w]) /\ Head(chain[w]) = chain[w][1]
    BY <1>1
  <2>2. \A q \in rows' : \/ q \in rows
                         \/ /\ q.ppid = Head(chain[w]).node.ppid
                            /\ q.inc = Head(chain[w]).node.inc
    BY <1>3 DEF RecordExisting
  <2> QED
    BY <1>1, <1>3, <2>1, <2>2 DEF KinStep, ParentKept
<1> QED
  BY <1>2, <1>3 DEF InsertRow

LEMMA TakeEventKin ==
    ASSUME TypeOK, NEW w \in Watcher, TakeEvent(w)
    PROVE  KinStep
<1>1. UNCHANGED <<procs, netlink, tree, rows>> /\ tree \in Tables
  BY DEF TakeEvent, TypeOK, DaemonTypeOK
<1>2. PICK e \in Event : e = Head(fanotify[w]) /\ e.pid \in Pid
  BY QueueReads DEF TakeEvent, Event
<1>3. \/ UNCHANGED chain
      \/ \E c \in Climbs(tree, e.pid) : chain' = [chain EXCEPT ![w] = ChainOf(tree, c)]
  BY <1>2 DEF TakeEvent
<1>4. CASE UNCHANGED chain
  BY <1>1, <1>4 DEF KinStep, ParentKept
<1>5. ASSUME NEW c \in Climbs(tree, e.pid), chain' = [chain EXCEPT ![w] = ChainOf(tree, c)]
      PROVE  KinStep
  <2>1. \A i \in 1 .. Len(ChainOf(tree, c)) :
           /\ ChainOf(tree, c)[i].pid \in Pid
           /\ tree[ChainOf(tree, c)[i].pid] # None
           /\ ChainOf(tree, c)[i].node = tree[ChainOf(tree, c)[i].pid]
    BY <1>1, <1>2, <1>5, ChainOfClimb
  <2>2. chain'[w] = ChainOf(tree, c) /\ \A v \in Watcher \ {w} : chain'[v] = chain[v]
    BY <1>5 DEF TypeOK, DaemonTypeOK
  <2>3. \A v \in Watcher : \A i \in 1 .. Len(chain'[v]) :
          \/ \E k \in 1 .. Len(chain[v]) : chain'[v][i] = chain[v][k]
          \/ \E p \in Pid : tree[p] # None /\ chain'[v][i].node = tree[p]
    BY <2>1, <2>2
  <2> QED
    BY <1>1, <2>3 DEF KinStep, ParentKept
<1> QED
  BY <1>3, <1>4, <1>5

LEMMA MarkKin ==
    ASSUME TypeOK, NEW w \in Watcher, Mark(w)
    PROVE  KinStep
<1>1. chain[w] # <<>> /\ tree \in Tables /\ 0 \in Int
  BY DEF Mark, TypeOK, DaemonTypeOK
<1>2. PICK p \in Pid : p = Head(chain[w]).pid
  BY <1>1, HeadOfChain
<1>3. tree' = MarkPersisted(tree, p) /\ UNCHANGED <<procs, netlink, rows>>
  BY <1>2 DEF Mark, kernelVars
<1>4. \A q \in Pid : ParentKept(tree, MarkPersisted(tree, p), q)
  BY <1>1, <1>2, ParentsStay
<1>5. \A v \in Watcher : \A i \in 1 .. Len(chain'[v]) :
         \E k \in 1 .. Len(chain[v]) : chain'[v][i] = chain[v][k]
  BY <1>1, ChainShrinks DEF Mark
<1> QED
  BY <1>3, <1>4, <1>5 DEF KinStep

LEMMA ClosesKin ==
    ASSUME TypeOK, UNCHANGED <<procs, tree, chain, netlink>>,
           NEW p, NEW s, NEW x, rows' = rows \/ rows' = RecordExitAt(rows, p, s, x)
    PROVE  KinStep
<1>1. rows \in SUBSET ProcRow
  BY DEF TypeOK, DaemonTypeOK
<1>2. \A q \in rows' : \E r \in rows : q.ppid = r.ppid /\ q.inc = r.inc
  BY <1>1, RowsKeepParents
<1> QED
  BY <1>2 DEF KinStep, ParentKept

LEMMA QueueGoes ==
    ASSUME TypeOK, NEW kind, Receives(kind)
    PROVE  \A i \in 1 .. Len(netlink') :
              \E k \in 1 .. Len(netlink) : netlink'[i] = netlink[k]
  BY TailQueue DEF Receives

LEMMA RecvForkKin ==
    ASSUME TypeOK, ParentsTrue, RecvFork
    PROVE  KinStep
<1>1. Receives("fork")
  BY DEF RecvFork
<1>2. PICK p \in Pid, n \in Nat : p = Head(netlink).pid /\ n = Head(netlink).inc
  BY <1>1, HeadOfNetlink
<1>3. PICK q \in Option(Pid) : q = Head(netlink).parent
  BY <1>1, HeadOfNetlink
<1>4. tree \in Tables /\ now \in Nat
  BY DEF TypeOK, KernelTypeOK, DaemonTypeOK
<1>5. tree' = OnFork(tree, q, p, now, n)
  BY <1>2, <1>3 DEF RecvFork
<1>6. tree'[p] = NewNode(q, None, now, n) /\ \A x \in Pid \ {p} : tree'[x] = tree[x]
  BY <1>4, <1>5, OnForkTable
<1>7. Kin(q, n)
  <2>1. 1 \in 1 .. Len(netlink) /\ netlink[1] = Head(netlink) /\ netlink[1].kind = "fork"
    BY <1>1, TailQueue DEF Receives
  <2> QED
    BY <1>2, <1>3, <2>1 DEF ParentsTrue, ForksKin
<1>8. UNCHANGED <<procs, chain, rows>>
  BY DEF RecvFork, threadVars
<1>9. \A x \in Pid : ParentKept(tree, tree', x) \/ Kin(tree'[x].ppid, tree'[x].inc)
  BY <1>6, <1>7 DEF ParentKept, NewNode
<1> QED
  BY <1>1, <1>8, <1>9, QueueGoes DEF KinStep

(* What /proc says of a process that runs is its parent or its adopter. *)
LEMMA ProcParentKin ==
    ASSUME TypeOK, HolderTrue, NEW p \in Pid, holder[p] # 0
    PROVE  Kin(ProcParent(p), holder[p])
<1>1. holder[p] \in 1 .. Len(procs) /\ Len(procs) \in Nat
  BY HolderType
<1>2. PICK k : k = procs[holder[p]].parent
  OBVIOUS
<1>3. k \in Nat /\ k < holder[p]
  BY <1>1, <1>2, ProcsType
<1>4. ProcParent(p) \in {None, InitPid} \/ (k # 0 /\ ProcParent(p) = procs[k].pid)
  BY <1>2 DEF ProcParent, Alive
<1> QED
  BY <1>1, <1>2, <1>3, <1>4 DEF Kin, Told

LEMMA RecvExecKin ==
    ASSUME ExitInv, NoRecycling, ParentsTrue, RecvExec
    PROVE  KinStep
<1>1. Receives("exec") /\ TypeOK /\ HolderTrue /\ QueueTrue
  BY DEF RecvExec, ExitInv, ExitParts
<1>2. PICK p \in Pid, n \in Nat : p = Head(netlink).pid /\ n = Head(netlink).inc
  BY <1>1, HeadOfNetlink
<1>3. PICK im \in Option(Image), q \in Option(Pid) : im = ProcImage(p) /\ q = ProcParent(p)
  BY <1>1, ProcReads
<1>4. tree \in Tables /\ now \in Nat
  BY <1>1 DEF TypeOK, KernelTypeOK, DaemonTypeOK
<1>5. tree' = OnExec(tree, p, im, q, now, n)
  BY <1>2, <1>3 DEF RecvExec
<1>6. Kin(q, n)
  <2>1. /\ 1 \in 1 .. Len(netlink) /\ netlink[1].pid = p /\ netlink[1].inc = n
        /\ netlink[1].kind = "exec"
    BY <1>1, <1>2, TailQueue DEF Receives
  <2>2. n \in 1 .. Len(procs) /\ procs[n].pid = p
    BY <1>1, <2>1, OverrunOnly DEF QueueTrue
  <2>3. CASE holder[p] = 0
    BY <1>3, <2>2, <2>3 DEF ProcParent, Kin
  <2>4. CASE holder[p] # 0
    <3>1. holder[p] \in 1 .. Len(procs) /\ procs[holder[p]].pid = p
      BY <1>1, <2>4, HolderType DEF HolderTrue
    <3>2. holder[p] = n
      BY <2>2, <3>1 DEF NoRecycling
    <3> QED
      BY <1>1, <1>3, <2>4, <3>2, ProcParentKin
  <2> QED
    BY <2>3, <2>4
<1>7. UNCHANGED <<procs, chain, rows>>
  BY DEF RecvExec, threadVars
<1>8. \A x \in Pid : ParentKept(tree, tree', x) \/ Kin(tree'[x].ppid, tree'[x].inc)
  <2>1. CASE tree[p] = None
    <3>1. tree'[p] = NewNode(q, im, now, n)
      BY <1>4, <1>5, <2>1, OnExecTable
    <3>2. \A x \in Pid : x # p => ParentKept(tree, tree', x)
      BY <1>4, <1>5, ExecKeepsParents
    <3> QED
      BY <1>6, <3>1, <3>2 DEF NewNode
  <2>2. CASE tree[p] # None
    BY <1>4, <1>5, <2>2, ExecKeepsParents
  <2> QED
    BY <2>1, <2>2
<1> QED
  BY <1>1, <1>7, <1>8, QueueGoes DEF KinStep

LEMMA RecvExitKin ==
    ASSUME TypeOK, RecvExit
    PROVE  KinStep
<1>1. Receives("exit") /\ tree \in Tables /\ now \in Nat /\ now \in Int
  BY DEF RecvExit, TypeOK, KernelTypeOK, DaemonTypeOK
<1>2. PICK p \in Pid : p = Head(netlink).pid
  BY <1>1, HeadOfNetlink
<1>3. tree' = OnExit(tree, p, now) /\ UNCHANGED <<procs, chain, rows>>
  BY <1>2 DEF RecvExit, threadVars
<1>4. \A q \in Pid : ParentKept(tree, tree', q)
  BY <1>1, <1>2, <1>3, ParentsStay
<1> QED
  BY <1>1, <1>3, <1>4, QueueGoes DEF KinStep

LEMMA EvictKin ==
    ASSUME TypeOK, Evict
    PROVE  KinStep
<1>1. PICK before \in Int : before = now - Grace
  BY GraceAssumption DEF TypeOK, KernelTypeOK
<1>2. /\ tree \in Tables /\ tree' = EvictStale(tree, before)
      /\ UNCHANGED <<procs, netlink, chain, rows>>
  BY <1>1 DEF Evict, kernelVars, threadVars, TypeOK, DaemonTypeOK
<1>3. \A q \in Pid : ParentKept(tree, tree', q)
  <2> SUFFICES ASSUME NEW q \in Pid PROVE ParentKept(tree, tree', q)
    OBVIOUS
  <2>1. ParentKept(tree, EvictStale(tree, before), q)
    BY <1>2, ParentsStay
  <2> QED
    BY <1>2, <2>1
<1> QED
  BY <1>2, <1>3 DEF KinStep

LEMMA QuietKin ==
    ASSUME TypeOK, UNCHANGED <<procs, tree, chain, rows>>,
           UNCHANGED netlink \/ \E kind : Receives(kind)
    PROVE  KinStep
<1>1. \A i \in 1 .. Len(netlink') :
         \E k \in 1 .. Len(netlink) : netlink'[i] = netlink[k]
  BY QueueGoes
<1> QED
  BY <1>1 DEF KinStep, ParentKept

LEMMA RestartKin ==
    ASSUME ExitInv, ParentsTrue, Boot \/ Crash
    PROVE  KinStep
<1>1. TypeOK /\ HolderTrue /\ UNCHANGED <<procs, rows>>
  BY DEF ExitInv, ExitParts, Boot, Crash
<1>2. \A p \in Pid : tree'[p] # None => Kin(tree'[p].ppid, tree'[p].inc)
  <2>1. CASE Crash
    BY <2>1 DEF Crash, EmptyTable
  <2>2. CASE Boot
    <3>1. \A p \in Pid : tree'[p] # None =>
             /\ holder[p] # 0 /\ tree'[p].ppid = ProcParent(p) /\ tree'[p].inc = holder[p]
      BY <2>2, BootNodes
    <3> QED
      BY <1>1, <3>1, ProcParentKin
  <2> QED
    BY <2>1, <2>2
<1>3. netlink' = netlink \/ Len(netlink') = 0
  BY DEF Boot, Crash
<1>4. \A w \in Watcher : chain'[w] = chain[w] \/ Len(chain'[w]) = 0
  BY DEF Boot, Crash, threadVars
<1>5. \A p \in Pid : ParentKept(tree, tree', p) \/ Kin(tree'[p].ppid, tree'[p].inc)
  BY <1>2 DEF ParentKept
<1>6. \A i \in 1 .. Len(netlink') :
         \E k \in 1 .. Len(netlink) : netlink'[i] = netlink[k]
  BY <1>3
<1>7. \A w \in Watcher : \A i \in 1 .. Len(chain'[w]) :
         \E k \in 1 .. Len(chain[w]) : chain'[w][i] = chain[w][k]
  BY <1>4
<1> QED
  BY <1>1, <1>5, <1>6, <1>7 DEF KinStep

-----------------------------------------------------------------------------
(* The parents that records name stay true. *)
LEMMA DaemonKin ==
    ASSUME ExitInv, NoRecycling, ParentsTrue, Next \/ UNCHANGED vars, ~Machine
    PROVE  KinStep
<1>1. TypeOK
  BY DEF ExitInv
<1>2. ASSUME NEW w \in Watcher,
             Watch(w) \/ IgnoreOwn(w) \/ DropEvent(w) \/ Stamp(w) \/ RecordEvent(w)
             \/ AppendLog(w) \/ ReadError(w)
      PROVE  KinStep
  BY <1>1, <1>2, QuietKin DEF Watch, IgnoreOwn, DropEvent, Stamp, RecordEvent, AppendLog,
                              ReadError, kernelVars, daemonVars, threadVars
<1>3. ASSUME NEW w \in Watcher, WriteExit(w) PROVE KinStep
  <2>1. UNCHANGED <<procs, tree, chain, netlink>>
    BY <1>3 DEF WriteExit
  <2>2. PICK p, s, x : /\ p = Head(chain[w]).pid /\ s = Head(chain[w]).node.start
                       /\ x = Head(chain[w]).node.exited
    OBVIOUS
  <2>3. rows' = rows \/ rows' = RecordExitAt(rows, p, s, x)
    BY <1>3, <2>2 DEF WriteExit
  <2> QED
    BY <1>1, <2>1, <2>3, ClosesKin
<1>4. CASE CloseRow
  <2>1. UNCHANGED <<procs, tree, chain, netlink>>
    BY <1>4 DEF CloseRow, threadVars
  <2>2. rows' = rows \/ rows' = RecordExitAt(rows, closing.pid, closing.start, closing.exit)
    BY <1>4 DEF CloseRow
  <2> QED
    BY <1>1, <2>1, <2>2, ClosesKin
<1>5. CASE Listen \/ RecvOverrun \/ UNCHANGED vars
  BY <1>1, <1>5, QuietKin DEF Listen, RecvOverrun, vars, kernelVars, daemonVars, threadVars
<1>6. ASSUME NEW w \in Watcher, WatcherStep(w) \/ ReadError(w) \/ DropEvent(w) PROVE KinStep
  BY <1>1, <1>2, <1>3, <1>6, InsertRowKin, TakeEventKin, MarkKin DEF WatcherStep
<1>7. CASE ConnectorStep
  BY <1>1, <1>4, <1>5, <1>7, RecvForkKin, RecvExecKin, RecvExitKin DEF ConnectorStep
<1> QED
  BY <1>1, <1>5, <1>6, <1>7, RestartKin, EvictKin DEF Next

LEMMA MachineKin ==
    ASSUME TypeOK, HolderTrue, ParentsTrue, Machine
    PROVE  ParentsTrue'
<1>1. ProcsGrow /\ UNCHANGED <<tree, chain, rows>>
  BY MachineProcs DEF Machine, daemonVars, threadVars
<1>2. \A q, i : Kin(q, i) => Kin(q, i)'
  BY <1>1, KinStays
<1>3. /\ \A p \in Pid : tree[p] # None => Kin(tree[p].ppid, tree[p].inc)'
      /\ \A w \in Watcher : \A k \in 1 .. Len(chain[w]) :
            Kin(chain[w][k].node.ppid, chain[w][k].node.inc)'
      /\ \A r \in rows : Kin(r.ppid, r.inc)'
  <2>1. ASSUME NEW p \in Pid, tree[p] # None PROVE Kin(tree[p].ppid, tree[p].inc)'
    <3>1. PICK q, i : q = tree[p].ppid /\ i = tree[p].inc /\ Kin(q, i)
      BY <2>1 DEF ParentsTrue, NodesKin
    <3> QED
      BY <1>1, <1>2, <3>1 DEF Kin, Told
  <2>2. ASSUME NEW w \in Watcher, NEW k \in 1 .. Len(chain[w])
        PROVE  Kin(chain[w][k].node.ppid, chain[w][k].node.inc)'
    <3>1. PICK q, i : q = chain[w][k].node.ppid /\ i = chain[w][k].node.inc /\ Kin(q, i)
      BY DEF ParentsTrue, LinksKin
    <3> QED
      BY <1>1, <1>2, <3>1 DEF Kin, Told
  <2>3. ASSUME NEW r \in rows PROVE Kin(r.ppid, r.inc)'
    <3>1. PICK q, i : q = r.ppid /\ i = r.inc /\ Kin(q, i)
      BY DEF ParentsTrue, RowsKin
    <3> QED
      BY <1>2, <3>1 DEF Kin, Told
  <2> QED
    BY <2>1, <2>2, <2>3
<1>4. NodesKin' /\ LinksKin' /\ RowsKin'
  BY <1>1, <1>3 DEF NodesKin, LinksKin, RowsKin, Kin, Told
<1>5. \A k \in 1 .. Len(netlink) : netlink[k].kind = "fork" =>
         /\ netlink[k].inc \in 1 .. Len(procs')
         /\ \/ netlink[k].parent \in {None, InitPid}
            \/ /\ procs'[netlink[k].inc].parent \in 1 .. Len(procs')
               /\ procs'[procs'[netlink[k].inc].parent].pid = netlink[k].parent
  <2> SUFFICES ASSUME NEW k \in 1 .. Len(netlink), netlink[k].kind = "fork"
               PROVE  /\ netlink[k].inc \in 1 .. Len(procs')
                      /\ \/ netlink[k].parent \in {None, InitPid}
                         \/ /\ procs'[netlink[k].inc].parent \in 1 .. Len(procs')
                            /\ procs'[procs'[netlink[k].inc].parent].pid = netlink[k].parent
    OBVIOUS
  <2>1. PICK q, i : q = netlink[k].parent /\ i = netlink[k].inc /\ Kin(q, i)
    BY DEF ParentsTrue, ForksKin
  <2> QED
    BY <1>2, <2>1 DEF Kin, Told
<1>6. ASSUME NEW m, Emit(m),
             m.kind = "fork" => Kin(m.parent, m.inc)'
      PROVE  ForksKin'
  <2>1. \A i \in 1 .. Len(netlink') :
           \/ netlink'[i] = Overrun
           \/ i \in 1 .. Len(netlink) /\ netlink'[i] = netlink[i]
           \/ netlink'[i] = m
    BY <1>6, EmitQueue
  <2>2. Overrun.kind # "fork"
    BY OverrunOnly
  <2>3. \A i \in 1 .. Len(netlink') : netlink'[i].kind = "fork" =>
           /\ netlink'[i].inc \in 1 .. Len(procs')
           /\ \/ netlink'[i].parent \in {None, InitPid}
              \/ /\ procs'[netlink'[i].inc].parent \in 1 .. Len(procs')
                 /\ procs'[procs'[netlink'[i].inc].parent].pid = netlink'[i].parent
    BY <1>5, <1>6, <2>1, <2>2 DEF Kin, Told
  <2> QED
    BY <2>3 DEF ForksKin, Kin, Told
<1>7. ASSUME NEW q \in Pid, NEW p \in Pid, Fork(q, p) PROVE ForksKin'
  <2>1. PICK m : m = Msg("fork", p, q, Len(procs) + 1)
    OBVIOUS
  <2>2. Emit(m) /\ m.parent = q /\ m.inc = Len(procs) + 1
    BY <1>7, <2>1 DEF Fork, Msg
  <2>3. PICK h \in 1 .. Len(procs) : h = holder[q] /\ procs[h].pid = q
    BY <1>7, HolderType DEF Fork, HolderTrue
  <2>4. procs' = Append(procs, [pid |-> p, parent |-> h, image |-> procs[h].image])
    BY <1>7, <2>3 DEF Fork
  <2>5. procs \in Seq(Process) /\ Len(procs) \in Nat
    BY DEF TypeOK, KernelTypeOK
  <2>6. /\ Len(procs') = Len(procs) + 1 /\ procs'[Len(procs) + 1].parent = h
        /\ procs'[h] = procs[h]
    BY <2>4, <2>5
  <2>7. Kin(m.parent, m.inc)'
    BY <2>1, <2>2, <2>3, <2>5, <2>6 DEF Kin, Told
  <2> QED
    BY <1>6, <2>2, <2>7
<1>8. ASSUME NEW m, Emit(m), m.kind # "fork" PROVE ForksKin'
  BY <1>6, <1>8
<1>9. ASSUME NEW p \in Pid, NEW im \in Image, Exec(p, im) PROVE ForksKin'
  <2>1. PICK m : m = Msg("exec", p, None, holder[p])
    OBVIOUS
  <2> QED
    BY <1>8, <1>9, <2>1 DEF Exec, Msg
<1>10. ASSUME NEW p \in Pid, Exit(p) PROVE ForksKin'
  <2>1. PICK m : m = Msg("exit", p, None, holder[p])
    OBVIOUS
  <2> QED
    BY <1>8, <1>10, <2>1 DEF Exit, Msg
<1>11. ASSUME UNCHANGED netlink PROVE ForksKin'
  BY <1>5, <1>11 DEF ForksKin, Kin, Told
<1>12. ForksKin'
  <2>1. (Tick \/ \E w \in Watcher, p \in Pid : Write(w, p)) => UNCHANGED netlink
    BY DEF Write, Tick
  <2> QED
    BY <1>7, <1>9, <1>10, <1>11, <2>1 DEF Machine
<1> QED
  BY <1>4, <1>12 DEF ParentsTrue

-----------------------------------------------------------------------------
LEMMA ChronicleGrows ==
    ASSUME TypeOK, [ChronicleNext]_chronicleVars
    PROVE  ProcsGrow
<1>1. CASE UNCHANGED procs
  BY <1>1 DEF ProcsGrow, TypeOK, KernelTypeOK
<1> QED
  BY <1>1, OnlyMachineForks, MachineProcs

LEMMA MachineBound ==
    ASSUME TypeOK, Machine, Len(procs) <= MaxProcs
    PROVE  Len(procs') <= MaxProcs
<1>1. ASSUME NEW q \in Pid, NEW p \in Pid, Fork(q, p) PROVE Len(procs') <= MaxProcs
  <2>1. Len(procs') = Len(procs) + 1 /\ Len(procs) < MaxProcs /\ Len(procs) \in Nat
    BY <1>1, ForkType DEF Fork, TypeOK, KernelTypeOK
  <2> QED
    BY <2>1, BoundAssumption
<1>2. ASSUME NEW p \in Pid, NEW im \in Image, Exec(p, im) PROVE Len(procs') <= MaxProcs
  BY <1>2, ExecType
<1>3. (Tick \/ (\E p \in Pid : Exit(p)) \/ \E w \in Watcher, p \in Pid : Write(w, p)) => UNCHANGED procs
  BY DEF Tick, Exit, Write
<1> QED
  BY <1>1, <1>2, <1>3 DEF Machine

LEMMA SpawnTraces ==
    ASSUME TypeOK, TracedThere, Spawn
    PROVE  TracedThere'
<1>1. PICK q \in Pid, p \in Pid : Fork(q, p)
  BY DEF Spawn
<1>2. /\ Len(procs') = Len(procs) + 1 /\ Len(procs) \in Nat /\ Len(procs) < MaxProcs
      /\ \A i \in 1 .. Len(procs) : procs'[i] = procs[i]
  BY <1>1, ForkType DEF Fork, TypeOK, KernelTypeOK
<1>3. traced' = Len(procs) + 1 /\ 1 <= Len(procs) /\ procs[1].pid = InitPid
  BY DEF Spawn, TracedThere
<1> QED
  BY <1>2, <1>3, BoundAssumption DEF TracedThere

LEMMA TracedStays ==
    ASSUME TypeOK, TracedThere, [ChronicleNext]_chronicleVars
    PROVE  TracedThere'
<1>1. CASE Spawn
  BY <1>1, SpawnTraces
<1>2. CASE ~Spawn
  <2>1. (tracer' # "off" => tracer # "off") /\ UNCHANGED traced
    BY <1>2 DEF ChronicleNext, chronicleVars, traceVars, PruneProcesses, PruneEvents,
                PruneStopsHalfWay, Poll, Wait, LookAgain, Report
  <2>2. /\ ProcsGrow /\ 1 <= Len(procs) /\ procs[1].pid = InitPid
        /\ Len(procs) <= MaxProcs => Len(procs') <= MaxProcs
    BY ChronicleGrows, OnlyMachineForks, MachineBound DEF TracedThere
  <2>3. 1 <= Len(procs') /\ procs'[1].pid = InitPid
    BY <2>2 DEF ProcsGrow
  <2>4. tracer' # "off" => traced' \in 2 .. Len(procs') /\ Len(procs') <= MaxProcs
    BY <2>1, <2>2 DEF ProcsGrow, TracedThere
  <2> QED
    BY <2>3, <2>4 DEF TracedThere
<1> QED
  BY <1>1, <1>2

LEMMA InLineStays ==
    ASSUME TypeOK, ProcsGrow, NEW i \in 1 .. Len(procs), NEW j, InLine(i, j)
    PROVE  InLine(i, j)'
<1> SUFFICES ASSUME NEW D \in SUBSET (0 .. Len(procs')), i \in D,
                    \A k \in D \ {0} : procs'[k].parent \in D
             PROVE  j \in D
  BY DEF InLine
<1>1. PICK C : C = D \cap 0 .. Len(procs)
  OBVIOUS
<1>2. Len(procs) \in Nat /\ C \in SUBSET (0 .. Len(procs)) /\ i \in C
  BY <1>1 DEF ProcsGrow
<1>3. ASSUME NEW k \in C \ {0} PROVE procs[k].parent \in C
  <2>1. k \in 1 .. Len(procs) /\ k \in D \ {0}
    BY <1>1, <1>2
  <2>2. procs[k].parent \in Nat /\ procs[k].parent < k
    BY <2>1, ProcsType
  <2>3. procs[k].parent \in 0 .. Len(procs)
    BY <1>2, <2>1, <2>2
  <2>4. procs[k].parent \in D
    BY <2>1 DEF ProcsGrow
  <2> QED
    BY <1>1, <2>3, <2>4
<1>4. j \in C
  BY <1>2, <1>3 DEF InLine
<1> QED
  BY <1>1, <1>4

(* The rows below that of the command are of processes in its line. *)
LEMMA TreeInLine ==
    ASSUME TypeOK, NamesTrue, RowsKin, NoRecycling, NEW c \in 2 .. Len(procs), NEW s,
           1 <= Len(procs), procs[1].pid = InitPid,
           NEW r \in Descendants(rows, procs[c].pid, s)
    PROVE  r \in rows /\ Told(r.pid, r.inc) /\ InLine(r.inc, c)
<1>1. ASSUME NEW x \in rows PROVE x.pid \in Pid /\ Told(x.pid, x.inc)
  <2>1. x \in ProcRow
    BY DEF TypeOK, DaemonTypeOK
  <2>2. PICK p \in Pid, t \in Nat, i \in Nat : p = x.pid /\ t = x.start /\ i = x.inc
    BY <2>1 DEF ProcRow
  <2>3. Names(p, t, i)
    BY <2>2 DEF Names
  <2> QED
    BY <2>2, <2>3 DEF NamesTrue, Told
<1>2. Len(procs) \in Nat /\ procs[1].parent = 0
  <2>1. Len(procs) \in Nat /\ 1 \in 1 .. Len(procs)
    BY DEF TypeOK, KernelTypeOK
  <2>2. procs[1].parent \in Nat /\ procs[1].parent < 1
    BY <2>1, ProcsType
  <2> QED
    BY <2>1, <2>2
<1> DEFINE C == {x \in rows : InLine(x.inc, c)}
<1>3. Keyed(rows, procs[c].pid, s) \subseteq C
  <2> SUFFICES ASSUME NEW x \in rows, x.pid = procs[c].pid PROVE InLine(x.inc, c)
    BY DEF Keyed
  <2>1. x.inc = c
    BY <1>1, <1>2 DEF NoRecycling, Told
  <2> QED
    BY <2>1 DEF InLine
<1>4. ASSUME NEW x \in C PROVE ChildRows(rows, x) \subseteq C
  <2> SUFFICES ASSUME NEW y \in rows, y.ppid = x.pid PROVE InLine(y.inc, c)
    BY DEF ChildRows
  <2>1. x.pid \in Pid /\ Told(x.pid, x.inc) /\ InLine(x.inc, c)
    BY <1>1
  <2>2. y.inc \in 1 .. Len(procs) /\ (y.ppid \in {None, InitPid} \/ Told(y.ppid, procs[y.inc].parent))
    BY DEF RowsKin, Kin
  <2>3. y.ppid # None
    BY <2>1, PidAssumption
  <2>4. CASE y.ppid = InitPid
    <3>1. x.inc = 1
      BY <1>2, <2>1, <2>4 DEF NoRecycling, Told
    <3>2. {0, 1} \in SUBSET (0 .. Len(procs)) /\ 1 \in {0, 1}
      BY <1>2
    <3>3. \A k \in {0, 1} \ {0} : procs[k].parent \in {0, 1}
      BY <1>2
    <3>4. c \in {0, 1}
      BY <2>1, <3>1, <3>2, <3>3 DEF InLine
    <3> QED
      BY <1>2, <3>4
  <2>5. CASE Told(y.ppid, procs[y.inc].parent)
    <3>1. procs[y.inc].parent = x.inc /\ x.inc # 0 /\ y.inc # 0
      BY <1>2, <2>1, <2>2, <2>5 DEF NoRecycling, Told
    <3> SUFFICES ASSUME NEW D \in SUBSET (0 .. Len(procs)), y.inc \in D,
                        \A k \in D \ {0} : procs[k].parent \in D
                 PROVE  c \in D
      BY DEF InLine
    <3>2. x.inc \in D
      BY <3>1
    <3> QED
      BY <2>1, <3>2 DEF InLine
  <2> QED
    BY <2>2, <2>3, <2>4, <2>5
<1>5. r \in C
  <2>1. C \in SUBSET rows
    OBVIOUS
  <2> HIDE DEF C
  <2> QED
    BY <1>3, <1>4, <2>1, DescendantsWithin
<1> QED
  BY <1>1, <1>5

LEMMA ReportInLine ==
    ASSUME TypeOK, NamesTrue, RowsKin, NoRecycling, EventsTrue, TracedThere, Report,
           NEW e \in manifest'
    PROVE  e.inc \in 1 .. Len(procs) /\ InLine(e.inc, traced)
<1>1. /\ traced \in 2 .. Len(procs) /\ 1 <= Len(procs) /\ procs[1].pid = InitPid
  BY DEF TracedThere, Report
<1>2. e \in EventsByTree(rows, events, TracedPid, picked)
  BY DEF Report
<1>3. PICK r \in Descendants(rows, TracedPid, picked) : e.pid = r.pid
  BY <1>2 DEF EventsByTree, BelongsTo
<1>4. Told(r.pid, r.inc) /\ InLine(r.inc, traced)
  BY <1>1, <1>3, TreeInLine DEF TracedPid
<1>5. Told(e.pid, e.inc)
  BY <1>2 DEF EventsTrue, EventsByTree
<1>6. e.inc = r.inc
  BY <1>3, <1>4, <1>5 DEF Told, NoRecycling
<1> QED
  BY <1>4, <1>5, <1>6 DEF Told

LEMMA ManifestStays ==
    ASSUME TraceInv, [ChronicleNext]_chronicleVars
    PROVE  ManifestTrue'
<1>1. TypeOK /\ NamesTrue /\ EventsTrue /\ TracedThere /\ ManifestTrue
      /\ (NoRecycling => RowsKin) /\ ProcsGrow
  BY ChronicleGrows DEF TraceInv, TraceParts, ExitInv, ExitParts, ParentsTrue
<1> SUFFICES ASSUME tracer' = "done", NoRecycling', NEW e \in manifest'
             PROVE  e.inc \in 1 .. Len(procs') /\ InLine(e.inc, traced)'
  BY DEF ManifestTrue, InLine
<1>2. NoRecycling
  BY <1>1, NotRecycledBefore
<1>3. UNCHANGED traced /\ (Report \/ (tracer = "done" /\ UNCHANGED manifest))
  <2>1. CASE UNCHANGED traceVars
    BY <2>1 DEF traceVars
  <2>2. ~Spawn /\ ~Poll /\ ~Wait /\ ~LookAgain
    BY DEF Spawn, Poll, Wait, LookAgain
  <2>3. UNCHANGED traceVars \/ Report
    BY <2>2 DEF ChronicleNext, chronicleVars, PruneProcesses, PruneEvents, PruneStopsHalfWay
  <2> QED
    BY <2>1, <2>3 DEF Report
<1>4. e.inc \in 1 .. Len(procs) /\ InLine(e.inc, traced)
  BY <1>1, <1>2, <1>3, ReportInLine DEF ManifestTrue
<1>5. PICK i, j : i = e.inc /\ j = traced
  OBVIOUS
<1>6. InLine(i, j)'
  BY <1>1, <1>4, <1>5, InLineStays
<1>7. i \in 1 .. Len(procs')
  BY <1>1, <1>4, <1>5 DEF ProcsGrow
<1> QED
  BY <1>3, <1>5, <1>6, <1>7 DEF InLine

LEMMA ChronicleEvents ==
    ASSUME TypeOK, HolderTrue, EventsTrue, [ChronicleNext]_chronicleVars
    PROVE  EventsTrue'
<1>1. CASE Machine
  BY <1>1, MachineTold
<1>2. CASE Next /\ ~Machine
  BY <1>2, DaemonMoves, EventsMoved
<1>3. CASE UNCHANGED <<procs, cur, fanotify>> /\ events' \subseteq events
  BY <1>3 DEF EventsTrue, Told
<1>4. Spawn => Machine
  BY DEF Spawn, Machine
<1>5. PruneProcesses \/ PruneEvents => UNCHANGED <<procs, cur, fanotify>> /\ events' \subseteq events
  BY DEF PruneProcesses, PruneEvents, RetainedEvents, TheRest, kernelVars, threadVars
<1>6. UNCHANGED vars => UNCHANGED <<procs, cur, fanotify>> /\ events' \subseteq events
  BY DEF vars, kernelVars, daemonVars, threadVars
<1>7. PruneStopsHalfWay \/ Poll \/ Wait \/ LookAgain \/ Report => UNCHANGED vars
  BY DEF PruneStopsHalfWay, Poll, Wait, LookAgain, Report
<1> QED
  BY <1>1, <1>2, <1>3, <1>4, <1>5, <1>6, <1>7 DEF ChronicleNext, chronicleVars

LEMMA ChronicleParents ==
    ASSUME ExitInv, NoRecycling, ParentsTrue, [ChronicleNext]_chronicleVars
    PROVE  ParentsTrue'
<1>1. TypeOK /\ HolderTrue
  BY DEF ExitInv, ExitParts
<1>2. CASE Machine
  BY <1>1, <1>2, MachineKin
<1>3. CASE (Next \/ UNCHANGED vars) /\ ~Machine
  BY <1>3, DaemonKin, KinKept
<1>4. CASE PruneProcesses \/ PruneEvents
  <2>1. UNCHANGED <<procs, tree, chain, netlink>> /\ rows' \subseteq rows
    BY <1>4 DEF PruneProcesses, PruneEvents, TheRest, kernelVars, threadVars
  <2> QED
    BY <2>1, RowsGoKin, KinKept
<1>5. Spawn => Machine
  BY DEF Spawn, Machine
<1>6. PruneStopsHalfWay \/ Poll \/ Wait \/ LookAgain \/ Report => UNCHANGED vars
  BY DEF PruneStopsHalfWay, Poll, Wait, LookAgain, Report
<1> QED
  BY <1>2, <1>3, <1>4, <1>5, <1>6 DEF ChronicleNext, chronicleVars

LEMMA ChronicleTraces == TraceInv /\ [ChronicleNext]_chronicleVars => TraceInv'
<1> SUFFICES ASSUME TraceInv, [ChronicleNext]_chronicleVars PROVE TraceInv'
  OBVIOUS
<1>1. ExitInv /\ ExitInv' /\ TypeOK /\ HolderTrue /\ EventsTrue /\ TracedThere
  BY ChronicleExitInv DEF TraceInv, TraceParts, ExitInv, ExitParts
<1>2. EventsTrue'
  BY <1>1, ChronicleEvents
<1>3. TracedThere'
  BY <1>1, TracedStays
<1>4. ManifestTrue'
  BY ManifestStays
<1>5. ASSUME NoRecycling' PROVE ParentsTrue'
  <2>1. NoRecycling
    BY <1>1, <1>5, NotRecycledBefore
  <2>2. ParentsTrue
    BY <2>1 DEF TraceInv, TraceParts
  <2> QED
    BY <1>1, <2>1, <2>2, ChronicleParents
<1> QED
  BY <1>1, <1>2, <1>3, <1>4, <1>5 DEF TraceInv, TraceParts

LEMMA TracesStart == ChronicleInit => TraceInv
<1> SUFFICES ASSUME ChronicleInit PROVE TraceInv
  OBVIOUS
<1>1. ExitInv /\ tracer = "off" /\ Init
  BY InitExitInv DEF ChronicleInit
<1>2. PICK im \in Image : procs = <<[pid |-> InitPid, parent |-> 0, image |-> im]>>
  BY <1>1 DEF Init, KernelInit
<1>3. Len(procs) = 1 /\ procs[1].pid = InitPid
  BY <1>2
<1>4. TracedThere /\ ManifestTrue
  BY <1>1, <1>3 DEF TracedThere, ManifestTrue
<1>5. /\ \A p \in Pid : tree[p] = None
      /\ rows = {} /\ events = {} /\ Len(netlink) = 0
      /\ \A w \in Watcher : Len(chain[w]) = 0 /\ Len(fanotify[w]) = 0 /\ cur[w].pid \notin Pid
  BY <1>1, SelfAssumption DEF Init, KernelInit, EmptyTable, NoEvent, OwnEvent
<1>6. EventsTrue /\ ParentsTrue
  BY <1>5 DEF EventsTrue, ParentsTrue, NodesKin, LinksKin, RowsKin, ForksKin
<1> QED
  BY <1>1, <1>4, <1>6 DEF TraceInv, TraceParts

(* trace reports "everything it and its descendants touched" and nothing   *)
(* else (chronicle.rs:215-220), whatever else runs, dies or is orphaned    *)
(* meanwhile and whatever fails, as long as no pid came round.             *)
THEOREM TracesReportTheirOwn == ChronicleSpec => []TraceReportsItsOwn
<1>1. TraceInv => TraceReportsItsOwn
  <2> SUFFICES ASSUME TraceInv, tracer = "done", NoRecycling, NEW e \in manifest
               PROVE  traced \in Forebears(e.inc)
    BY DEF TraceReportsItsOwn
  <2>1. TypeOK /\ TracedThere /\ ManifestTrue
    BY DEF TraceInv, TraceParts, ExitInv
  <2>2. PICK i \in 1 .. Len(procs) : i = e.inc /\ InLine(i, traced)
    BY <2>1 DEF ManifestTrue
  <2>3. Len(procs) \in Nat /\ Len(procs) <= MaxProcs
    BY <2>1 DEF TracedThere, TypeOK, KernelTypeOK
  <2>4. \A k \in 1 .. Len(procs) : procs[k].parent \in Nat /\ procs[k].parent < k
    BY <2>1, ProcsType
  <2>5. /\ i \in Forebears(i) /\ Forebears(i) \in SUBSET (0 .. Len(procs))
        /\ \A j \in Forebears(i) \ {0} : procs[j].parent \in Forebears(i)
    BY <2>3, <2>4, ForebearsClosed
  <2>6. traced \in Forebears(i)
    BY <2>2, <2>5 DEF InLine
  <2> QED
    BY <2>2, <2>6
<1> QED
  BY <1>1, TracesStart, ChronicleTraces, PTL DEF ChronicleSpec

-----------------------------------------------------------------------------
(* The manifest.  A step of the daemon takes no row away, adds one of a    *)
(* link that is being written, and keeps keys apart.                       *)
RowKeys == \A q, r \in rows : q.pid = r.pid /\ q.start = r.start => q = r

LinkKey(p, s) ==
    \E w \in Watcher : \E i \in 1 .. Len(chain[w]) :
        chain[w][i].pid = p /\ chain[w][i].node.start = s

RowsStep ==
    /\ \A r \in rows : Keyed(rows', r.pid, r.start) # {}
    /\ \A q \in rows' : Keyed(rows, q.pid, q.start) # {} \/ LinkKey(q.pid, q.start)
    /\ RowKeys => RowKeys'

LEMMA SameRowsStep == UNCHANGED rows => RowsStep
  BY DEF RowsStep, RowKeys, Keyed

LEMMA ClosesStep ==
    ASSUME TypeOK, NEW p, NEW s, NEW x \in Option(Nat), rows' = RecordExitAt(rows, p, s, x)
    PROVE  RowsStep
<1>1. rows \in SUBSET ProcRow
  BY DEF TypeOK, DaemonTypeOK
<1>2. /\ \A r \in rows : Keyed(rows', r.pid, r.start) # {}
      /\ \A q \in rows' : Keyed(rows, q.pid, q.start) # {}
  BY <1>1, RecordExitAtKeeps DEF Keyed
<1>3. ASSUME RowKeys, NEW q \in rows', NEW r \in rows', q.pid = r.pid, q.start = r.start
      PROVE  q = r
  <2>1. PICK a \in rows : q = IF a.pid = p /\ a.start = s THEN [a EXCEPT !.exit = x] ELSE a
    BY DEF RecordExitAt
  <2>2. PICK b \in rows : r = IF b.pid = p /\ b.start = s THEN [b EXCEPT !.exit = x] ELSE b
    BY DEF RecordExitAt
  <2>3. q.pid = a.pid /\ q.start = a.start /\ r.pid = b.pid /\ r.start = b.start
    BY <1>1, <2>1, <2>2 DEF ProcRow
  <2>4. a = b
    BY <1>3, <2>3 DEF RowKeys
  <2> QED
    BY <2>1, <2>2, <2>4
<1> QED
  BY <1>2, <1>3 DEF RowsStep, RowKeys

LEMMA InsertStep ==
    ASSUME TypeOK, NEW w \in Watcher, InsertRow(w)
    PROVE  RowsStep
<1>1. pc[w] = "insert" /\ chain[w] # <<>> /\ rows \in SUBSET ProcRow
  BY DEF InsertRow, TypeOK, DaemonTypeOK
<1>2. PICK p \in Pid, node \in ProcNode : p = Head(chain[w]).pid /\ node = Head(chain[w]).node
  BY <1>1, HeadOfChain
<1>3. CASE UNCHANGED rows
  BY <1>3, SameRowsStep
<1>4. CASE rows' = RecordExisting(rows, p, node)
  <2>1. 1 \in 1 .. Len(chain[w]) /\ Head(chain[w]) = chain[w][1]
    BY <1>1 DEF TypeOK, DaemonTypeOK
  <2>2. LinkKey(p, node.start)
    BY <1>2, <2>1 DEF LinkKey
  <2>3. CASE Keyed(rows, p, node.start) # {}
    BY <1>4, <2>3, SameRowsStep DEF RecordExisting
  <2>4. CASE Keyed(rows, p, node.start) = {}
    <3>1. PICK r : /\ r = [pid |-> p, start |-> node.start, ppid |-> node.ppid,
                           info |-> node.info, exit |-> None, inc |-> node.inc]
                   /\ rows' = rows \cup {r}
      BY <1>4, <2>4 DEF RecordExisting
    <3>2. r.pid = p /\ r.start = node.start
      BY <3>1
    <3>3. \A q \in rows : ~(q.pid = p /\ q.start = node.start)
      BY <2>4 DEF Keyed
    <3>4. RowKeys => RowKeys'
      BY <3>1, <3>2, <3>3 DEF RowKeys
    <3>5. \A q \in rows : q \in Keyed(rows, q.pid, q.start) /\ q \in Keyed(rows', q.pid, q.start)
      BY <3>1 DEF Keyed
    <3>6. ASSUME NEW q \in rows'
          PROVE  Keyed(rows, q.pid, q.start) # {} \/ LinkKey(q.pid, q.start)
      BY <2>2, <3>1, <3>2, <3>5
    <3> QED
      BY <3>4, <3>5, <3>6 DEF RowsStep
  <2> QED
    BY <2>3, <2>4
<1> QED
  BY <1>2, <1>3, <1>4 DEF InsertRow

LEMMA NextRows == ASSUME TypeOK, [Next]_vars PROVE RowsStep
<1>1. CASE UNCHANGED rows
  BY <1>1, SameRowsStep
<1>2. ASSUME NEW w \in Watcher, WriteExit(w) PROVE RowsStep
  <2>1. pc[w] = "exit" /\ chain[w] # <<>>
    BY <1>2 DEF WriteExit, TypeOK, DaemonTypeOK
  <2>2. PICK p \in Pid, node \in ProcNode : p = Head(chain[w]).pid /\ node = Head(chain[w]).node
    BY <2>1, HeadOfChain
  <2>3. node.exited \in Option(Nat)
    BY DEF ProcNode
  <2>4. rows' = rows \/ rows' = RecordExitAt(rows, p, node.start, node.exited)
    BY <1>2, <2>2 DEF WriteExit
  <2> QED
    BY <1>1, <2>3, <2>4, ClosesStep
<1>3. CASE CloseRow
  <2>1. closing.exit \in Option(Nat)
    BY DEF TypeOK, DaemonTypeOK, Option
  <2>2. rows' = rows \/ rows' = RecordExitAt(rows, closing.pid, closing.start, closing.exit)
    BY <1>3 DEF CloseRow
  <2> QED
    BY <1>1, <2>1, <2>2, ClosesStep
<1>4. Machine \/ Boot \/ Crash \/ Evict \/ UNCHANGED vars => UNCHANGED rows
  BY DEF Machine, Boot, Crash, Evict, vars, daemonVars
<1>5. ConnectorStep => CloseRow \/ UNCHANGED rows
  BY DEF ConnectorStep, Listen, RecvFork, RecvExec, RecvExit, RecvOverrun
<1>6. ASSUME NEW w \in Watcher, WatcherStep(w) \/ ReadError(w) \/ DropEvent(w)
      PROVE  InsertRow(w) \/ WriteExit(w) \/ UNCHANGED rows
  BY <1>6 DEF WatcherStep, Watch, IgnoreOwn, TakeEvent, Mark, Stamp,
              RecordEvent, AppendLog, ReadError, DropEvent, daemonVars
<1> QED
  BY <1>1, <1>2, <1>3, <1>4, <1>5, <1>6, InsertStep DEF Next

(* An event is bound to a row that is there, of no later start. *)
EventsBound ==
    \A e \in events : e.start # None => e.start <= e.ts /\ Keyed(rows, e.pid, e.start) # {}

LEMMA NextBound ==
    ASSUME TypeOK, EventsBound, [Next]_vars
    PROVE  EventsBound'
<1>1. ASSUME NEW p, NEW s, Keyed(rows, p, s) # {} PROVE Keyed(rows', p, s) # {}
  BY <1>1, NextRows DEF RowsStep, Keyed
<1>2. \A e \in events : e.start # None => e.start <= e.ts /\ Keyed(rows', e.pid, e.start) # {}
  BY <1>1 DEF EventsBound
<1>3. CASE UNCHANGED events
  BY <1>2, <1>3 DEF EventsBound
<1>4. ASSUME NEW w \in Watcher, RecordEvent(w) PROVE EventsBound'
  <2>1. UNCHANGED rows /\ rows \in SUBSET ProcRow
    BY <1>4 DEF RecordEvent, TypeOK, DaemonTypeOK
  <2>2. PICK ts \in Nat : ts = stamp[w]
    BY DEF TypeOK, DaemonTypeOK
  <2>3. ASSUME NEW s \in ResolvedAmiss(w) \cup {Resolved(w)}
        PROVE  s # None => s <= ts /\ Keyed(rows, cur[w].pid, s) # {}
    BY <2>1, <2>2, <2>3, ResolveWriterIsARow, LastStartedIsARow DEF Resolved, ResolvedAmiss
  <2>4. \A s : /\ Recorded(w, s).start = s /\ Recorded(w, s).ts = ts
               /\ Recorded(w, s).pid = cur[w].pid
    BY <2>2 DEF Recorded
  <2>5. \A e \in events' : \/ e \in events
                           \/ \E s \in ResolvedAmiss(w) \cup {Resolved(w)} : e = Recorded(w, s)
    BY <1>4 DEF RecordEvent
  <2>6. \A e \in events' : e.start # None => e.start <= e.ts /\ Keyed(rows', e.pid, e.start) # {}
    BY <1>2, <2>1, <2>3, <2>4, <2>5
  <2> QED
    BY <2>6 DEF EventsBound
<1>5. Machine \/ Boot \/ Crash \/ Evict \/ UNCHANGED vars => UNCHANGED events
  BY DEF Machine, Boot, Crash, Evict, vars, daemonVars
<1>6. ConnectorStep => UNCHANGED events
  BY DEF ConnectorStep, Listen, RecvFork, RecvExec, RecvExit, CloseRow, RecvOverrun
<1>7. ASSUME NEW w \in Watcher, WatcherStep(w) \/ ReadError(w) \/ DropEvent(w)
      PROVE  RecordEvent(w) \/ UNCHANGED events
  BY <1>7 DEF WatcherStep, Watch, IgnoreOwn, TakeEvent, InsertRow, WriteExit, Mark, Stamp,
              AppendLog, ReadError, DropEvent, daemonVars
<1> QED
  BY <1>3, <1>4, <1>5, <1>6, <1>7 DEF Next

-----------------------------------------------------------------------------
(* A start of the pid p that the daemon has in a node, a link or a row. *)
Starts(p, s) ==
    \/ tree[p] # None /\ tree[p].start = s
    \/ LinkKey(p, s)
    \/ Keyed(rows, p, s) # {}

(* There is one to a pid, and as long as something more may be heard of    *)
(* the process it has its node.                                            *)
OneStart == \A p \in Pid : \A s, t : Starts(p, s) /\ Starts(p, t) => s = t

StartKnown == \A p \in Pid : \A s : Starts(p, s) => tree[p] # None \/ Finished(p)

LEMMA OrderlyStarts ==
    ASSUME TypeOK, OrderlyStep, RowsStep, OneStart, StartKnown
    PROVE  OneStart' /\ StartKnown'
<1>1. ASSUME NEW p \in Pid, NEW s, Starts(p, s)'
      PROVE  Starts(p, s) \/ (NodeMade(p) /\ tree'[p] # None /\ tree'[p].start = s)
  <2>1. CASE tree'[p] # None /\ tree'[p].start = s
    BY <2>1 DEF OrderlyStep, NodesStay, NodeKept, Starts
  <2>2. CASE LinkKey(p, s)'
    <3>1. PICK w \in Watcher : \E i \in 1 .. Len(chain'[w]) :
             chain'[w][i].pid = p /\ chain'[w][i].node.start = s
      BY <2>2 DEF LinkKey
    <3>2. PICK i \in 1 .. Len(chain'[w]) : chain'[w][i].pid = p /\ chain'[w][i].node.start = s
      BY <3>1
    <3>3. CASE \E k \in 1 .. Len(chain[w]) : chain'[w][i] = chain[w][k]
      BY <3>2, <3>3 DEF Starts, LinkKey
    <3>4. CASE tree'[p] # None /\ chain'[w][i].node = tree[p] /\ UNCHANGED tree
      BY <3>2, <3>4 DEF Starts
    <3> QED
      BY <3>2, <3>3, <3>4 DEF OrderlyStep, LinksStay
  <2>3. CASE Keyed(rows', p, s) # {}
    <3>1. PICK q \in rows' : q.pid = p /\ q.start = s
      BY <2>3 DEF Keyed
    <3>2. Keyed(rows, p, s) # {} \/ LinkKey(p, s)
      BY <3>1 DEF RowsStep
    <3> QED
      BY <3>2 DEF Starts
  <2> QED
    BY <1>1, <2>1, <2>2, <2>3 DEF Starts
<1>2. \A p \in Pid : NodeMade(p) => tree[p] = None /\ ~Finished(p)
  BY DEF NodeMade
<1>3. ASSUME NEW p \in Pid, NEW s, NEW t, Starts(p, s)', Starts(p, t)' PROVE s = t
  <2>1. CASE NodeMade(p)
    <3>1. ~Starts(p, s) /\ ~Starts(p, t)
      BY <1>2, <2>1 DEF StartKnown
    <3> QED
      BY <1>1, <1>3, <3>1
  <2>2. CASE ~NodeMade(p)
    <3>1. Starts(p, s) /\ Starts(p, t)
      BY <1>1, <1>3, <2>2
    <3> QED
      BY <3>1 DEF OneStart
  <2> QED
    BY <2>1, <2>2
<1>4. ASSUME NEW p \in Pid, NEW s, Starts(p, s)' PROVE tree'[p] # None \/ Finished(p)'
  <2>1. CASE Starts(p, s)
    <3>1. tree[p] # None \/ Finished(p)
      BY <2>1 DEF StartKnown
    <3>2. tree'[p] # None \/ Finished(p)
      BY <3>1 DEF OrderlyStep, NodesStay
    <3> QED
      BY <3>2, OrderlyFinished
  <2> QED
    BY <1>1, <1>4, <2>1
<1> QED
  BY <1>3, <1>4 DEF OneStart, StartKnown

LEMMA MachineStarts ==
    ASSUME TypeOK, Machine, NoRecycling', OneStart, StartKnown
    PROVE  OneStart' /\ StartKnown'
<1>1. UNCHANGED <<tree, chain, rows>>
  BY DEF Machine, daemonVars, threadVars
<1>2. \A p, s : Starts(p, s)' <=> Starts(p, s)
  BY <1>1 DEF Starts, LinkKey, Keyed
<1>3. \A p \in Pid : Finished(p) => Finished(p)'
  BY MachineFinished
<1>4. ASSUME NEW p \in Pid, NEW s, Starts(p, s)' PROVE tree'[p] # None \/ Finished(p)'
  <2>1. tree[p] # None \/ Finished(p)
    BY <1>2, <1>4 DEF StartKnown
  <2> QED
    BY <1>1, <1>3, <2>1
<1>5. OneStart'
  BY <1>2 DEF OneStart
<1> QED
  BY <1>4, <1>5 DEF StartKnown

(* At its first start the daemon has no rows: all it knows starts now. *)
LEMMA BootStarts ==
    ASSUME Boot, rows = {}, \A w \in Watcher : chain[w] = <<>>
    PROVE  OneStart' /\ StartKnown'
<1>1. rows' = {} /\ \A w \in Watcher : Len(chain'[w]) = 0
  BY DEF Boot, threadVars
<1>2. \A p \in Pid : tree'[p] # None => tree'[p].start = now
  BY BootNodes
<1>3. ASSUME NEW p \in Pid, NEW s, Starts(p, s)' PROVE tree'[p] # None /\ s = now
  BY <1>1, <1>2, <1>3 DEF Starts, LinkKey, Keyed
<1>4. OneStart'
  BY <1>3 DEF OneStart
<1> QED
  BY <1>3, <1>4 DEF StartKnown

-----------------------------------------------------------------------------
(* The inductive invariant behind TreeManifestTrue. *)
ManifestParts ==
    /\ RowKeys /\ EventsTrue /\ EventsBound
    /\ 1 <= Len(procs) /\ procs[1].pid = InitPid
    /\ NoRecycling => SparesParts /\ ParentsTrue
    /\ crashes = 0 /\ ~up => rows = {}
    /\ crashes = 0 /\ NoRecycling => OneStart /\ StartKnown

ManifestInv == ExitInv /\ ManifestParts

LEMMA NextForks == [Next]_vars => Machine \/ UNCHANGED procs
<1>1. Boot \/ Crash \/ Evict \/ UNCHANGED vars => UNCHANGED procs
  BY DEF Boot, Crash, Evict, vars, kernelVars
<1>2. ConnectorStep => UNCHANGED procs
  BY DEF ConnectorStep, Listen, RecvFork, RecvExec, RecvExit, CloseRow, RecvOverrun, kernelVars
<1>3. ASSUME NEW w \in Watcher, WatcherStep(w) \/ ReadError(w) \/ DropEvent(w)
      PROVE  UNCHANGED procs
  BY <1>3 DEF WatcherStep, Watch, IgnoreOwn, TakeEvent, InsertRow, WriteExit, Mark, Stamp,
              RecordEvent, AppendLog, ReadError, DropEvent, kernelVars
<1> QED
  BY <1>1, <1>2, <1>3 DEF Next

LEMMA NextGrows ==
    ASSUME TypeOK, [Next]_vars
    PROVE  ProcsGrow /\ (NoRecycling' => NoRecycling)
<1>1. ProcsGrow
  <2>1. CASE UNCHANGED procs
    BY <2>1 DEF ProcsGrow, TypeOK, KernelTypeOK
  <2> QED
    BY <2>1, NextForks, MachineProcs
<1>2. \A i \in 1 .. Len(procs) : i \in 1 .. Len(procs') /\ procs'[i].pid = procs[i].pid
  BY <1>1 DEF ProcsGrow
<1> QED
  BY <1>1, <1>2 DEF NoRecycling

LEMMA OthersStayUp ==
    ASSUME [Next]_vars, ~Boot, ~Crash
    PROVE  UNCHANGED <<up, crashes>>
<1>1. Machine \/ Evict \/ UNCHANGED vars => UNCHANGED <<up, crashes>>
  BY DEF Machine, Evict, vars, daemonVars
<1>2. ConnectorStep => UNCHANGED <<up, crashes>>
  BY DEF ConnectorStep, Listen, RecvFork, RecvExec, RecvExit, CloseRow, RecvOverrun
<1>3. ASSUME NEW w \in Watcher, WatcherStep(w) \/ ReadError(w) \/ DropEvent(w)
      PROVE  UNCHANGED <<up, crashes>>
  BY <1>3 DEF WatcherStep, Watch, IgnoreOwn, TakeEvent, InsertRow, WriteExit, Mark, Stamp,
              RecordEvent, AppendLog, ReadError, DropEvent, daemonVars
<1> QED
  BY <1>1, <1>2, <1>3 DEF Next

LEMMA NextSpares ==
    ASSUME ExitInv, TypeOK', SparesParts, [Next]_vars, NoRecycling'
    PROVE  SparesParts'
<1>1. TypeOK
  BY DEF ExitInv
<1>2. CASE Machine
  BY <1>2, MachineSpares
<1>3. CASE Boot \/ Crash
  BY <1>3, RestartSpares
<1>4. CASE ~Machine /\ ~Boot /\ ~Crash
  <2>1. Next \/ UNCHANGED vars
    OBVIOUS
  <2>2. OrderlyStep
    BY <1>4, <2>1, DaemonOrderly
  <2> QED
    BY <1>1, <2>2, OrderlySpares
<1> QED
  BY <1>2, <1>3, <1>4

LEMMA NextParents ==
    ASSUME ExitInv, NoRecycling, ParentsTrue, [Next]_vars
    PROVE  ParentsTrue'
<1>1. TypeOK /\ HolderTrue
  BY DEF ExitInv, ExitParts
<1>2. CASE Machine
  BY <1>1, <1>2, MachineKin
<1>3. CASE (Next \/ UNCHANGED vars) /\ ~Machine
  BY <1>3, DaemonKin, KinKept
<1> QED
  BY <1>2, <1>3

LEMMA NextEvents ==
    ASSUME TypeOK, HolderTrue, EventsTrue, [Next]_vars
    PROVE  EventsTrue'
<1>1. CASE Machine
  BY <1>1, MachineTold
<1>2. CASE Next /\ ~Machine
  BY <1>2, DaemonMoves, EventsMoved
<1>3. CASE UNCHANGED vars
  BY <1>3 DEF EventsTrue, Told, vars, kernelVars, daemonVars, threadVars
<1> QED
  BY <1>1, <1>2, <1>3

(* The first start of the daemon finds no rows, and it makes none before. *)
LEMMA NextDown ==
    ASSUME ExitInv, crashes = 0 /\ ~up => rows = {}, [Next]_vars
    PROVE  crashes' = 0 /\ ~up' => rows' = {}
<1>1. crashes \in Nat /\ TypeOK
  BY DEF ExitInv, TypeOK, DaemonTypeOK
<1>2. CASE Boot
  BY <1>2 DEF Boot
<1>3. CASE Crash
  <2>1. crashes' # 0
    BY <1>1, <1>3 DEF Crash
  <2> QED
    BY <2>1
<1>4. CASE ~Boot /\ ~Crash
  <2> SUFFICES ASSUME crashes' = 0, ~up', rows' # {} PROVE FALSE
    OBVIOUS
  <2>1. rows = {} /\ \A w \in Watcher : chain[w] = <<>>
    BY <1>4, OthersStayUp DEF ExitInv, DownIsEmpty
  <2>2. PICK q \in rows' : TRUE
    OBVIOUS
  <2>3. Keyed(rows, q.pid, q.start) # {} \/ LinkKey(q.pid, q.start)
    BY <1>1, NextRows DEF RowsStep
  <2>4. Keyed(rows, q.pid, q.start) = {} /\ \A w \in Watcher : Len(chain[w]) = 0
    BY <2>1 DEF Keyed
  <2> QED
    BY <2>3, <2>4 DEF LinkKey
<1> QED
  BY <1>2, <1>3, <1>4

LEMMA NextStarts ==
    ASSUME ManifestInv, TypeOK', [Next]_vars, crashes' = 0, NoRecycling'
    PROVE  OneStart' /\ StartKnown'
<1>1. TypeOK /\ ExitInv /\ NoRecycling /\ SparesParts /\ crashes \in Nat
  BY NextGrows DEF ManifestInv, ManifestParts, ExitInv, TypeOK, DaemonTypeOK
<1>2. crashes = 0 => OneStart /\ StartKnown /\ (~up => rows = {})
  BY <1>1 DEF ManifestInv, ManifestParts
<1>3. CASE Crash
  <2>1. crashes' # 0
    BY <1>1, <1>3 DEF Crash
  <2> QED
    BY <2>1
<1>4. CASE Boot
  <2>1. crashes = 0 /\ ~up
    BY <1>4 DEF Boot
  <2>2. \A w \in Watcher : chain[w] = <<>>
    BY <1>1, <2>1 DEF ExitInv, DownIsEmpty
  <2> QED
    BY <1>2, <1>4, <2>1, <2>2, BootStarts
<1>5. CASE Machine /\ ~Boot /\ ~Crash
  BY <1>1, <1>2, <1>5, OthersStayUp, MachineStarts
<1>6. CASE ~Machine /\ ~Boot /\ ~Crash
  <2>1. Next \/ UNCHANGED vars
    OBVIOUS
  <2>2. OrderlyStep /\ RowsStep
    BY <1>1, <1>6, <2>1, DaemonOrderly, NextRows
  <2> QED
    BY <1>1, <1>2, <1>6, <2>2, OthersStayUp, OrderlyStarts
<1> QED
  BY <1>3, <1>4, <1>5, <1>6

LEMMA NextManifest == ManifestInv /\ [Next]_vars => ManifestInv'
<1> SUFFICES ASSUME ManifestInv, [Next]_vars PROVE ManifestInv'
  OBVIOUS
<1>1. /\ ExitInv /\ ExitInv' /\ TypeOK /\ TypeOK' /\ HolderTrue /\ ManifestParts
      /\ ProcsGrow /\ (NoRecycling' => NoRecycling)
  BY NextExitInv, NextGrows DEF ManifestInv, ExitInv, ExitParts
<1>2. RowKeys' /\ EventsTrue' /\ EventsBound'
  BY <1>1, NextRows, NextEvents, NextBound DEF ManifestParts, RowsStep
<1>3. 1 <= Len(procs') /\ procs'[1].pid = InitPid
  BY <1>1 DEF ManifestParts, ProcsGrow
<1>4. NoRecycling' => SparesParts' /\ ParentsTrue'
  BY <1>1, NextSpares, NextParents DEF ManifestParts
<1>5. crashes' = 0 /\ ~up' => rows' = {}
  BY <1>1, NextDown DEF ManifestParts
<1>6. crashes' = 0 /\ NoRecycling' => OneStart' /\ StartKnown'
  BY <1>1, NextStarts
<1> QED
  BY <1>1, <1>2, <1>3, <1>4, <1>5, <1>6 DEF ManifestInv, ManifestParts

LEMMA ManifestStarts == Init => ManifestInv
<1> SUFFICES ASSUME Init PROVE ManifestInv
  OBVIOUS
<1>1. ExitInv
  BY InitExitInv
<1>2. PICK im \in Image : procs = <<[pid |-> InitPid, parent |-> 0, image |-> im]>>
  BY DEF Init, KernelInit
<1>3. Len(procs) = 1 /\ procs[1].pid = InitPid
  BY <1>2
<1>4. /\ \A p \in Pid : tree[p] = None
      /\ rows = {} /\ events = {} /\ Len(netlink) = 0 /\ closing.pid = None
      /\ \A w \in Watcher : /\ Len(chain[w]) = 0 /\ Len(fanotify[w]) = 0
                            /\ cur[w].pid \notin Pid /\ pc[w] = "off"
  BY SelfAssumption DEF Init, KernelInit, EmptyTable, NoEvent, OwnEvent, NoClosing
<1>5. SparesParts
  BY <1>4 DEF SparesParts, ExitsFinish, ForksFirst, LinksAgree, HeadThere, MarkThere
<1>6. ParentsTrue /\ EventsTrue /\ EventsBound /\ RowKeys
  BY <1>4 DEF ParentsTrue, NodesKin, LinksKin, RowsKin, ForksKin, EventsTrue, EventsBound, RowKeys
<1>7. \A p \in Pid : \A s : ~Starts(p, s)
  BY <1>4 DEF Starts, LinkKey, Keyed
<1>8. OneStart /\ StartKnown
  BY <1>7 DEF OneStart, StartKnown
<1> QED
  BY <1>1, <1>3, <1>4, <1>5, <1>6, <1>8 DEF ManifestInv, ManifestParts

-----------------------------------------------------------------------------
(* F searches from each a of R along C, and G along P. *)
SearchesFrom(F, R, C, N) ==
    /\ F \in [R -> [0 .. N -> SUBSET R]]
    /\ \A a \in R : F[a][0] = {a}
    /\ \A a \in R : \A n \in Nat : n + 1 \in 0 .. N =>
          F[a][n + 1] = UNION {C[x] : x \in F[a][n]}

(* A search may as well take its first step first. *)
LEMMA FirstStep ==
    ASSUME NEW R, NEW P \in [R -> SUBSET R], NEW N \in Nat, NEW G, SearchesFrom(G, R, P, N),
           NEW k \in Nat, k + 1 \in 0 .. N
    PROVE  \A b \in R : G[b][k + 1] = UNION {G[x][k] : x \in P[b]}
<1> DEFINE S == {n \in Nat : n + 1 \in 0 .. N =>
                    \A b \in R : G[b][n + 1] = UNION {G[x][n] : x \in P[b]}}
<1>1. 0 \in S
  <2> SUFFICES ASSUME 1 \in 0 .. N, NEW b \in R PROVE G[b][1] = UNION {G[x][0] : x \in P[b]}
    OBVIOUS
  <2>1. G[b][1] = UNION {P[x] : x \in G[b][0]}
    <3>1. 0 \in Nat /\ 0 + 1 \in 0 .. N /\ 0 + 1 = 1
      OBVIOUS
    <3> QED
      BY <3>1 DEF SearchesFrom
  <2>2. G[b][0] = {b} /\ \A x \in P[b] : x \in R /\ G[x][0] = {x}
    BY DEF SearchesFrom
  <2> QED
    BY <2>1, <2>2
<1>2. ASSUME NEW n \in Nat, n \in S PROVE n + 1 \in S
  <2> SUFFICES ASSUME (n + 1) + 1 \in 0 .. N, NEW b \in R
               PROVE  G[b][(n + 1) + 1] = UNION {G[x][n + 1] : x \in P[b]}
    OBVIOUS
  <2>1. n + 1 \in Nat /\ n + 1 \in 0 .. N
    OBVIOUS
  <2>2. G[b][(n + 1) + 1] = UNION {P[y] : y \in G[b][n + 1]}
    BY <2>1 DEF SearchesFrom
  <2>3. G[b][n + 1] = UNION {G[x][n] : x \in P[b]}
    BY <1>2, <2>1
  <2>4. \A x \in P[b] : G[x][n + 1] = UNION {P[y] : y \in G[x][n]}
    BY <2>1 DEF SearchesFrom
  <2> QED
    BY <2>2, <2>3, <2>4
<1>3. Nat \subseteq S
  <2> HIDE DEF S
  <2> QED
    BY <1>1, <1>2, AllNaturals
<1> QED
  BY <1>3

(* Whom one finds in n steps along C finds one in n steps along the        *)
(* converse of C.                                                          *)
LEMMA TurnedRound ==
    ASSUME NEW R, NEW C \in [R -> SUBSET R], NEW P \in [R -> SUBSET R],
           \A x, y \in R : y \in C[x] <=> x \in P[y],
           NEW N \in Nat, NEW F, SearchesFrom(F, R, C, N), NEW G, SearchesFrom(G, R, P, N),
           NEW k \in 0 .. N
    PROVE  \A a, b \in R : b \in F[a][k] <=> a \in G[b][k]
<1> DEFINE S == {n \in Nat : n \in 0 .. N => \A a, b \in R : b \in F[a][n] <=> a \in G[b][n]}
<1>1. 0 \in S
  BY DEF SearchesFrom
<1>2. ASSUME NEW n \in Nat, n \in S PROVE n + 1 \in S
  <2> SUFFICES ASSUME n + 1 \in 0 .. N, NEW a \in R, NEW b \in R
               PROVE  b \in F[a][n + 1] <=> a \in G[b][n + 1]
    OBVIOUS
  <2>1. n \in 0 .. N /\ F[a][n] \in SUBSET R
    BY DEF SearchesFrom
  <2>2. \A x \in R : x \in F[a][n] <=> a \in G[x][n]
    BY <1>2, <2>1
  <2>3. F[a][n + 1] = UNION {C[x] : x \in F[a][n]}
    BY DEF SearchesFrom
  <2>4. G[b][n + 1] = UNION {G[x][n] : x \in P[b]}
    BY FirstStep
  <2>5. b \in F[a][n + 1] <=> \E x \in R : x \in F[a][n] /\ b \in C[x]
    BY <2>1, <2>3
  <2>6. a \in G[b][n + 1] <=> \E x \in R : x \in P[b] /\ a \in G[x][n]
    BY <2>4
  <2> QED
    BY <2>2, <2>5, <2>6
<1>3. Nat \subseteq S
  <2> HIDE DEF S
  <2> QED
    BY <1>1, <1>2, AllNaturals
<1> QED
  BY <1>3

LEMMA SearchesExist ==
    ASSUME NEW R, NEW C \in [R -> SUBSET R], NEW N \in Nat
    PROVE  \E F : SearchesFrom(F, R, C, N)
<1>1. PICK G \in [SUBSET R -> SUBSET R] : \A Y \in SUBSET R : G[Y] = UNION {C[x] : x \in Y}
  <2>1. PICK G : G = [Y \in SUBSET R |-> UNION {C[x] : x \in Y}]
    OBVIOUS
  <2>2. \A Y \in SUBSET R : UNION {C[x] : x \in Y} \in SUBSET R
    OBVIOUS
  <2> QED
    BY <2>1, <2>2
<1> DEFINE T == [0 .. N -> SUBSET R]
           Is(f, a) == Searches(f, {a}, G, N)
           F == [a \in R |-> CHOOSE f \in T : Is(f, a)]
<1>2. ASSUME NEW a \in R PROVE \E f \in T : Is(f, a)
  <2>1. PICK X \in SUBSET R : X = {a}
    OBVIOUS
  <2>2. \E f \in [0 .. N -> SUBSET R] : Searches(f, X, G, N)
    BY LevelsExist
  <2> QED
    BY <2>1, <2>2
<1>3. \A a \in R : F[a] \in T /\ Is(F[a], a)
  BY <1>2
<1>4. F \in [R -> T]
  BY <1>3
<1> HIDE DEF F
<1>5. ASSUME NEW a \in R
      PROVE  /\ F[a][0] = {a}
             /\ \A n \in Nat : n + 1 \in 0 .. N => F[a][n + 1] = UNION {C[x] : x \in F[a][n]}
  <2>1. PICK f : f = F[a]
    OBVIOUS
  <2>2. f \in T /\ f = [d \in 0 .. N |-> IF d = 0 THEN {a} ELSE G[f[d - 1]]]
    BY <1>3, <2>1 DEF Searches
  <2>3. f[0] = {a}
    BY <2>2
  <2>4. ASSUME NEW n \in Nat, n + 1 \in 0 .. N PROVE f[n + 1] = UNION {C[x] : x \in f[n]}
    <3>1. n \in 0 .. N /\ n + 1 # 0 /\ (n + 1) - 1 = n
      BY <2>4
    <3>2. f[n + 1] = G[f[n]]
      BY <2>2, <2>4, <3>1
    <3>3. f[n] \in SUBSET R
      BY <2>2, <3>1
    <3> QED
      BY <1>1, <3>2, <3>3
  <2> QED
    BY <2>1, <2>3, <2>4
<1> QED
  BY <1>4, <1>5 DEF SearchesFrom

(* What the query finds below the only row of a key. *)
LEMMA TreeLevels ==
    ASSUME NEW R, NEW C, C = [x \in R |-> ChildRows(R, x)], NEW F, SearchesFrom(F, R, C, TreeDepth),
           NEW a \in R, NEW p, NEW s, Keyed(R, p, s) = {a}
    PROVE  Descendants(R, p, s) = UNION {F[a][d] : d \in 0 .. TreeDepth}
<1> DEFINE level == CHOOSE level : level =
              [d \in 0 .. TreeDepth |->
                  IF d = 0 THEN Keyed(R, p, s)
                  ELSE UNION {ChildRows(R, r) : r \in level[d - 1]}]
<1>1. PICK N \in Nat : N = TreeDepth
  BY DepthAssumption
<1>2. PICK f \in [0 .. N -> SUBSET R] : f = F[a]
  BY <1>1 DEF SearchesFrom
<1>3. f[0] = {a}
  BY <1>2 DEF SearchesFrom
<1>4. ASSUME NEW n \in Nat, n + 1 \in 0 .. N
      PROVE  f[n + 1] = UNION {ChildRows(R, r) : r \in f[n]}
  <2>1. f[n + 1] = UNION {C[x] : x \in f[n]}
    BY <1>1, <1>2, <1>4 DEF SearchesFrom
  <2>2. f[n] \in SUBSET R
    BY <1>4
  <2>3. \A x \in f[n] : C[x] = ChildRows(R, x)
    BY <2>2
  <2> QED
    BY <2>1, <2>3
<1>5. ASSUME NEW d \in 0 .. N, d # 0 PROVE f[d] = UNION {ChildRows(R, r) : r \in f[d - 1]}
  <2>1. d - 1 \in Nat /\ (d - 1) + 1 = d
    BY <1>5
  <2>2. f[(d - 1) + 1] = UNION {ChildRows(R, r) : r \in f[d - 1]}
    BY <1>4, <1>5, <2>1
  <2> QED
    BY <2>1, <2>2
<1>6. f = [d \in 0 .. TreeDepth |->
              IF d = 0 THEN Keyed(R, p, s) ELSE UNION {ChildRows(R, r) : r \in f[d - 1]}]
  BY <1>1, <1>3, <1>5
<1>7. level = [d \in 0 .. TreeDepth |->
              IF d = 0 THEN Keyed(R, p, s) ELSE UNION {ChildRows(R, r) : r \in level[d - 1]}]
  BY <1>6
<1>8. Descendants(R, p, s) = UNION {level[d] : d \in 0 .. TreeDepth}
  BY DEF Descendants
<1> HIDE DEF level
<1> DEFINE S == {n \in Nat : n \in 0 .. N => level[n] = f[n]}
<1>9. 0 \in S
  BY <1>1, <1>3, <1>7
<1>10. ASSUME NEW n \in Nat, n \in S PROVE n + 1 \in S
  <2> SUFFICES ASSUME n + 1 \in 0 .. N PROVE level[n + 1] = f[n + 1]
    OBVIOUS
  <2>1. n \in 0 .. N /\ n + 1 # 0 /\ (n + 1) - 1 = n
    OBVIOUS
  <2>2. level[n + 1] = UNION {ChildRows(R, r) : r \in level[n]}
    BY <1>1, <1>7, <2>1
  <2>3. level[n] = f[n]
    BY <1>10, <2>1
  <2> QED
    BY <1>4, <2>2, <2>3
<1>11. Nat \subseteq S
  <2> HIDE DEF S
  <2> QED
    BY <1>9, <1>10, AllNaturals
<1>12. \A d \in 0 .. TreeDepth : level[d] = f[d]
  BY <1>1, <1>11
<1> QED
  BY <1>2, <1>8, <1>12

(* The rows of the parent that a row names. *)
StoredParents(x) == {q \in rows : x.ppid # None /\ q.inc = RealParent(x)}

LEMMA LineLevels ==
    ASSUME NEW P, P = [x \in rows |-> StoredParents(x)], NEW G, SearchesFrom(G, rows, P, TreeDepth),
           NEW a \in rows, NEW s
    PROVE  StoredLine(a, s) <=> \E d \in 0 .. TreeDepth : s \in G[a][d]
<1> DEFINE line == CHOOSE line : line =
              [d \in 0 .. TreeDepth |->
                  IF d = 0 THEN {a}
                  ELSE UNION {{q \in rows : x.ppid # None /\ q.inc = RealParent(x)} :
                                 x \in line[d - 1]}]
<1>1. PICK N \in Nat : N = TreeDepth
  BY DepthAssumption
<1>2. PICK f \in [0 .. N -> SUBSET rows] : f = G[a]
  BY <1>1 DEF SearchesFrom
<1>3. f[0] = {a}
  BY <1>2 DEF SearchesFrom
<1>4. ASSUME NEW n \in Nat, n + 1 \in 0 .. N
      PROVE  f[n + 1] = UNION {StoredParents(x) : x \in f[n]}
  <2>1. f[n + 1] = UNION {P[x] : x \in f[n]}
    BY <1>1, <1>2, <1>4 DEF SearchesFrom
  <2>2. f[n] \in SUBSET rows
    BY <1>4
  <2>3. \A x \in f[n] : P[x] = StoredParents(x)
    BY <2>2
  <2> QED
    BY <2>1, <2>3
<1>5. ASSUME NEW d \in 0 .. N, d # 0 PROVE f[d] = UNION {StoredParents(x) : x \in f[d - 1]}
  <2>1. d - 1 \in Nat /\ (d - 1) + 1 = d
    BY <1>5
  <2>2. f[(d - 1) + 1] = UNION {StoredParents(x) : x \in f[d - 1]}
    BY <1>4, <1>5, <2>1
  <2> QED
    BY <2>1, <2>2
<1>6. f = [d \in 0 .. TreeDepth |->
              IF d = 0 THEN {a} ELSE UNION {StoredParents(x) : x \in f[d - 1]}]
  BY <1>1, <1>3, <1>5
<1>7. line = [d \in 0 .. TreeDepth |->
              IF d = 0 THEN {a} ELSE UNION {StoredParents(x) : x \in line[d - 1]}]
  BY <1>6 DEF StoredParents
<1>8. StoredLine(a, s) <=> \E d \in 0 .. TreeDepth : s \in line[d]
  BY DEF StoredLine
<1> HIDE DEF line
<1> DEFINE S == {n \in Nat : n \in 0 .. N => line[n] = f[n]}
<1>9. 0 \in S
  BY <1>1, <1>3, <1>7
<1>10. ASSUME NEW n \in Nat, n \in S PROVE n + 1 \in S
  <2> SUFFICES ASSUME n + 1 \in 0 .. N PROVE line[n + 1] = f[n + 1]
    OBVIOUS
  <2>1. n \in 0 .. N /\ n + 1 # 0 /\ (n + 1) - 1 = n
    OBVIOUS
  <2>2. line[n + 1] = UNION {StoredParents(x) : x \in line[n]}
    BY <1>1, <1>7, <2>1
  <2>3. line[n] = f[n]
    BY <1>10, <2>1
  <2> QED
    BY <1>4, <2>2, <2>3
<1>11. Nat \subseteq S
  <2> HIDE DEF S
  <2> QED
    BY <1>9, <1>10, AllNaturals
<1>12. \A d \in 0 .. TreeDepth : line[d] = f[d]
  BY <1>1, <1>11
<1> QED
  BY <1>2, <1>8, <1>12

LEMMA RowTold ==
    ASSUME TypeOK, NamesTrue, NEW x \in rows
    PROVE  x.pid \in Pid /\ Told(x.pid, x.inc)
<1>1. x \in ProcRow
  BY DEF TypeOK, DaemonTypeOK
<1>2. PICK p \in Pid, t \in Nat, i \in Nat : p = x.pid /\ t = x.start /\ i = x.inc
  BY <1>1 DEF ProcRow
<1>3. Names(p, t, i)
  BY <1>2 DEF Names
<1> QED
  BY <1>2, <1>3 DEF NamesTrue, Told

(* The join of the query by bare pids finds the children there are. *)
LEMMA ChildrenReal ==
    ASSUME TypeOK, NamesTrue, RowsKin, NoRecycling, 1 <= Len(procs), procs[1].pid = InitPid,
           NEW x \in rows, NEW y \in rows
    PROVE  y \in ChildRows(rows, x) <=> x \in StoredParents(y)
<1>1. x.pid \in Pid /\ Told(x.pid, x.inc)
  BY RowTold
<1>2. Len(procs) \in Nat /\ x.pid # None
  BY <1>1, PidAssumption DEF TypeOK, KernelTypeOK
<1>3. y \in ChildRows(rows, x) <=> y.ppid = x.pid
  BY DEF ChildRows
<1>4. x \in StoredParents(y) <=> y.ppid # None /\ x.inc = RealParent(y)
  BY DEF StoredParents
<1>5. y.ppid \in {None, InitPid} \/ Told(y.ppid, procs[y.inc].parent)
  BY DEF RowsKin, Kin
<1>6. CASE y.ppid = None
  BY <1>2, <1>3, <1>4, <1>6
<1>7. CASE y.ppid = InitPid
  <2>1. RealParent(y) = 1 /\ y.ppid # None
    BY <1>7, InitPidAssumption, PidAssumption DEF RealParent
  <2>2. x.pid = InitPid <=> x.inc = 1
    BY <1>1, <1>2 DEF Told, NoRecycling
  <2> QED
    BY <1>3, <1>4, <1>7, <2>1, <2>2
<1>8. CASE y.ppid \notin {None, InitPid} /\ Told(y.ppid, procs[y.inc].parent)
  <2>1. RealParent(y) = procs[y.inc].parent
    BY <1>8 DEF RealParent
  <2>2. x.pid = y.ppid <=> x.inc = procs[y.inc].parent
    BY <1>1, <1>8 DEF Told, NoRecycling
  <2> QED
    BY <1>3, <1>4, <1>8, <2>1, <2>2
<1> QED
  BY <1>5, <1>6, <1>7, <1>8

(* A row is below another in the query if and only if that one is among    *)
(* its stored forebears.                                                   *)
LEMMA BelowIsLine ==
    ASSUME TypeOK, NamesTrue, RowsKin, NoRecycling, 1 <= Len(procs), procs[1].pid = InitPid,
           NEW s \in rows, Keyed(rows, s.pid, s.start) = {s}
    PROVE  \A r : r \in Descendants(rows, s.pid, s.start) <=> r \in rows /\ StoredLine(r, s)
<1> DEFINE R == rows
<1>1. PICK N \in Nat : N = TreeDepth
  BY DepthAssumption
<1>2. PICK C \in [R -> SUBSET R] : C = [x \in R |-> ChildRows(R, x)]
  BY DEF ChildRows
<1>3. PICK P \in [R -> SUBSET R] : P = [x \in R |-> StoredParents(x)]
  BY <1>1 DEF StoredParents
<1>4. \A x, y \in R : y \in C[x] <=> x \in P[y]
  BY <1>1, <1>2, <1>3, ChildrenReal
<1>5. PICK F : SearchesFrom(F, R, C, N)
  BY SearchesExist
<1>6. PICK G : SearchesFrom(G, R, P, N)
  BY SearchesExist
<1>7. Descendants(rows, s.pid, s.start) = UNION {F[s][d] : d \in 0 .. N}
  BY <1>1, <1>2, <1>5, TreeLevels
<1>8. \A r \in rows : StoredLine(r, s) <=> \E d \in 0 .. N : s \in G[r][d]
  BY <1>1, <1>3, <1>6, LineLevels
<1>9. \A d \in 0 .. N : \A r \in R : r \in F[s][d] <=> s \in G[r][d]
  BY <1>1, <1>4, <1>5, <1>6, TurnedRound
<1>10. \A d \in 0 .. N : F[s][d] \subseteq R
  BY <1>1, <1>5 DEF SearchesFrom
<1> QED
  BY <1>1, <1>7, <1>8, <1>9, <1>10

(* As long as no pid came round and the daemon did not die, there is one   *)
(* row to a pid, and a bound event is bound to it.                         *)
LEMMA ManifestIsTrue ==
    ASSUME ManifestInv, Undisturbed, NoRecycling, NEW s \in rows
    PROVE  /\ EventsByTree(rows, events, s.pid, s.start) \subseteq WrittenBelow(s)
           /\ \A e \in WrittenBelow(s) \ EventsByTree(rows, events, s.pid, s.start) : TooEarly(e)
<1>1. /\ TypeOK /\ NamesTrue /\ RowsKin /\ EventsTrue /\ EventsBound /\ RowKeys /\ OneStart
      /\ 1 <= Len(procs) /\ procs[1].pid = InitPid
  BY DEF ManifestInv, ManifestParts, ExitInv, ExitParts, ParentsTrue, Undisturbed
<1>2. \A x \in rows : x.pid \in Pid /\ Told(x.pid, x.inc)
  BY <1>1, RowTold
<1>3. ASSUME NEW x \in rows, NEW y \in rows, x.pid = y.pid PROVE x = y
  <2>1. PICK p \in Pid : p = x.pid /\ p = y.pid
    BY <1>2, <1>3
  <2>2. x \in Keyed(rows, p, x.start) /\ y \in Keyed(rows, p, y.start)
    BY <2>1 DEF Keyed
  <2>3. Starts(p, x.start) /\ Starts(p, y.start)
    BY <2>2 DEF Starts
  <2>4. x.start = y.start
    BY <1>1, <2>3 DEF OneStart
  <2> QED
    BY <1>1, <1>3, <2>4 DEF RowKeys
<1>4. Keyed(rows, s.pid, s.start) = {s}
  BY <1>3 DEF Keyed
<1>5. \A r : r \in Descendants(rows, s.pid, s.start) <=> r \in rows /\ StoredLine(r, s)
  BY <1>1, <1>4, BelowIsLine
<1>6. ASSUME NEW e \in events, NEW r \in rows
      PROVE  BelongsTo(e, r) <=> r.inc = e.inc /\ (e.start = None => r.start <= e.ts)
  <2>1. Told(e.pid, e.inc) /\ Told(r.pid, r.inc)
    BY <1>1, <1>2 DEF EventsTrue
  <2>2. e.pid = r.pid <=> r.inc = e.inc
    BY <2>1 DEF Told, NoRecycling
  <2>3. ASSUME e.pid = r.pid, e.start # None PROVE e.start = r.start
    <3>1. Keyed(rows, e.pid, e.start) # {}
      BY <1>1, <2>3 DEF EventsBound
    <3>2. PICK q \in rows : q.pid = e.pid /\ q.start = e.start
      BY <3>1 DEF Keyed
    <3>3. q = r
      BY <1>3, <2>3, <3>2
    <3> QED
      BY <3>2, <3>3
  <2>4. r.start # None
    <3>1. r \in ProcRow
      BY <1>1 DEF TypeOK, DaemonTypeOK
    <3> QED
      BY <3>1, PidAssumption DEF ProcRow
  <2> QED
    BY <2>2, <2>3, <2>4 DEF BelongsTo
<1>7. EventsByTree(rows, events, s.pid, s.start) \subseteq WrittenBelow(s)
  BY <1>5, <1>6 DEF EventsByTree, WrittenBelow
<1>8. ASSUME NEW e \in WrittenBelow(s), e \notin EventsByTree(rows, events, s.pid, s.start)
      PROVE  TooEarly(e)
  <2>1. PICK r \in rows : r.inc = e.inc /\ StoredLine(r, s)
    BY DEF WrittenBelow
  <2>2. e \in events /\ ~BelongsTo(e, r)
    BY <1>5, <1>8, <2>1 DEF EventsByTree, WrittenBelow
  <2>3. e.start = None /\ ~(r.start <= e.ts)
    BY <1>6, <2>1, <2>2
  <2>4. r.start \in Nat /\ e.ts \in Nat
    BY <1>1, <2>2 DEF TypeOK, DaemonTypeOK, ProcRow, EventRow
  <2> QED
    BY <2>1, <2>3, <2>4 DEF TooEarly
<1> QED
  BY <1>7, <1>8

(* "report everything it and its descendants touched" (chronicle.rs:215):  *)
(* the manifest of a stored process has nothing but what the processes     *)
(* stored below it wrote, and lacks of that only what was recorded unbound *)
(* in a second before its writer's fork was read, though the queries join  *)
(* rows by bare pids and an unbound event by its time, whatever the        *)
(* threads do, as long as no pid came round, no call failed and the daemon *)
(* did not die.                                                            *)
THEOREM TreeManifestsTrue == Spec => []TreeManifestTrue
<1>1. ManifestInv => TreeManifestTrue
  BY ManifestIsTrue DEF TreeManifestTrue
<1> QED
  BY <1>1, ManifestStarts, NextManifest, PTL DEF Spec
=============================================================================
