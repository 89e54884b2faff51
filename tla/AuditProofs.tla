----------------------------- MODULE AuditProofs -----------------------------
(***************************************************************************)
(* The daemon's log implements the audit trail, for every value of the     *)
(* constants: whatever fails, whoever dies and however the threads         *)
(* interleave.                                                             *)
(***************************************************************************)
EXTENDS TypeProofs

(* The events of others in q are in the order of their numbers, which lie  *)
(* above low and reach at most high.                                       *)
InOrder(q, low, high) ==
    /\ \A i \in 1 .. Len(q) : q[i].pid # Self => low < q[i].n /\ q[i].n <= high
    /\ \A i, j \in 1 .. Len(q) :
          i < j /\ q[i].pid # Self /\ q[j].pid # Self => q[i].n < q[j].n

(* A watcher between two events holds none, and the one it holds is older  *)
(* than all that wait in its group: why the next line is the oldest one.   *)
TakenInOrder ==
    \A w \in Watcher :
        /\ pc[w] \in {"off", "idle", "stopped"} => cur[w] = NoEvent
        /\ cur[w].n <= written
        /\ InOrder(fanotify[w], cur[w].n, written)

-----------------------------------------------------------------------------
(* What is reported in a queue, and in which order, after an event is      *)
(* queued and after one is taken.                                          *)
LEMMA Appended ==
    ASSUME NEW q \in Seq(Event), NEW e \in Event
    PROVE  /\ Append(q, e) \in Seq(Event) /\ Len(q) \in Nat
           /\ Len(Append(q, e)) = Len(q) + 1
           /\ Append(q, e)[Len(q) + 1] = e
           /\ \A i \in 1 .. Len(q) : Append(q, e)[i] = q[i] /\ q[i] \in Event
           /\ \A i \in 1 .. Len(q) + 1 : i = Len(q) + 1 \/ i \in 1 .. Len(q)
  OBVIOUS

LEMMA ReportsAppend ==
    ASSUME NEW q \in Seq(Event), NEW e \in Event
    PROVE  Reports(Append(q, e)) =
              Reports(q) \cup (IF e.pid = Self THEN {} ELSE {e.n})
<1> DEFINE a == Append(q, e)
           n == Len(q)
<1>1. /\ Len(a) = n + 1 /\ a[n + 1] = e /\ n + 1 \in 1 .. Len(a)
      /\ \A i \in 1 .. n : a[i] = q[i] /\ i \in 1 .. Len(a)
      /\ \A i \in 1 .. Len(a) : i = n + 1 \/ i \in 1 .. n
  BY Appended
<1> HIDE DEF a, n
<1>2. \A m \in Reports(a) : m \in Reports(q) \/ (e.pid # Self /\ m = e.n)
  BY <1>1 DEF Reports, n
<1>3. \A m \in Reports(q) : m \in Reports(a)
  BY <1>1 DEF Reports, n
<1>4. e.pid # Self => e.n \in Reports(a)
  BY <1>1 DEF Reports
<1> QED
  BY <1>2, <1>3, <1>4 DEF a

LEMMA Shortened ==
    ASSUME NEW q \in Seq(Event), q # <<>>
    PROVE  /\ Tail(q) \in Seq(Event) /\ Len(q) \in Nat /\ 1 \in 1 .. Len(q)
           /\ Head(q) = q[1] /\ q[1] \in Event
           /\ Len(Tail(q)) = Len(q) - 1
           /\ \A i \in 1 .. Len(Tail(q)) : Tail(q)[i] = q[i + 1] /\ i + 1 \in 1 .. Len(q)
           /\ \A i \in 1 .. Len(q) : i = 1 \/ i - 1 \in 1 .. Len(Tail(q))
  OBVIOUS

LEMMA ReportsTail ==
    ASSUME NEW q \in Seq(Event), q # <<>>
    PROVE  Reports(q) =
              Reports(Tail(q)) \cup (IF Head(q).pid = Self THEN {} ELSE {Head(q).n})
<1> DEFINE t == Tail(q)
<1>1. /\ Head(q) = q[1] /\ 1 \in 1 .. Len(q) /\ Len(t) = Len(q) - 1 /\ Len(q) \in Nat
      /\ \A i \in 1 .. Len(t) : t[i] = q[i + 1] /\ i + 1 \in 1 .. Len(q)
      /\ \A i \in 1 .. Len(q) : i = 1 \/ i - 1 \in 1 .. Len(t)
  BY Shortened
<1> HIDE DEF t
<1>2. \A i \in 1 .. Len(q) : i = 1 \/ \E k \in 1 .. Len(t) : t[k] = q[i]
  <2>1. SUFFICES ASSUME NEW i \in 1 .. Len(q), i # 1
                 PROVE  \E k \in 1 .. Len(t) : t[k] = q[i]
    OBVIOUS
  <2>2. i - 1 \in 1 .. Len(t) /\ (i - 1) + 1 = i
    BY <1>1, <2>1
  <2>3. t[i - 1] = q[i]
    BY <1>1, <2>2
  <2> QED
    BY <2>2, <2>3
<1>3. \A m \in Reports(q) : m \in Reports(t) \/ (Head(q).pid # Self /\ m = Head(q).n)
  <2>1. SUFFICES ASSUME NEW i \in 1 .. Len(q), q[i].pid # Self, q[i].n \notin Reports(t)
                 PROVE  Head(q).pid # Self /\ q[i].n = Head(q).n
    BY DEF Reports
  <2>2. i = 1
    <3>1. SUFFICES ASSUME NEW k \in 1 .. Len(t), t[k] = q[i] PROVE FALSE
      BY <1>2
    <3> QED
      BY <2>1, <3>1 DEF Reports
  <2> QED
    BY <1>1, <2>1, <2>2
<1>4. \A m \in Reports(t) : m \in Reports(q)
  <2>1. SUFFICES ASSUME NEW i \in 1 .. Len(t), t[i].pid # Self
                 PROVE  t[i].n \in Reports(q)
    BY DEF Reports
  <2>2. i + 1 \in 1 .. Len(q) /\ q[i + 1] = t[i]
    BY <1>1
  <2>3. q[i + 1].n \in Reports(q)
    BY <2>1, <2>2 DEF Reports
  <2> QED
    BY <2>2, <2>3
<1>5. Head(q).pid # Self => Head(q).n \in Reports(q)
  BY <1>1 DEF Reports
<1> QED
  BY <1>3, <1>4, <1>5 DEF t

LEMMA OrderAppend ==
    ASSUME NEW q \in Seq(Event), NEW e \in Event, NEW low \in Nat, NEW high \in Nat,
           NEW more \in Nat, high <= more, InOrder(q, low, high),
           e.pid # Self => high < e.n /\ e.n <= more /\ low < e.n
    PROVE  InOrder(Append(q, e), low, more)
<1> DEFINE a == Append(q, e)
           n == Len(q)
<1>1. /\ n \in Nat /\ Len(a) = n + 1 /\ a[n + 1] = e /\ n + 1 \in 1 .. Len(a)
      /\ \A i \in 1 .. n : a[i] = q[i] /\ q[i] \in Event
      /\ \A i \in 1 .. Len(a) : i = n + 1 \/ i \in 1 .. n
  BY Appended
<1>2. e.n \in Nat /\ \A i \in 1 .. n : q[i].n \in Nat
  BY <1>1 DEF Event
<1> HIDE DEF a, n
<1>3. \A i \in 1 .. n : q[i].pid # Self => low < q[i].n /\ q[i].n <= high
  BY DEF InOrder, n
<1>4. \A i \in 1 .. Len(a) : a[i].pid # Self => low < a[i].n /\ a[i].n <= more
  BY <1>1, <1>2, <1>3
<1>5. ASSUME NEW i \in 1 .. Len(a), NEW j \in 1 .. Len(a),
             i < j, a[i].pid # Self, a[j].pid # Self
      PROVE  a[i].n < a[j].n
  <2>1. i \in 1 .. n /\ a[i] = q[i]
    BY <1>1, <1>5
  <2>2. CASE j = n + 1
    BY <1>1, <1>2, <1>3, <1>5, <2>1, <2>2
  <2>3. CASE j \in 1 .. n
    BY <1>1, <1>5, <2>1, <2>3 DEF InOrder, n
  <2> QED
    BY <1>1, <2>2, <2>3
<1> QED
  BY <1>4, <1>5 DEF InOrder, a

(* What is left after the head lies above it. *)
LEMMA OrderTail ==
    ASSUME NEW q \in Seq(Event), q # <<>>, NEW low, NEW high, InOrder(q, low, high)
    PROVE  /\ InOrder(Tail(q), low, high)
           /\ Head(q).pid # Self =>
                 /\ low < Head(q).n /\ Head(q).n <= high
                 /\ InOrder(Tail(q), Head(q).n, high)
<1> DEFINE t == Tail(q)
<1>1. /\ Head(q) = q[1] /\ 1 \in 1 .. Len(q) /\ Len(t) = Len(q) - 1 /\ Len(q) \in Nat
      /\ \A i \in 1 .. Len(t) : t[i] = q[i + 1] /\ i + 1 \in 1 .. Len(q) /\ 1 < i + 1
  BY Shortened
<1> HIDE DEF t
<1>2. \A i, j \in 1 .. Len(t) : i < j => i + 1 < j + 1
  BY <1>1
<1>3. \A i, j \in 1 .. Len(t) :
         i < j /\ t[i].pid # Self /\ t[j].pid # Self => t[i].n < t[j].n
  BY <1>1, <1>2 DEF InOrder
<1>4. \A i \in 1 .. Len(t) : t[i].pid # Self => low < t[i].n /\ t[i].n <= high
  BY <1>1 DEF InOrder
<1>5. Head(q).pid # Self => low < Head(q).n /\ Head(q).n <= high
  BY <1>1 DEF InOrder
<1>6. Head(q).pid # Self => \A i \in 1 .. Len(t) : t[i].pid # Self => Head(q).n < t[i].n
  BY <1>1 DEF InOrder
<1> QED
  BY <1>3, <1>4, <1>5, <1>6 DEF InOrder, t

(* In a queue in order every report lies above its lower bound. *)
LEMMA ReportsAbove ==
    ASSUME NEW q, NEW low, NEW high, InOrder(q, low, high)
    PROVE  \A m \in Reports(q) : low < m /\ m <= high
  BY DEF InOrder, Reports

LEMMA OrderLower ==
    ASSUME NEW q \in Seq(Event), NEW low \in Nat, NEW high, NEW lower \in Nat,
           lower <= low, InOrder(q, low, high)
    PROVE  InOrder(q, lower, high)
<1>1. \A i \in 1 .. Len(q) : q[i] \in Event
  OBVIOUS
<1>2. \A i \in 1 .. Len(q) : q[i].n \in Nat
  BY <1>1 DEF Event
<1> QED
  BY <1>2 DEF InOrder

(* The daemon's own writes are no reports and disturb no order. *)
LEMMA EchoKeeps ==
    ASSUME TypeOK, fanotify' \in {fanotify, Echoed(fanotify)}, NEW w \in Watcher
    PROVE  /\ fanotify'[w] \in Seq(Event)
           /\ Reports(fanotify'[w]) = Reports(fanotify[w])
           /\ \A low, high \in Nat :
                 InOrder(fanotify[w], low, high) => InOrder(fanotify'[w], low, high)
<1>1. fanotify[w] \in Seq(Event) /\ OwnEvent \in Event /\ OwnEvent.pid = Self
  BY NoEventIsEvent DEF TypeOK, KernelTypeOK, NoEvent, OwnEvent
<1>2. fanotify'[w] \in {fanotify[w], Append(fanotify[w], OwnEvent)}
  BY DEF Echoed
<1>3. CASE fanotify'[w] = fanotify[w]
  BY <1>1, <1>3
<1>4. CASE fanotify'[w] = Append(fanotify[w], OwnEvent)
  <2>1. fanotify'[w] \in Seq(Event) /\ Reports(fanotify'[w]) = Reports(fanotify[w])
    <3>1. Append(fanotify[w], OwnEvent) \in Seq(Event)
      BY <1>1
    <3>2. Reports(Append(fanotify[w], OwnEvent)) = Reports(fanotify[w]) \cup {}
      BY <1>1, ReportsAppend
    <3> QED
      BY <1>4, <3>1, <3>2
  <2>2. ASSUME NEW low \in Nat, NEW high \in Nat, InOrder(fanotify[w], low, high)
        PROVE  InOrder(fanotify'[w], low, high)
    <3>1. high <= high
      OBVIOUS
    <3> QED
      BY <1>1, <1>4, <2>2, <3>1, OrderAppend
  <2> QED
    BY <2>1, <2>2
<1> QED
  BY <1>2, <1>3, <1>4

-----------------------------------------------------------------------------
(* TakenInOrder is inductive. *)
LEMMA CurType ==
    ASSUME TypeOK, NEW w \in Watcher
    PROVE  /\ cur[w] \in Event /\ cur[w].n \in Nat /\ written \in Nat
           /\ fanotify[w] \in Seq(Event)
           /\ pc[w] \notin {"off", "idle", "stopped"} => cur[w].pid # Self /\ cur[w] # NoEvent
           /\ NoEvent.n = 0 /\ NoEvent.pid = Self
<1>1. cur[w] \in Event /\ written \in Nat /\ fanotify[w] \in Seq(Event)
  BY DEF TypeOK, KernelTypeOK, DaemonTypeOK
<1>2. NoEvent.n = 0 /\ NoEvent.pid = Self
  BY DEF NoEvent, OwnEvent
<1>3. pc[w] \notin {"off", "idle", "stopped"} => cur[w].pid # Self
  BY SelfAssumption DEF TypeOK, DaemonTypeOK
<1> QED
  BY <1>1, <1>2, <1>3 DEF Event

LEMMA InitInOrder == Init => TakenInOrder
<1> SUFFICES ASSUME Init, NEW w \in Watcher
             PROVE  /\ cur[w] = NoEvent /\ cur[w].n <= written
                    /\ InOrder(fanotify[w], cur[w].n, written)
  BY DEF TakenInOrder
<1>1. cur[w] = NoEvent /\ written = 0 /\ fanotify[w] = <<>>
  BY DEF Init, KernelInit
<1>2. NoEvent.n = 0
  BY DEF NoEvent, OwnEvent
<1>3. InOrder(<<>>, 0, 0)
  BY DEF InOrder
<1> QED
  BY <1>1, <1>2, <1>3

(* A watcher whose event stays, or that waits for one as before, and whose *)
(* queue got at most an echo, is still in order.                           *)
LEMMA StillInOrder ==
    ASSUME TypeOK, TakenInOrder, NEW w \in Watcher,
           UNCHANGED written, cur'[w] = cur[w],
           fanotify' \in {fanotify, Echoed(fanotify)},
           pc'[w] \in {"off", "idle", "stopped"} => pc[w] \in {"off", "idle", "stopped"}
    PROVE  /\ pc'[w] \in {"off", "idle", "stopped"} => cur'[w] = NoEvent
           /\ cur'[w].n <= written'
           /\ InOrder(fanotify'[w], cur'[w].n, written')
  BY CurType, EchoKeeps DEF TakenInOrder

(* Most steps neither take an event nor finish one. *)
LEMMA NoneTaken ==
    ASSUME TypeOK, TakenInOrder, UNCHANGED <<written, cur>>,
           fanotify' \in {fanotify, Echoed(fanotify)},
           \A w \in Watcher :
               pc'[w] \in {"off", "idle", "stopped"} => pc[w] \in {"off", "idle", "stopped"}
    PROVE  TakenInOrder'
<1>1. \A w \in Watcher : cur'[w] = cur[w]
  OBVIOUS
<1> QED
  BY <1>1, StillInOrder DEF TakenInOrder

(* The other watchers are not concerned when one takes or drops an event. *)
LEMMA OneTaken ==
    ASSUME TypeOK, TakenInOrder, NEW w \in Watcher, UNCHANGED written,
           \A v \in Watcher \ {w} :
               fanotify'[v] = fanotify[v] /\ cur'[v] = cur[v] /\ pc'[v] = pc[v],
           pc'[w] \in {"off", "idle", "stopped"} => cur'[w] = NoEvent,
           cur'[w].n <= written',
           InOrder(fanotify'[w], cur'[w].n, written')
    PROVE  TakenInOrder'
  BY DEF TakenInOrder

LEMMA HeadInOrder ==
    ASSUME TypeOK, TakenInOrder, NEW w \in Watcher, fanotify[w] # <<>>
    PROVE  /\ InOrder(Tail(fanotify[w]), cur[w].n, written)
           /\ Head(fanotify[w]).pid # Self =>
                 /\ Head(fanotify[w]).n <= written
                 /\ InOrder(Tail(fanotify[w]), Head(fanotify[w]).n, written)
  BY CurType, OrderTail DEF TakenInOrder

LEMMA WriteInOrder ==
    ASSUME TypeOK, TakenInOrder, NEW w \in Watcher, NEW p \in Pid, Write(w, p),
           UNCHANGED daemonVars
    PROVE  TakenInOrder'
<1>1. PICK e : e = [pid |-> p, n |-> written + 1, inc |-> holder[p]]
  OBVIOUS
<1>2. e \in Event /\ e.n = written + 1 /\ written \in Nat
  BY <1>1 DEF Event, TypeOK, KernelTypeOK
<1>3. UNCHANGED <<cur, pc>> /\ written' = written + 1
  BY DEF Write, daemonVars, threadVars
<1>4. fanotify'[w] = Append(fanotify[w], e) /\ \A v \in Watcher \ {w} : fanotify'[v] = fanotify[v]
  BY <1>1 DEF Write, TypeOK, KernelTypeOK
<1>5. ASSUME NEW v \in Watcher
      PROVE  cur[v].n <= written + 1 /\ InOrder(fanotify'[v], cur[v].n, written + 1)
  <2>1. /\ cur[v].n \in Nat /\ fanotify[v] \in Seq(Event) /\ written + 1 \in Nat
        /\ cur[v].n <= written /\ InOrder(fanotify[v], cur[v].n, written)
    BY <1>2, CurType DEF TakenInOrder
  <2>2. written < e.n /\ e.n <= written + 1 /\ cur[v].n < e.n /\ written <= written + 1
    BY <1>2, <2>1
  <2>3. InOrder(Append(fanotify[v], e), cur[v].n, written + 1)
    BY <1>2, <2>1, <2>2, OrderAppend
  <2>4. InOrder(fanotify[v], cur[v].n, written + 1)
    <3>1. \A i \in 1 .. Len(fanotify[v]) : fanotify[v][i] \in Event
      BY <2>1
    <3>2. \A i \in 1 .. Len(fanotify[v]) : fanotify[v][i].n \in Nat
      BY <3>1 DEF Event
    <3> QED
      BY <1>2, <2>1, <3>2 DEF InOrder
  <2>5. InOrder(fanotify'[v], cur[v].n, written + 1)
    <3>1. CASE v = w
      BY <1>4, <2>3, <3>1
    <3>2. CASE v # w
      BY <1>4, <2>4, <3>2
    <3> QED
      BY <3>1, <3>2
  <2> QED
    BY <1>2, <2>1, <2>5
<1> QED
  BY <1>3, <1>5 DEF TakenInOrder

LEMMA CrashInOrder == TypeOK /\ Crash => TakenInOrder'
<1> SUFFICES ASSUME TypeOK, Crash, NEW w \in Watcher
             PROVE  /\ cur'[w] = NoEvent /\ cur'[w].n <= written'
                    /\ InOrder(fanotify'[w], cur'[w].n, written')
  BY DEF TakenInOrder
<1>1. cur'[w] = NoEvent /\ written' = written /\ fanotify'[w] = <<>>
  BY DEF Crash
<1>2. NoEvent.n = 0 /\ written \in Nat
  BY CurType
<1>3. InOrder(<<>>, 0, written)
  BY DEF InOrder
<1> QED
  BY <1>1, <1>2, <1>3

(* The watcher's own steps. *)
LEMMA WatcherInOrder ==
    ASSUME TypeOK, TakenInOrder, NEW w \in Watcher,
           WatcherStep(w) \/ ReadError(w) \/ DropEvent(w)
    PROVE  TakenInOrder'
<1>1. pc \in [Watcher -> Place] /\ cur \in [Watcher -> Event]
      /\ fanotify \in [Watcher -> Seq(Event)]
  BY DEF TypeOK, KernelTypeOK, DaemonTypeOK
<1>2. CASE Watch(w) \/ ReadError(w)
  <2>1. pc[w] \in {"off", "idle"} /\ UNCHANGED <<written, cur, fanotify>>
    BY <1>2 DEF Watch, ReadError, kernelVars
  <2>2. \A v \in Watcher :
           pc'[v] \in {"off", "idle", "stopped"} => pc[v] \in {"off", "idle", "stopped"}
    BY <1>1, <1>2, <2>1 DEF Watch, ReadError
  <2> QED
    BY <2>1, <2>2, NoneTaken
<1>3. CASE InsertRow(w) \/ WriteExit(w) \/ Mark(w) \/ Stamp(w) \/ RecordEvent(w)
  <2>1. UNCHANGED <<written, cur>> /\ fanotify' \in {fanotify, Echoed(fanotify)}
    BY <1>3 DEF InsertRow, WriteExit, Mark, Stamp, RecordEvent, kernelVars
  <2>2. /\ \A v \in Watcher \ {w} : pc'[v] = pc[v]
        /\ pc'[w] \notin {"off", "idle", "stopped"}
    BY <1>1, <1>3 DEF InsertRow, WriteExit, Mark, Stamp, RecordEvent, AfterChain
  <2> QED
    BY <2>1, <2>2, NoneTaken
<1>4. CASE IgnoreOwn(w) \/ DropEvent(w)
  <2>1. /\ fanotify[w] # <<>> /\ UNCHANGED <<written, cur, pc>>
        /\ fanotify' = [fanotify EXCEPT ![w] = Tail(@)]
    BY <1>4 DEF IgnoreOwn, DropEvent, daemonVars, threadVars
  <2>2. /\ fanotify'[w] = Tail(fanotify[w])
        /\ \A v \in Watcher \ {w} : fanotify'[v] = fanotify[v]
    BY <1>1, <2>1
  <2>3. InOrder(fanotify'[w], cur'[w].n, written')
    BY <2>1, <2>2, HeadInOrder
  <2>4. (pc'[w] \in {"off", "idle", "stopped"} => cur'[w] = NoEvent) /\ cur'[w].n <= written'
    BY <2>1 DEF TakenInOrder
  <2> QED
    BY <2>1, <2>2, <2>3, <2>4, OneTaken
<1>5. CASE TakeEvent(w)
  <2>1. /\ fanotify[w] # <<>> /\ Head(fanotify[w]).pid # Self /\ UNCHANGED written
        /\ fanotify' = [fanotify EXCEPT ![w] = Tail(@)]
        /\ cur' = [cur EXCEPT ![w] = Head(fanotify[w])]
    BY <1>5 DEF TakeEvent
  <2>2. /\ \A v \in Watcher \ {w} : pc'[v] = pc[v]
        /\ pc'[w] \notin {"off", "idle", "stopped"}
    BY <1>1, <1>5 DEF TakeEvent, AfterChain
  <2>3. /\ fanotify'[w] = Tail(fanotify[w]) /\ cur'[w] = Head(fanotify[w])
        /\ \A v \in Watcher \ {w} : fanotify'[v] = fanotify[v] /\ cur'[v] = cur[v]
    BY <1>1, <2>1
  <2>4. cur'[w].n <= written' /\ InOrder(fanotify'[w], cur'[w].n, written')
    BY <2>1, <2>3, HeadInOrder
  <2> QED
    BY <2>1, <2>2, <2>3, <2>4, OneTaken
<1>6. CASE AppendLog(w)
  <2>1. /\ UNCHANGED written /\ fanotify' \in {fanotify, Echoed(fanotify)}
        /\ cur' = [cur EXCEPT ![w] = NoEvent] /\ pc' = [pc EXCEPT ![w] = "idle"]
    BY <1>6 DEF AppendLog
  <2>2. /\ cur'[w] = NoEvent
        /\ \A v \in Watcher \ {w} : cur'[v] = cur[v] /\ pc'[v] = pc[v]
    BY <1>1, <2>1
  <2>3. /\ cur[w].n \in Nat /\ NoEvent.n = 0 /\ fanotify[w] \in Seq(Event) /\ written \in Nat
        /\ InOrder(fanotify[w], cur[w].n, written)
    BY CurType DEF TakenInOrder
  <2>4. InOrder(fanotify[w], 0, written)
    BY <2>3, OrderLower
  <2>5. InOrder(fanotify'[w], cur'[w].n, written') /\ cur'[w].n <= written'
    BY <2>1, <2>2, <2>3, <2>4, EchoKeeps
  <2>6. ASSUME NEW v \in Watcher \ {w}
        PROVE  /\ pc'[v] \in {"off", "idle", "stopped"} => cur'[v] = NoEvent
               /\ cur'[v].n <= written'
               /\ InOrder(fanotify'[v], cur'[v].n, written')
    BY <2>1, <2>2, StillInOrder
  <2> QED
    BY <2>2, <2>5, <2>6 DEF TakenInOrder
<1> QED
  BY <1>2, <1>3, <1>4, <1>5, <1>6 DEF WatcherStep

LEMMA NextInOrder == TypeOK /\ TakenInOrder /\ [Next]_vars => TakenInOrder'
<1> SUFFICES ASSUME TypeOK, TakenInOrder, [Next]_vars PROVE TakenInOrder'
  OBVIOUS
<1>1. CASE Machine
  <2>1. ASSUME NEW w \in Watcher, NEW p \in Pid, Write(w, p) PROVE TakenInOrder'
    BY <1>1, <2>1, WriteInOrder DEF Machine
  <2>2. CASE UNCHANGED <<written, fanotify>>
    BY <1>1, <2>2, NoneTaken DEF Machine, daemonVars, threadVars
  <2> QED
    BY <1>1, <2>1, <2>2 DEF Machine, Fork, Exec, Exit, Tick
<1>2. CASE Crash
  BY <1>2, CrashInOrder
<1>3. ASSUME NEW w \in Watcher, WatcherStep(w) \/ ReadError(w) \/ DropEvent(w)
      PROVE  TakenInOrder'
  BY <1>3, WatcherInOrder
<1>4. CASE Boot \/ ConnectorStep \/ Evict \/ UNCHANGED vars
  <2>1. UNCHANGED <<written, cur, pc>> /\ fanotify' \in {fanotify, Echoed(fanotify)}
    BY <1>4 DEF Boot, ConnectorStep, Listen, RecvFork, RecvExec, RecvExit, CloseRow,
                RecvOverrun, Evict, threadVars, kernelVars, daemonVars, vars
  <2> QED
    BY <2>1, NoneTaken
<1> QED
  BY <1>1, <1>2, <1>3, <1>4 DEF Next

-----------------------------------------------------------------------------
(* What a step of the daemon is to the audit trail. *)
Pending == [w \in Watcher |-> PendingOf(w)]

Trail == [i \in 1 .. Len(log) |-> log[i].n]

LEMMA InitAudit == Init => Audit!Init
<1> SUFFICES ASSUME Init PROVE Audit!Init
  OBVIOUS
<1>1. written = 0 /\ refused = {} /\ log = <<>>
  BY DEF Init, KernelInit
<1>2. \A w \in Watcher : PendingOf(w) = {}
  <2>1. \A w \in Watcher : fanotify[w] = <<>> /\ cur[w] = NoEvent
    BY DEF Init, KernelInit
  <2>2. Reports(<<>>) = {}
    BY DEF Reports
  <2> QED
    BY <2>1, <2>2 DEF PendingOf
<1>3. [w \in Watcher |-> PendingOf(w)] = [w \in Watcher |-> {}]
  BY <1>2
<1>4. [i \in 1 .. Len(log) |-> log[i].n] = <<>>
  BY <1>1
<1> QED
  BY <1>1, <1>3, <1>4 DEF Audit!Init

LEMMA SamePending ==
    ASSUME TypeOK, NEW w \in Watcher, cur'[w] = cur[w],
           fanotify' \in {fanotify, Echoed(fanotify)}
    PROVE  PendingOf(w)' = PendingOf(w)
<1>1. Reports(fanotify'[w]) = Reports(fanotify[w])
  BY EchoKeeps
<1> QED
  BY <1>1 DEF PendingOf

LEMMA AuditStutters ==
    ASSUME TypeOK, UNCHANGED <<written, log, refused>>,
           \A w \in Watcher : PendingOf(w)' = PendingOf(w)
    PROVE  UNCHANGED Audit!auditVars
<1>1. [w \in Watcher |-> PendingOf(w)'] = [w \in Watcher |-> PendingOf(w)]
  OBVIOUS
<1> QED
  BY <1>1 DEF Audit!auditVars

LEMMA AuditReports ==
    ASSUME TypeOK, NEW w \in Watcher, NEW p \in Pid, Write(w, p), UNCHANGED daemonVars
    PROVE  Audit!Report(w)
<1>1. PICK e : e = [pid |-> p, n |-> written + 1, inc |-> holder[p]]
  OBVIOUS
<1>2. e \in Event /\ e.n = written + 1 /\ e.pid # Self
  BY <1>1, SelfAssumption DEF Event, TypeOK, KernelTypeOK
<1>3. UNCHANGED <<cur, log, refused>> /\ written' = written + 1 /\ written < MaxWrites
  BY DEF Write, daemonVars, threadVars
<1>4. fanotify'[w] = Append(fanotify[w], e) /\ \A v \in Watcher \ {w} : fanotify'[v] = fanotify[v]
  BY <1>1 DEF Write, TypeOK, KernelTypeOK
<1>5. Reports(fanotify'[w]) = Reports(fanotify[w]) \cup {written + 1}
  <2>1. Reports(Append(fanotify[w], e)) =
           Reports(fanotify[w]) \cup (IF e.pid = Self THEN {} ELSE {e.n})
    BY <1>2, CurType, ReportsAppend
  <2> QED
    BY <1>2, <1>4, <2>1
<1>6. PendingOf(w)' = PendingOf(w) \cup {written + 1}
  BY <1>3, <1>5 DEF PendingOf
<1>7. \A v \in Watcher \ {w} : PendingOf(v)' = PendingOf(v)
  BY <1>3, <1>4 DEF PendingOf
<1>8. Pending' = [Pending EXCEPT ![w] = @ \cup {written + 1}]
  BY <1>6, <1>7 DEF Pending
<1> QED
  BY <1>3, <1>8 DEF Audit!Report, Pending

(* The event at hand is the next of its watcher's reports. *)
LEMMA CurIsNext ==
    ASSUME TypeOK, TakenInOrder, NEW w \in Watcher, pc[w] = "log"
    PROVE  /\ Audit!IsNext(cur[w].n, w)
           /\ PendingOf(w) \ {cur[w].n} = Reports(fanotify[w])
           /\ cur[w].n \in PendingOf(w)
<1>1. cur[w] # NoEvent /\ cur[w].n \in Nat /\ fanotify[w] \in Seq(Event)
  BY CurType
<1>2. PendingOf(w) = Reports(fanotify[w]) \cup {cur[w].n}
  BY <1>1 DEF PendingOf
<1>3. \A m \in Reports(fanotify[w]) : cur[w].n < m
  BY ReportsAbove DEF TakenInOrder
<1>4. Reports(fanotify[w]) \subseteq Nat
  <2>1. \A i \in 1 .. Len(fanotify[w]) : fanotify[w][i] \in Event
    BY <1>1
  <2> QED
    BY <2>1 DEF Reports, Event
<1>5. \A m \in PendingOf(w) : cur[w].n <= m
  BY <1>1, <1>2, <1>3, <1>4
<1>6. cur[w].n \notin Reports(fanotify[w])
  BY <1>1, <1>3
<1> QED
  BY <1>2, <1>5, <1>6 DEF Audit!IsNext

(* Of a watcher that waits, the next report is the head of its queue. *)
LEMMA HeadIsNext ==
    ASSUME TypeOK, TakenInOrder, NEW w \in Watcher, pc[w] = "idle",
           fanotify[w] # <<>>, Head(fanotify[w]).pid # Self
    PROVE  /\ Audit!IsNext(Head(fanotify[w]).n, w)
           /\ PendingOf(w) \ {Head(fanotify[w]).n} = Reports(Tail(fanotify[w]))
           /\ Head(fanotify[w]).n \in PendingOf(w)
<1> DEFINE h == Head(fanotify[w])
           t == Tail(fanotify[w])
<1>1. cur[w] = NoEvent /\ fanotify[w] \in Seq(Event)
  BY CurType DEF TakenInOrder
<1>2. h \in Event /\ t \in Seq(Event)
  BY <1>1
<1>3. PendingOf(w) = Reports(t) \cup {h.n}
  BY <1>1, ReportsTail DEF PendingOf
<1>4. \A m \in Reports(t) : h.n < m
  BY HeadInOrder, ReportsAbove
<1>5. Reports(t) \subseteq Nat /\ h.n \in Nat
  <2>1. \A i \in 1 .. Len(t) : t[i] \in Event
    BY <1>2
  <2> QED
    BY <1>2, <2>1 DEF Reports, Event
<1> HIDE DEF h, t
<1>6. \A m \in PendingOf(w) : h.n <= m
  BY <1>3, <1>4, <1>5
<1>7. h.n \notin Reports(t)
  BY <1>4, <1>5
<1>8. Audit!IsNext(h.n, w) /\ PendingOf(w) \ {h.n} = Reports(t) /\ h.n \in PendingOf(w)
  BY <1>3, <1>6, <1>7 DEF Audit!IsNext
<1> QED
  BY <1>8 DEF h, t

LEMMA AuditEnters ==
    ASSUME TypeOK, TakenInOrder, NEW w \in Watcher, AppendLog(w)
    PROVE  Audit!Enter(w) \/ Audit!Refuse(w)
<1> DEFINE n == cur[w].n
<1>1. /\ pc[w] = "log" /\ UNCHANGED written /\ fanotify' \in {fanotify, Echoed(fanotify)}
      /\ cur' = [cur EXCEPT ![w] = NoEvent] /\ cur \in [Watcher -> Event]
  BY DEF AppendLog, TypeOK, DaemonTypeOK
<1>2. Audit!IsNext(n, w) /\ PendingOf(w) \ {n} = Reports(fanotify[w]) /\ n \in PendingOf(w)
  BY <1>1, CurIsNext
<1>3. PendingOf(w)' = PendingOf(w) \ {n}
  <2>1. Reports(fanotify'[w]) = Reports(fanotify[w]) /\ cur'[w] = NoEvent
    BY <1>1, EchoKeeps
  <2>2. PendingOf(w)' = Reports(fanotify'[w])
    BY <2>1 DEF PendingOf
  <2> QED
    BY <1>2, <2>1, <2>2
<1>4. \A v \in Watcher \ {w} : PendingOf(v)' = PendingOf(v)
  BY <1>1, SamePending
<1>5. Pending' = [Pending EXCEPT ![w] = @ \ {n}]
  BY <1>3, <1>4 DEF Pending
<1>6. n \in Pending[w]
  BY <1>2 DEF Pending
<1>7. CASE refused' = refused \cup {n} /\ UNCHANGED log
  BY <1>1, <1>2, <1>5, <1>6, <1>7 DEF Audit!Refuse, Pending
<1>8. CASE UNCHANGED refused /\
           log' = Append(log, [n |-> cur[w].n, pid |-> cur[w].pid, info |-> Identity(cur[w].pid)])
  <2>1. PICK line : line.n = n /\ log' = Append(log, line)
    BY <1>8
  <2>2. log \in Seq(LogLine) /\ Len(log) \in Nat
    BY DEF TypeOK, DaemonTypeOK
  <2>3. Len(log') = Len(log) + 1 /\ log'[Len(log) + 1] = line
        /\ \A i \in 1 .. Len(log) : log'[i] = log[i]
    BY <2>1, <2>2
  <2>4. Trail' = Append(Trail, n)
    BY <2>1, <2>2, <2>3 DEF Trail
  <2> QED
    BY <1>1, <1>2, <1>5, <1>6, <1>8, <2>4 DEF Audit!Enter, Pending, Trail
<1> QED
  BY <1>7, <1>8 DEF AppendLog

LEMMA AuditRefuses ==
    ASSUME TypeOK, TakenInOrder, NEW w \in Watcher, DropEvent(w)
    PROVE  Audit!Refuse(w)
<1> DEFINE n == Head(fanotify[w]).n
<1>1. /\ pc[w] = "idle" /\ fanotify[w] # <<>> /\ Head(fanotify[w]).pid # Self
      /\ UNCHANGED <<written, cur, log>> /\ refused' = refused \cup {n}
      /\ fanotify' = [fanotify EXCEPT ![w] = Tail(@)] /\ fanotify \in [Watcher -> Seq(Event)]
  BY DEF DropEvent, threadVars, TypeOK, KernelTypeOK
<1>2. /\ Audit!IsNext(n, w) /\ PendingOf(w) \ {n} = Reports(Tail(fanotify[w]))
      /\ n \in PendingOf(w)
  BY <1>1, HeadIsNext
<1>3. PendingOf(w)' = PendingOf(w) \ {n}
  <2>1. fanotify'[w] = Tail(fanotify[w]) /\ cur'[w] = NoEvent
    BY <1>1 DEF TakenInOrder
  <2> QED
    BY <1>2, <2>1 DEF PendingOf
<1>4. \A v \in Watcher \ {w} : PendingOf(v)' = PendingOf(v)
  BY <1>1 DEF PendingOf
<1>5. Pending' = [Pending EXCEPT ![w] = @ \ {n}]
  BY <1>3, <1>4 DEF Pending
<1>6. n \in Pending[w]
  BY <1>2 DEF Pending
<1> QED
  BY <1>1, <1>2, <1>5, <1>6 DEF Audit!Refuse, Pending

LEMMA AuditDies == Crash => Audit!Die
<1> SUFFICES ASSUME Crash PROVE Audit!Die
  OBVIOUS
<1>1. UNCHANGED <<written, log, refused>>
  BY DEF Crash
<1>2. \A w \in Watcher : fanotify'[w] = <<>> /\ cur'[w] = NoEvent
  BY DEF Crash
<1>3. Reports(<<>>) = {}
  BY DEF Reports
<1>4. \A w \in Watcher : PendingOf(w)' = {}
  BY <1>2, <1>3 DEF PendingOf
<1>5. Pending' = [w \in Watcher |-> {}]
  BY <1>4 DEF Pending
<1> QED
  BY <1>1, <1>5 DEF Audit!Die, Pending

(* Reading one's own event, and taking one to handle it, is no step. *)
LEMMA TakingStutters ==
    ASSUME TypeOK, TakenInOrder, NEW w \in Watcher, IgnoreOwn(w) \/ TakeEvent(w)
    PROVE  UNCHANGED Audit!auditVars
<1>1. /\ pc[w] = "idle" /\ fanotify[w] # <<>> /\ UNCHANGED <<written, log, refused>>
      /\ fanotify' = [fanotify EXCEPT ![w] = Tail(@)]
      /\ fanotify \in [Watcher -> Seq(Event)] /\ cur \in [Watcher -> Event]
  BY DEF IgnoreOwn, TakeEvent, daemonVars, TypeOK, KernelTypeOK, DaemonTypeOK
<1>2. cur[w] = NoEvent /\ fanotify'[w] = Tail(fanotify[w])
  BY <1>1 DEF TakenInOrder
<1>3. PICK h : h = Head(fanotify[w])
  OBVIOUS
<1>4. Reports(fanotify[w]) = Reports(fanotify'[w]) \cup (IF h.pid = Self THEN {} ELSE {h.n})
  BY <1>1, <1>2, <1>3, ReportsTail
<1>5. \/ h.pid = Self /\ UNCHANGED cur
      \/ h.pid # Self /\ cur' = [cur EXCEPT ![w] = h]
  BY <1>3 DEF IgnoreOwn, TakeEvent, daemonVars, threadVars
<1>6. PendingOf(w)' = PendingOf(w)
  <2>1. CASE h.pid = Self /\ UNCHANGED cur
    BY <1>2, <1>4, <2>1 DEF PendingOf
  <2>2. CASE h.pid # Self /\ cur' = [cur EXCEPT ![w] = h]
    <3>1. cur'[w] = h /\ h # NoEvent
      BY <1>1, <2>2 DEF NoEvent, OwnEvent
    <3> QED
      BY <1>2, <1>4, <2>2, <3>1 DEF PendingOf
  <2> QED
    BY <1>5, <2>1, <2>2
<1>7. \A v \in Watcher \ {w} : PendingOf(v)' = PendingOf(v)
  BY <1>1, <1>5 DEF PendingOf
<1> QED
  BY <1>1, <1>6, <1>7, AuditStutters

LEMMA NextAudit == TypeOK /\ TakenInOrder /\ [Next]_vars => [Audit!Next]_(Audit!auditVars)
<1> SUFFICES ASSUME TypeOK, TakenInOrder, [Next]_vars
             PROVE  Audit!Next \/ UNCHANGED Audit!auditVars
  OBVIOUS
<1>1. ASSUME UNCHANGED <<written, log, refused, cur>>,
             fanotify' \in {fanotify, Echoed(fanotify)}
      PROVE  UNCHANGED Audit!auditVars
  BY <1>1, SamePending, AuditStutters
<1>2. CASE Machine
  <2>1. ASSUME NEW w \in Watcher, NEW p \in Pid, Write(w, p) PROVE Audit!Next
    BY <1>2, <2>1, AuditReports DEF Machine, Audit!Next
  <2>2. CASE UNCHANGED <<written, fanotify>>
    BY <1>1, <1>2, <2>2 DEF Machine, daemonVars, threadVars
  <2> QED
    BY <1>2, <2>1, <2>2 DEF Machine, Fork, Exec, Exit, Tick
<1>3. CASE Crash
  BY <1>3, AuditDies DEF Audit!Next
<1>4. ASSUME NEW w \in Watcher, AppendLog(w) \/ DropEvent(w)
      PROVE  Audit!Next
  BY <1>4, AuditEnters, AuditRefuses DEF Audit!Next
<1>5. ASSUME NEW w \in Watcher, IgnoreOwn(w) \/ TakeEvent(w)
      PROVE  UNCHANGED Audit!auditVars
  BY <1>5, TakingStutters
<1>6. ASSUME NEW w \in Watcher,
             \/ Watch(w) \/ ReadError(w) \/ InsertRow(w) \/ WriteExit(w)
             \/ Mark(w) \/ Stamp(w) \/ RecordEvent(w)
      PROVE  UNCHANGED Audit!auditVars
  BY <1>1, <1>6 DEF Watch, ReadError, InsertRow, WriteExit, Mark, Stamp, RecordEvent, kernelVars
<1>7. CASE Boot \/ ConnectorStep \/ Evict \/ UNCHANGED vars
  BY <1>1, <1>7 DEF Boot, ConnectorStep, Listen, RecvFork, RecvExec, RecvExit, CloseRow,
                    RecvOverrun, Evict, threadVars, kernelVars, daemonVars, vars
<1> QED
  BY <1>2, <1>3, <1>4, <1>5, <1>6, <1>7 DEF Next, WatcherStep

(* The daemon implements the audit trail (whodidd.rs:321-324): a line of   *)
(* the log is one reported event, in the order its watcher was told of it, *)
(* whatever the graph, the connector and the other threads do, and a crash *)
(* takes back nothing that was written.                                    *)
THEOREM DaemonKeepsTrail == Spec => LogIsAuditTrail
<1>1. Init => TakenInOrder /\ Audit!Init
  BY InitInOrder, InitAudit
<1>2. TypeOK /\ TakenInOrder /\ [Next]_vars => TakenInOrder' /\ [Audit!Next]_(Audit!auditVars)
  BY NextInOrder, NextAudit
<1> QED
  BY <1>1, <1>2, TypeCorrect, PTL DEF Spec, LogIsAuditTrail, Audit!Spec

-----------------------------------------------------------------------------
(* As long as nothing fails a running daemon has its graph, and whoever is *)
(* about to write a line has stored its event.                             *)
GraphFirst ==
    faults = 0 =>
        /\ up => graphUp
        /\ \A w \in Watcher : pc[w] # "off" => up
        /\ \A w \in Watcher : pc[w] = "log" => \E e \in events : e.n = cur[w].n

Indexed == GraphFirst /\ IndexCoversLog

(* faults only counts up. *)
LEMMA NoFaultBefore ==
    ASSUME TypeOK, [Next]_vars, faults' = 0
    PROVE  faults = 0 /\ UNCHANGED faults /\ ~Fails
<1>1. faults \in Nat
  BY DEF TypeOK, DaemonTypeOK
<1>2. faults' = faults \/ faults' = faults + 1
  <2>1. CASE UNCHANGED faults
    BY <2>1
  <2>2. CASE Fails \/ Succeeds
    BY <2>2 DEF Fails, Succeeds
  <2>3. Machine \/ Evict \/ UNCHANGED vars => UNCHANGED faults
    BY DEF Machine, Evict, vars, daemonVars
  <2>4. Boot \/ Crash => UNCHANGED faults \/ Fails \/ Succeeds
    BY DEF Boot, Crash
  <2>5. ASSUME NEW w \in Watcher, WatcherStep(w)
        PROVE  UNCHANGED faults \/ Fails \/ Succeeds
    <3>1. Watch(w) \/ IgnoreOwn(w) => UNCHANGED faults \/ Fails \/ Succeeds
      BY DEF Watch, IgnoreOwn, daemonVars
    <3>2. TakeEvent(w) => UNCHANGED faults
      BY DEF TakeEvent
    <3>3. InsertRow(w) \/ WriteExit(w) \/ Mark(w) => UNCHANGED faults \/ Fails \/ Succeeds
      BY DEF InsertRow, WriteExit, Mark
    <3>4. Stamp(w) \/ RecordEvent(w) \/ AppendLog(w) => UNCHANGED faults \/ Fails \/ Succeeds
      BY DEF Stamp, RecordEvent, AppendLog
    <3> QED
      BY <2>5, <3>1, <3>2, <3>3, <3>4 DEF WatcherStep
  <2>6. ASSUME NEW w \in Watcher, ReadError(w) \/ DropEvent(w)
        PROVE  UNCHANGED faults \/ Fails \/ Succeeds
    BY <2>6 DEF ReadError, DropEvent
  <2>7. ConnectorStep => UNCHANGED faults \/ Fails \/ Succeeds
    BY DEF ConnectorStep, Listen, RecvFork, RecvExec, RecvExit, CloseRow, RecvOverrun
  <2> QED
    BY <2>1, <2>2, <2>3, <2>4, <2>5, <2>6, <2>7 DEF Next
<1> QED
  BY <1>1, <1>2 DEF Fails

LEMMA InitIndexed == Init => Indexed
  BY DEF Init, Indexed, GraphFirst, IndexCoversLog

(* Nothing is indexed or logged, and no thread gets to its line. *)
LEMMA StillIndexed ==
    ASSUME Indexed, faults' = 0 => faults = 0,
           UNCHANGED <<up, graphUp, events, log, cur>>,
           \A w \in Watcher : pc'[w] = pc[w] \/ (up /\ pc'[w] # "log")
    PROVE  Indexed'
  BY DEF Indexed, GraphFirst, IndexCoversLog

LEMMA NextIndexed == TypeOK /\ Indexed /\ [Next]_vars => Indexed'
<1> SUFFICES ASSUME TypeOK, Indexed, [Next]_vars, faults' = 0 PROVE Indexed'
  BY DEF Indexed, GraphFirst, IndexCoversLog
<1>1. faults = 0 /\ ~Fails
  BY NoFaultBefore
<1>2. /\ up => graphUp
      /\ \A w \in Watcher : pc[w] # "off" => up
      /\ \A w \in Watcher : pc[w] = "log" => \E e \in events : e.n = cur[w].n
      /\ \A i \in 1 .. Len(log) : \E e \in events : e.n = log[i].n
  BY <1>1 DEF Indexed, GraphFirst, IndexCoversLog
<1>3. pc \in [Watcher -> Place] /\ cur \in [Watcher -> Event] /\ log \in Seq(LogLine)
  BY DEF TypeOK, DaemonTypeOK
<1>4. CASE Machine \/ ConnectorStep \/ Evict \/ UNCHANGED vars
  BY <1>1, <1>4, StillIndexed
     DEF Machine, ConnectorStep, Listen, RecvFork, RecvExec, RecvExit, CloseRow,
         RecvOverrun, Evict, vars, daemonVars, threadVars
<1>5. CASE Boot
  <2>1. up' /\ graphUp' /\ UNCHANGED <<events, log, cur, pc>>
    BY <1>1, <1>5 DEF Boot, threadVars
  <2> QED
    BY <1>2, <2>1 DEF Indexed, GraphFirst, IndexCoversLog
<1>6. CASE Crash
  <2>1. ~up' /\ UNCHANGED <<events, log>> /\ \A w \in Watcher : pc'[w] = "off"
    BY <1>6 DEF Crash
  <2> QED
    BY <1>2, <2>1 DEF Indexed, GraphFirst, IndexCoversLog
<1>7. ASSUME NEW w \in Watcher,
             \/ Watch(w) \/ IgnoreOwn(w) \/ InsertRow(w) \/ WriteExit(w) \/ Mark(w) \/ Stamp(w)
             \/ ReadError(w) \/ DropEvent(w)
      PROVE  Indexed'
  <2>1. UNCHANGED <<up, graphUp, events, log, cur>>
    BY <1>7 DEF Watch, IgnoreOwn, InsertRow, WriteExit, Mark, Stamp, ReadError, DropEvent,
                daemonVars, threadVars
  <2>2. pc'[w] = pc[w] \/ (up /\ pc'[w] # "log")
    BY <1>2, <1>3, <1>7
       DEF Watch, IgnoreOwn, InsertRow, WriteExit, Mark, Stamp, ReadError, DropEvent,
           daemonVars, threadVars, AfterChain
  <2>3. \A v \in Watcher \ {w} : pc'[v] = pc[v]
    BY <1>3, <1>7
       DEF Watch, IgnoreOwn, InsertRow, WriteExit, Mark, Stamp, ReadError, DropEvent,
           daemonVars, threadVars
  <2> QED
    BY <1>1, <2>1, <2>2, <2>3, StillIndexed
<1>8. ASSUME NEW w \in Watcher, TakeEvent(w) PROVE Indexed'
  <2>1. /\ graphUp /\ pc[w] = "idle" /\ UNCHANGED <<up, graphUp, events, log>>
        /\ pc'[w] \in {"stamp", "insert"}
        /\ \A v \in Watcher \ {w} : pc'[v] = pc[v] /\ cur'[v] = cur[v]
    BY <1>2, <1>3, <1>8 DEF TakeEvent, AfterChain
  <2> QED
    BY <1>2, <2>1 DEF Indexed, GraphFirst, IndexCoversLog
<1>9. ASSUME NEW w \in Watcher, RecordEvent(w) PROVE Indexed'
  <2>1. PICK e : e.n = cur[w].n /\ events' = events \cup {e}
    BY <1>1, <1>9 DEF RecordEvent, Recorded
  <2>2. /\ UNCHANGED <<up, graphUp, log, cur>> /\ pc[w] = "record"
        /\ \A v \in Watcher \ {w} : pc'[v] = pc[v]
    BY <1>3, <1>9 DEF RecordEvent
  <2>3. \A v \in Watcher : pc'[v] = "log" => \E x \in events' : x.n = cur'[v].n
    BY <1>2, <2>1, <2>2
  <2>4. (up' => graphUp') /\ \A v \in Watcher : pc'[v] # "off" => up'
    BY <1>2, <2>2
  <2>5. IndexCoversLog'
    BY <1>2, <2>1, <2>2 DEF IndexCoversLog
  <2> QED
    BY <2>3, <2>4, <2>5 DEF Indexed, GraphFirst
<1>10. ASSUME NEW w \in Watcher, AppendLog(w) PROVE Indexed'
  <2>1. PICK line : line.n = cur[w].n /\ log' = Append(log, line)
    BY <1>1, <1>10 DEF AppendLog
  <2>2. /\ UNCHANGED <<up, graphUp, events>> /\ pc[w] = "log" /\ pc'[w] = "idle"
        /\ \A v \in Watcher \ {w} : pc'[v] = pc[v] /\ cur'[v] = cur[v]
    BY <1>3, <1>10 DEF AppendLog
  <2>3. \A i \in 1 .. Len(log') : log'[i] = line \/ (i \in 1 .. Len(log) /\ log'[i] = log[i])
    BY <1>3, <2>1
  <2>4. IndexCoversLog'
    BY <1>2, <2>1, <2>2, <2>3 DEF IndexCoversLog
  <2>5. GraphFirst'
    BY <1>2, <2>2 DEF GraphFirst
  <2> QED
    BY <2>4, <2>5 DEF Indexed
<1> QED
  BY <1>4, <1>5, <1>6, <1>7, <1>8, <1>9, <1>10 DEF Next, WatcherStep

(* "The graph is the queryable index built from" the log (README.md:194):  *)
(* without a failure no line of the log lacks its event, whenever the      *)
(* daemon dies, for the event is stored before the line is written.        *)
THEOREM LogIsIndexed == Spec => []IndexCoversLog
<1>1. Init => Indexed
  BY InitIndexed
<1>2. TypeOK /\ Indexed /\ [Next]_vars => Indexed'
  BY NextIndexed
<1>3. Indexed => IndexCoversLog
  BY DEF Indexed
<1> QED
  BY <1>1, <1>2, <1>3, TypeCorrect, PTL DEF Spec

-----------------------------------------------------------------------------
(* What the audit trail itself gives: a report is pending with one source  *)
(* at most and only until it enters, so that it enters once.               *)
EnteredOnce == \A i, j \in 1 .. Len(log) : log[i].n = log[j].n => i = j

OnceOnly ==
    /\ EnteredOnce
    /\ \A w \in Watcher : \A n \in PendingOf(w) :
          /\ n \in 1 .. written
          /\ \A v \in Watcher \ {w} : n \notin PendingOf(v)
          /\ \A i \in 1 .. Len(log) : log[i].n # n
    /\ \A i \in 1 .. Len(log) : log[i].n \in 1 .. written

LEMMA TrailShape ==
    ASSUME NEW l \in Seq(LogLine), NEW t, t = [i \in 1 .. Len(l) |-> l[i].n]
    PROVE  /\ t \in Seq(Nat) /\ Len(t) = Len(l) /\ Len(l) \in Nat
           /\ \A i \in 1 .. Len(l) : t[i] = l[i].n
<1>1. \A i \in 1 .. Len(l) : l[i] \in LogLine
  OBVIOUS
<1>2. \A i \in 1 .. Len(l) : l[i].n \in Nat
  BY <1>1 DEF LogLine
<1> QED
  BY <1>2

(* What holds of the log is what holds of the trail. *)
LEMMA StepOnce ==
    ASSUME TypeOK, TypeOK', OnceOnly, Audit!Next \/ UNCHANGED Audit!auditVars
    PROVE  OnceOnly'
<1>1. /\ Len(Trail) = Len(log) /\ Len(log) \in Nat /\ Trail \in Seq(Nat)
      /\ \A i \in 1 .. Len(log) : Trail[i] = log[i].n
  BY TrailShape DEF Trail, TypeOK, DaemonTypeOK
<1>2. /\ Len(Trail') = Len(log') /\ \A i \in 1 .. Len(log') : Trail'[i] = log'[i].n
  BY TrailShape DEF Trail, TypeOK, DaemonTypeOK
<1>3. written \in Nat /\ \A w \in Watcher : Pending[w] = PendingOf(w)
  BY DEF TypeOK, KernelTypeOK, Pending
<1>4. \A w \in Watcher : Pending'[w] = PendingOf(w)'
  BY DEF Pending
<1>5. /\ \A i, j \in 1 .. Len(Trail) : Trail[i] = Trail[j] => i = j
      /\ \A w \in Watcher : \A n \in Pending[w] :
            /\ n \in 1 .. written
            /\ \A v \in Watcher \ {w} : n \notin Pending[v]
            /\ \A i \in 1 .. Len(Trail) : Trail[i] # n
      /\ \A i \in 1 .. Len(Trail) : Trail[i] \in 1 .. written
  <2>1. \A i, j \in 1 .. Len(Trail) : Trail[i] = Trail[j] => i = j
    BY <1>1 DEF OnceOnly, EnteredOnce
  <2>2. ASSUME NEW w \in Watcher, NEW n \in Pending[w]
        PROVE  /\ n \in 1 .. written
               /\ \A v \in Watcher \ {w} : n \notin Pending[v]
               /\ \A i \in 1 .. Len(Trail) : Trail[i] # n
    BY <1>1, <1>3, <2>2 DEF OnceOnly
  <2>3. \A i \in 1 .. Len(Trail) : Trail[i] \in 1 .. written
    BY <1>1 DEF OnceOnly
  <2> QED
    BY <2>1, <2>2, <2>3
<1>6. SUFFICES
      /\ \A i, j \in 1 .. Len(Trail') : Trail'[i] = Trail'[j] => i = j
      /\ \A w \in Watcher : \A n \in Pending'[w] :
            /\ n \in 1 .. written'
            /\ \A v \in Watcher \ {w} : n \notin Pending'[v]
            /\ \A i \in 1 .. Len(Trail') : Trail'[i] # n
      /\ \A i \in 1 .. Len(Trail') : Trail'[i] \in 1 .. written'
  <2>1. (\A i, j \in 1 .. Len(Trail') : Trail'[i] = Trail'[j] => i = j) => EnteredOnce'
    BY <1>2 DEF EnteredOnce
  <2>2. ASSUME NEW w \in Watcher, NEW n \in PendingOf(w)',
               \A i \in 1 .. Len(Trail') : Trail'[i] # n
        PROVE  \A i \in 1 .. Len(log') : log'[i].n # n
    BY <1>2, <2>2
  <2>3. (\A i \in 1 .. Len(Trail') : Trail'[i] \in 1 .. written')
            => \A i \in 1 .. Len(log') : log'[i].n \in 1 .. written'
    BY <1>2
  <2> QED
    BY <1>4, <2>1, <2>2, <2>3 DEF OnceOnly
<1>7. DOMAIN Pending = Watcher
  BY DEF Pending
<1>8. CASE UNCHANGED <<written, Pending, Trail>>
  BY <1>5, <1>8
<1>9. CASE Pending' = [w \in Watcher |-> {}] /\ UNCHANGED <<written, Trail>>
  BY <1>5, <1>9
<1>10. ASSUME NEW w \in Watcher, written' = written + 1, UNCHANGED Trail,
              Pending' = [Pending EXCEPT ![w] = @ \cup {written + 1}]
       PROVE  <1>6!1
  BY <1>3, <1>5, <1>7, <1>10
<1>11. ASSUME NEW w \in Watcher, NEW n \in Pending[w], UNCHANGED <<written, Trail>>,
              Pending' = [Pending EXCEPT ![w] = @ \ {n}]
       PROVE  <1>6!1
  BY <1>3, <1>5, <1>7, <1>11
<1>12. ASSUME NEW w \in Watcher, NEW n \in Pending[w], UNCHANGED written,
              Trail' = Append(Trail, n), Pending' = [Pending EXCEPT ![w] = @ \ {n}]
       PROVE  <1>6!1
  <2>1. /\ Len(Trail') = Len(Trail) + 1 /\ Trail'[Len(Trail) + 1] = n
        /\ \A i \in 1 .. Len(Trail) : Trail'[i] = Trail[i]
        /\ \A i \in 1 .. Len(Trail') : i = Len(Trail) + 1 \/ i \in 1 .. Len(Trail)
    BY <1>1, <1>3, <1>5, <1>12
  <2> QED
    BY <1>3, <1>5, <1>7, <1>12, <2>1
<1> QED
  BY <1>8, <1>9, <1>10, <1>11, <1>12
     DEF Audit!Next, Audit!Report, Audit!Enter, Audit!Refuse, Audit!Die, Audit!auditVars,
         Pending, Trail

(* No report is logged twice, not by two threads, not around a crash. *)
THEOREM LoggedOnce == Spec => []EnteredOnce
<1>1. Init => TakenInOrder /\ OnceOnly
  <2>1. SUFFICES ASSUME Init PROVE OnceOnly
    BY InitInOrder
  <2>2. log = <<>>
    BY <2>1 DEF Init
  <2>3. \A w \in Watcher : fanotify[w] = <<>> /\ cur[w] = NoEvent
    BY <2>1 DEF Init, KernelInit
  <2>4. Reports(<<>>) = {}
    BY DEF Reports
  <2>5. \A w \in Watcher : PendingOf(w) = {}
    BY <2>3, <2>4 DEF PendingOf
  <2> QED
    BY <2>2, <2>5 DEF OnceOnly, EnteredOnce
<1>2. TypeOK /\ TypeOK' /\ TakenInOrder /\ OnceOnly /\ [Next]_vars
         => TakenInOrder' /\ OnceOnly'
  BY NextInOrder, NextAudit, StepOnce
<1>3. OnceOnly => EnteredOnce
  BY DEF OnceOnly
<1> QED
  BY <1>1, <1>2, <1>3, TypeCorrect, PTL DEF Spec
=============================================================================
