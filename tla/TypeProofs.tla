------------------------------ MODULE TypeProofs ------------------------------
(***************************************************************************)
(* What the operators of ProcTree and Graph return and preserve, and type  *)
(* correctness of the daemon, for every value of the constants.            *)
(***************************************************************************)
EXTENDS Attribution, SequenceTheorems, WellFoundedInduction, TLAPS

-----------------------------------------------------------------------------
(* The operators of ProcTree and Graph, for every table, set of rows and   *)
(* argument.                                                               *)

(* A bounded non-empty set of naturals has a greatest element, and Max is  *)
(* it: what "ORDER BY start_ts DESC LIMIT 1" returns.                      *)
LEMMA MaxBounded ==
    ASSUME NEW S \in SUBSET Nat, S # {}, NEW b \in Nat, \A x \in S : x <= b
    PROVE  Max(S) \in S /\ \A x \in S : x <= Max(S)
<1> DEFINE U == {n \in Nat : \A x \in S : x <= n}
<1>1. b \in U
  OBVIOUS
<1>2. PICK m \in U : \A y \in U : ~(y < m)
  <2>1. U \subseteq Nat /\ U # {}
    BY <1>1
  <2>2. PICK m \in U : \A y \in U : <<y, m>> \notin OpToRel(<, Nat)
    BY <2>1, NatLessThanWellFounded, WFMin, Zenon
  <2> QED
    BY <2>1, <2>2 DEF OpToRel
<1>3. m \in S
  <2>1. SUFFICES ASSUME m \notin S PROVE FALSE
    OBVIOUS
  <2>2. m \in Nat /\ \A x \in S : x \in Nat /\ x < m
    BY <2>1
  <2>3. PICK z \in S : z \in Nat /\ z < m
    BY <2>2
  <2>4. m - 1 \in Nat /\ m - 1 < m /\ \A x \in S : x <= m - 1
    BY <2>2, <2>3
  <2> QED
    BY <1>2, <2>4
<1>4. \A x \in S : x <= m /\ x \in Nat
  OBVIOUS
<1>5. \E x \in S : \A y \in S : x >= y
  BY <1>3, <1>4
<1>6. Max(S) \in S /\ \A y \in S : Max(S) >= y
  BY <1>5 DEF Max
<1> QED
  BY <1>6

(* The newest of some rows of p started by ts is the start of a row of p.  *)
LEMMA NewestIsARow ==
    ASSUME NEW R \in SUBSET ProcRow, NEW p, NEW ts \in Nat,
           NEW T \in SUBSET Started(R, p, ts), T # {}
    PROVE  /\ Newest(T) \in Nat /\ Newest(T) <= ts
           /\ Keyed(R, p, Newest(T)) # {}
<1> DEFINE S == {r.start : r \in T}
<1>1. \A r \in T : r \in R /\ r.pid = p /\ r.start \in Nat /\ r.start <= ts
  BY DEF Started, ProcRow
<1>2. S \in SUBSET Nat /\ S # {} /\ \A x \in S : x <= ts
  BY <1>1
<1>3. Max(S) \in S
  BY <1>2, MaxBounded
<1>4. PICK r \in T : r.start = Max(S)
  BY <1>3
<1> QED
  BY <1>1, <1>4 DEF Newest, Keyed

LEMMA LastStartedIsARow ==
    ASSUME NEW R \in SUBSET ProcRow, NEW p, NEW ts \in Nat
    PROVE  \/ LastStarted(R, p, ts) = None
           \/ /\ LastStarted(R, p, ts) \in Nat
              /\ LastStarted(R, p, ts) <= ts
              /\ Keyed(R, p, LastStarted(R, p, ts)) # {}
<1>1. PICK T : T = Started(R, p, ts)
  OBVIOUS
<1>2. CASE T = {}
  BY <1>1, <1>2 DEF LastStarted
<1>3. CASE T # {}
  BY <1>1, <1>3, NewestIsARow DEF LastStarted
<1> QED
  BY <1>2, <1>3

(* The writer record_event_full resolves to is None or the start of a row  *)
(* of that pid, no later than the event.                                   *)
LEMMA ResolveWriterIsARow ==
    ASSUME NEW R \in SUBSET ProcRow, NEW p, NEW ts \in Nat
    PROVE  \/ ResolveWriter(R, p, ts) = None
           \/ /\ ResolveWriter(R, p, ts) \in Nat
              /\ ResolveWriter(R, p, ts) <= ts
              /\ Keyed(R, p, ResolveWriter(R, p, ts)) # {}
<1>1. PICK T \in SUBSET Started(R, p, ts) :
         T = {r \in Started(R, p, ts) : OpenAt(r, ts)}
  OBVIOUS
<1>2. CASE T # {}
  BY <1>1, <1>2, NewestIsARow DEF ResolveWriter
<1>3. CASE T = {}
  BY <1>1, <1>3, LastStartedIsARow DEF ResolveWriter
<1> QED
  BY <1>2, <1>3

LEMMA NewestOfAll ==
    ASSUME NEW R \in SUBSET ProcRow, NEW p, NEW ts \in Nat,
           NEW T \in SUBSET Started(R, p, ts), T # {}
    PROVE  \E r \in T : r.start = Newest(T) /\ \A q \in T : q.start <= r.start
<1> DEFINE S == {r.start : r \in T}
<1>1. \A r \in T : r.start \in Nat /\ r.start <= ts
  BY DEF Started, ProcRow
<1>2. S \in SUBSET Nat /\ S # {} /\ \A x \in S : x <= ts
  BY <1>1
<1>3. Max(S) \in S /\ \A x \in S : x <= Max(S)
  BY <1>2, MaxBounded
<1> QED
  BY <1>3 DEF Newest

(* If i is the latest life of p, has a row from before ts and left no      *)
(* earlier life's row open, the writer found is i: a row of i whose window *)
(* holds ts starts last, and if there is none, no window of another life   *)
(* holds ts and the last that started is i's.                              *)
LEMMA ResolvesToLatest ==
    ASSUME NEW R \in SUBSET ProcRow, NEW p, NEW i, NEW ts \in Nat,
           NEW own \in R, own.pid = p, own.inc = i, own.start <= ts,
           own.exit # None => own.start <= own.exit,
           \A r \in R : r.pid = p /\ r.inc # i =>
               r.start < own.start /\ r.exit # None /\ r.exit <= own.start
    PROVE  \E r \in R : r.pid = p /\ r.inc = i /\ r.start = ResolveWriter(R, p, ts)
<1>1. \A r \in R : r.start \in Nat /\ (r.exit # None => r.exit \in Nat)
  BY DEF ProcRow, Option
<1>2. PICK T \in SUBSET Started(R, p, ts) : T = {r \in Started(R, p, ts) : OpenAt(r, ts)}
  OBVIOUS
<1>3. CASE T # {}
  <2>1. PICK r \in T : r.start = Newest(T) /\ \A q \in T : q.start <= r.start
    BY <1>3, NewestOfAll
  <2>2. r \in R /\ r.pid = p /\ r.start <= ts /\ (r.exit = None \/ r.exit >= ts)
    BY <1>2 DEF Started, OpenAt
  <2>3. r.inc = i
    <3>1. SUFFICES ASSUME r.inc # i PROVE FALSE
      OBVIOUS
    <3>2. r.start < own.start /\ r.exit # None /\ r.exit <= own.start
      BY <2>2, <3>1
    <3>3. ts = own.start
      BY <1>1, <2>2, <3>2
    <3>4. own \in T
      BY <1>1, <1>2, <3>3 DEF Started, OpenAt
    <3> QED
      BY <1>1, <2>1, <2>2, <3>2, <3>4
  <2> QED
    BY <1>2, <1>3, <2>1, <2>2, <2>3 DEF ResolveWriter
<1>4. CASE T = {}
  <2>1. own \in Started(R, p, ts)
    BY DEF Started
  <2>2. PICK r \in Started(R, p, ts) :
           r.start = Newest(Started(R, p, ts)) /\ \A q \in Started(R, p, ts) : q.start <= r.start
    BY <2>1, NewestOfAll
  <2>3. r \in R /\ r.pid = p /\ r.inc = i
    BY <1>1, <2>1, <2>2 DEF Started
  <2> QED
    BY <1>2, <1>4, <2>1, <2>2, <2>3 DEF ResolveWriter, LastStarted
<1> QED
  BY <1>3, <1>4

-----------------------------------------------------------------------------
(* INSERT OR IGNORE keeps every row, and the key is stored afterwards. *)
LEMMA RecordExistingStores ==
    ASSUME NEW R \in SUBSET ProcRow, NEW p \in Pid, NEW node \in ProcNode
    PROVE  /\ RecordExisting(R, p, node) \in SUBSET ProcRow
           /\ R \subseteq RecordExisting(R, p, node)
           /\ Keyed(RecordExisting(R, p, node), p, node.start) # {}
           /\ \A r \in RecordExisting(R, p, node) :
                 \/ r \in R
                 \/ /\ r.pid = p /\ r.start = node.start /\ r.inc = node.inc
                    /\ r.exit = None /\ r.ppid = node.ppid
<1> DEFINE new == [pid |-> p, start |-> node.start, ppid |-> node.ppid,
                   info |-> node.info, exit |-> None, inc |-> node.inc]
<1>1. new \in ProcRow
  BY DEF ProcRow, ProcNode, Option
<1>2. CASE Keyed(R, p, node.start) # {}
  BY <1>2 DEF RecordExisting
<1>3. CASE Keyed(R, p, node.start) = {}
  <2>1. RecordExisting(R, p, node) = R \cup {new}
    BY <1>3 DEF RecordExisting
  <2>2. new \in Keyed(R \cup {new}, p, node.start)
    BY DEF Keyed
  <2> QED
    BY <1>1, <2>1, <2>2
<1> QED
  BY <1>2, <1>3

(* Closing rows neither adds, removes nor renames one. *)
LEMMA RecordExitAtKeeps ==
    ASSUME NEW R \in SUBSET ProcRow, NEW p, NEW s, NEW x \in Option(Nat)
    PROVE  /\ RecordExitAt(R, p, s, x) \in SUBSET ProcRow
           /\ \A r \in R : \E q \in RecordExitAt(R, p, s, x) :
                 q.pid = r.pid /\ q.start = r.start /\ q.inc = r.inc
           /\ \A q \in RecordExitAt(R, p, s, x) : \E r \in R :
                 q.pid = r.pid /\ q.start = r.start /\ q.inc = r.inc
<1> DEFINE Closed(r) == IF r.pid = p /\ r.start = s THEN [r EXCEPT !.exit = x] ELSE r
<1>1. \A r \in R : /\ Closed(r) \in ProcRow
                   /\ Closed(r).pid = r.pid
                   /\ Closed(r).start = r.start
                   /\ Closed(r).inc = r.inc
  BY DEF ProcRow
<1>2. RecordExitAt(R, p, s, x) = {Closed(r) : r \in R}
  BY DEF RecordExitAt
<1> QED
  BY <1>1, <1>2

(* A row is closed by its key, or was closed before. *)
LEMMA RecordExitAtCloses ==
    ASSUME NEW R \in SUBSET ProcRow, NEW p, NEW s, NEW x,
           NEW q \in RecordExitAt(R, p, s, x)
    PROVE  \E r \in R : /\ q.inc = r.inc
                        /\ q.exit = r.exit \/ (r.pid = p /\ r.start = s)
<1>1. PICK r \in R : q = IF r.pid = p /\ r.start = s THEN [r EXCEPT !.exit = x] ELSE r
  BY DEF RecordExitAt
<1>2. [r EXCEPT !.exit = x].inc = r.inc
  BY DEF ProcRow
<1> QED
  BY <1>1, <1>2

-----------------------------------------------------------------------------
(* A climb is a sequence of tracked pids, the climbed one first, and the   *)
(* chain copied along it is the reverse, each link with its node.          *)
LEMMA ChainOfClimb ==
    ASSUME NEW t \in Tables, NEW p \in Pid, NEW c \in Climbs(t, p)
    PROVE  /\ ChainOf(t, c) \in Seq(ChainItem)
           /\ ChainOf(t, c) = <<>> <=> c = <<>>
           /\ \A i \in 1 .. Len(ChainOf(t, c)) :
                 LET item == ChainOf(t, c)[i]
                 IN  /\ item.pid \in Pid /\ t[item.pid] # None
                     /\ item.node = t[item.pid]
<1>1. c \in Seq(Pid) /\ IsClimb(t, p, c)
  <2>1. PICK m \in 0 .. MaxChain : c \in [1 .. m -> Pid]
    BY MaxChainAssumption DEF Climbs, BoundedSeq, SeqOf
  <2>2. m \in Nat
    BY MaxChainAssumption
  <2> QED
    BY <2>1, <2>2 DEF Climbs
<1> DEFINE n == Len(c)
           Link(i) == [pid |-> c[n + 1 - i], node |-> t[c[n + 1 - i]]]
<1>2. n \in Nat
  BY <1>1
<1>3. \A i \in 1 .. n : c[i] \in Pid /\ t[c[i]] # None /\ t[c[i]] \in ProcNode
  <2>1. \A i \in 1 .. n : c[i] \in Pid
    BY <1>1
  <2>2. \A i \in 1 .. n : t[c[i]] # None
    BY <1>1 DEF IsClimb, Unpersisted
  <2> QED
    BY <2>1, <2>2 DEF Tables, Option
<1>4. \A i \in 1 .. n : n + 1 - i \in 1 .. n
  BY <1>2
<1>5. \A i \in 1 .. n : Link(i) \in ChainItem
  BY <1>3, <1>4 DEF ChainItem
<1>6. ChainOf(t, c) = [i \in 1 .. n |-> Link(i)]
  BY DEF ChainOf
<1>7. ChainOf(t, c) \in Seq(ChainItem) /\ Len(ChainOf(t, c)) = n
  BY <1>2, <1>5, <1>6
<1>8. ChainOf(t, c) = <<>> <=> c = <<>>
  BY <1>1, <1>2, <1>7
<1> QED
  BY <1>3, <1>4, <1>6, <1>7, <1>8

(* The climbed process is the last link; there is none if it is stored or  *)
(* not tracked.                                                            *)
LEMMA ChainEndsAtClimbed ==
    ASSUME NEW t \in Tables, NEW p \in Pid, NEW c \in Climbs(t, p)
    PROVE  LET copy == ChainOf(t, c)
           IN  /\ copy = <<>> => ~Unpersisted(t, p)
               /\ copy # <<>> => copy[Len(copy)].pid = p /\ copy[Len(copy)].node = t[p]
<1>1. c \in Seq(Pid) /\ IsClimb(t, p, c)
  <2>1. PICK m \in 0 .. MaxChain : c \in [1 .. m -> Pid]
    BY MaxChainAssumption DEF Climbs, BoundedSeq, SeqOf
  <2>2. m \in Nat
    BY MaxChainAssumption
  <2> QED
    BY <2>1, <2>2 DEF Climbs
<1>2. PICK n \in Nat : n = Len(c)
  BY <1>1
<1>3. ChainOf(t, c) = [i \in 1 .. n |-> [pid |-> c[n + 1 - i], node |-> t[c[n + 1 - i]]]]
  BY <1>2 DEF ChainOf
<1>4. Len(ChainOf(t, c)) = n
  BY <1>2, <1>3
<1>5. CASE n = 0
  BY <1>1, <1>2, <1>4, <1>5, ChainOfClimb DEF IsClimb
<1>6. CASE n # 0
  <2>1. c # <<>> /\ c[1] = p /\ n \in 1 .. n /\ n + 1 - n = 1
    BY <1>1, <1>2, <1>6 DEF IsClimb
  <2>2. ChainOf(t, c)[n] = [pid |-> p, node |-> t[p]]
    BY <1>3, <2>1
  <2> QED
    BY <1>4, <2>1, <2>2, ChainOfClimb
<1> QED
  BY <1>5, <1>6

-----------------------------------------------------------------------------
(* Each method of the table changes the entry of its pid alone, and in     *)
(* place it keeps the identity (start, inc) and the parent of the node.    *)
LEMMA OnForkTable ==
    ASSUME NEW t \in Tables, NEW p \in Pid, NEW parent \in Option(Pid),
           NEW ts \in Nat, NEW inc \in Nat
    PROVE  /\ OnFork(t, parent, p, ts, inc) \in Tables
           /\ OnFork(t, parent, p, ts, inc)[p] = NewNode(parent, None, ts, inc)
           /\ \A q \in Pid \ {p} : OnFork(t, parent, p, ts, inc)[q] = t[q]
<1>1. NewNode(parent, None, ts, inc) \in ProcNode
  BY DEF NewNode, ProcNode, Option
<1> QED
  BY <1>1 DEF OnFork, Tables, Option

LEMMA OnExecTable ==
    ASSUME NEW t \in Tables, NEW p \in Pid, NEW info \in Option(Image),
           NEW ppid \in Option(Pid), NEW ts \in Nat, NEW inc \in Nat
    PROVE  LET u == OnExec(t, p, info, ppid, ts, inc)
           IN  /\ u \in Tables
               /\ \A q \in Pid \ {p} : u[q] = t[q]
               /\ t[p] = None => u[p] = NewNode(ppid, info, ts, inc)
               /\ t[p] # None => /\ u[p] # None
                                 /\ u[p].start = t[p].start
                                 /\ u[p].inc = t[p].inc /\ u[p].ppid = t[p].ppid
                                 /\ u[p].exited = t[p].exited
                                 /\ u[p].persisted = t[p].persisted
<1>1. CASE t[p] = None
  <2>1. NewNode(ppid, info, ts, inc) \in ProcNode
    BY DEF NewNode, ProcNode, Option
  <2> QED
    BY <1>1, <2>1 DEF OnExec, Tables, Option
<1>2. CASE t[p] # None
  <2> DEFINE n == [t[p] EXCEPT !.info = info]
  <2>1. t[p] \in ProcNode
    BY <1>2 DEF Tables, Option
  <2>2. /\ n \in ProcNode /\ n.start = t[p].start /\ n.inc = t[p].inc
        /\ n.ppid = t[p].ppid
        /\ n.exited = t[p].exited /\ n.persisted = t[p].persisted
    BY <2>1 DEF ProcNode
  <2>3. OnExec(t, p, info, ppid, ts, inc) = [t EXCEPT ![p] = n]
    BY <1>2 DEF OnExec
  <2> QED
    BY <1>2, <2>2, <2>3, NodeAssumption DEF Tables, Option
<1> QED
  BY <1>1, <1>2

LEMMA OnExitTable ==
    ASSUME NEW t \in Tables, NEW p \in Pid, NEW ts \in Nat
    PROVE  LET u == OnExit(t, p, ts)
           IN  /\ u \in Tables
               /\ \A q \in Pid \ {p} : u[q] = t[q]
               /\ t[p] = None => u[p] = None
               /\ t[p] # None => /\ u[p] # None
                                 /\ u[p].start = t[p].start
                                 /\ u[p].inc = t[p].inc /\ u[p].ppid = t[p].ppid
                                 /\ u[p].persisted = t[p].persisted
                                 /\ u[p].exited = ts
<1>1. CASE t[p] = None
  BY <1>1 DEF OnExit
<1>2. CASE t[p] # None
  <2> DEFINE n == [t[p] EXCEPT !.exited = ts]
  <2>1. t[p] \in ProcNode
    BY <1>2 DEF Tables, Option
  <2>2. /\ n \in ProcNode /\ n.start = t[p].start /\ n.inc = t[p].inc
        /\ n.persisted = t[p].persisted /\ n.exited = ts /\ n.ppid = t[p].ppid
    BY <2>1 DEF ProcNode, Option
  <2>3. OnExit(t, p, ts) = [t EXCEPT ![p] = n]
    BY <1>2 DEF OnExit
  <2> QED
    BY <1>2, <2>2, <2>3, NodeAssumption DEF Tables, Option
<1> QED
  BY <1>1, <1>2

LEMMA MarkPersistedTable ==
    ASSUME NEW t \in Tables, NEW p \in Pid
    PROVE  LET u == MarkPersisted(t, p)
           IN  /\ u \in Tables
               /\ \A q \in Pid \ {p} : u[q] = t[q]
               /\ t[p] = None => u[p] = None
               /\ t[p] # None => /\ u[p] # None
                                 /\ u[p].start = t[p].start
                                 /\ u[p].inc = t[p].inc /\ u[p].ppid = t[p].ppid
                                 /\ u[p].exited = t[p].exited
<1>1. CASE t[p] = None
  BY <1>1 DEF MarkPersisted
<1>2. CASE t[p] # None
  <2> DEFINE n == [t[p] EXCEPT !.persisted = TRUE]
  <2>1. t[p] \in ProcNode
    BY <1>2 DEF Tables, Option
  <2>2. /\ n \in ProcNode /\ n.start = t[p].start /\ n.inc = t[p].inc
        /\ n.ppid = t[p].ppid
        /\ n.exited = t[p].exited
    BY <2>1 DEF ProcNode
  <2>3. MarkPersisted(t, p) = [t EXCEPT ![p] = n]
    BY <1>2 DEF MarkPersisted
  <2> QED
    BY <1>2, <2>2, <2>3, NodeAssumption DEF Tables, Option
<1> QED
  BY <1>1, <1>2

(* Eviction only forgets, and only what was marked exited. *)
LEMMA EvictStaleTable ==
    ASSUME NEW t \in Tables, NEW cutoff \in Int
    PROVE  /\ EvictStale(t, cutoff) \in Tables
           /\ \A q \in Pid :
                 \/ EvictStale(t, cutoff)[q] = t[q]
                 \/ /\ EvictStale(t, cutoff)[q] = None
                    /\ t[q] # None /\ t[q].exited # None
  BY DEF EvictStale, Tables, Option

-----------------------------------------------------------------------------
(* Counting up from a true start by true steps: what NatInduction says,    *)
(* for a set instead of a predicate.                                       *)
LEMMA AllNaturals ==
    ASSUME NEW S, 0 \in S, \A n \in Nat : n \in S => n + 1 \in S
    PROVE  Nat \subseteq S
<1> DEFINE T == Nat \ S
<1> SUFFICES ASSUME T # {} PROVE FALSE
  OBVIOUS
<1>1. PICK m \in T : \A y \in T : <<y, m>> \notin OpToRel(<, Nat)
  <2> HIDE DEF T
  <2>1. T \subseteq Nat
    BY DEF T
  <2> QED
    BY <2>1, NatLessThanWellFounded, WFMin, Zenon
<1>2. m \in Nat /\ m # 0 /\ \A y \in T : ~(y < m)
  BY <1>1 DEF OpToRel
<1>3. m - 1 \in Nat /\ m - 1 < m /\ m - 1 \in S /\ (m - 1) + 1 = m
  BY <1>2
<1> QED
  BY <1>1, <1>3

(* f is the search that starts at X and goes on by G: its first N levels. *)
Searches(f, X, G, N) == f = [d \in 0 .. N |-> IF d = 0 THEN X ELSE G[f[d - 1]]]

(* The levels of a search exist: N steps of G from X. *)
LEMMA LevelsExist ==
    ASSUME NEW U, NEW X \in SUBSET U, NEW G \in [SUBSET U -> SUBSET U], NEW N \in Nat
    PROVE  \E f \in [0 .. N -> SUBSET U] : Searches(f, X, G, N)
<1> DEFINE Is(f, n) == /\ f \in [0 .. n -> SUBSET U]
                       /\ f = [d \in 0 .. n |-> IF d = 0 THEN X ELSE G[f[d - 1]]]
           S == {n \in Nat : \E f : Is(f, n)}
<1>1. 0 \in S
  <2>1. PICK f : f = [d \in 0 .. 0 |-> X]
    OBVIOUS
  <2>2. Is(f, 0)
    BY <2>1
  <2> QED
    BY <2>2
<1>2. ASSUME NEW n \in Nat, n \in S PROVE n + 1 \in S
  <2>1. PICK f : Is(f, n)
    BY <1>2
  <2>2. PICK g : g = [d \in 0 .. n + 1 |-> IF d = n + 1 THEN G[f[n]] ELSE f[d]]
    OBVIOUS
  <2>3. \A d \in 0 .. n : d \in 0 .. n + 1 /\ d # n + 1 /\ f[d] \in SUBSET U
    BY <2>1
  <2>4. g \in [0 .. n + 1 -> SUBSET U]
    BY <2>2, <2>3
  <2>5. \A d \in 0 .. n + 1 : g[d] = IF d = 0 THEN X ELSE G[g[d - 1]]
    <3>1. g[n + 1] = G[g[n]]
      BY <2>2
    <3>2. \A d \in 0 .. n : g[d] = f[d] /\ (d # 0 => d - 1 \in 0 .. n /\ g[d - 1] = f[d - 1])
      BY <2>2, <2>3
    <3>3. \A d \in 0 .. n : f[d] = IF d = 0 THEN X ELSE G[f[d - 1]]
      BY <2>1
    <3>4. ASSUME NEW d \in 0 .. n + 1 PROVE g[d] = IF d = 0 THEN X ELSE G[g[d - 1]]
      <4>1. CASE d = n + 1
        BY <3>1, <4>1
      <4>2. CASE d \in 0 .. n
        BY <3>2, <3>3, <4>2
      <4> QED
        BY <4>1, <4>2
    <3> QED
      BY <3>4
  <2>6. Is(g, n + 1)
    BY <2>2, <2>4, <2>5
  <2> QED
    BY <2>6
<1>3. N \in S
  <2> HIDE DEF S
  <2> QED
    BY <1>1, <1>2, AllNaturals
<1> QED
  BY <1>3 DEF Searches

(* The tree below a process is within any set of rows that holds the       *)
(* process and, with a row, the rows joined to it as children.             *)
LEMMA DescendantsWithin ==
    ASSUME NEW R, NEW p, NEW s, NEW C \in SUBSET R,
           Keyed(R, p, s) \subseteq C, \A r \in C : ChildRows(R, r) \subseteq C
    PROVE  Descendants(R, p, s) \subseteq C
<1> DEFINE level == CHOOSE level : level =
              [d \in 0 .. TreeDepth |->
                  IF d = 0 THEN Keyed(R, p, s)
                  ELSE UNION {ChildRows(R, r) : r \in level[d - 1]}]
<1>1. PICK X \in SUBSET R : X = Keyed(R, p, s)
  BY DEF Keyed
<1>2. PICK G \in [SUBSET R -> SUBSET R] :
         \A Y \in SUBSET R : G[Y] = UNION {ChildRows(R, r) : r \in Y}
  <2>1. PICK G : G = [Y \in SUBSET R |-> UNION {ChildRows(R, r) : r \in Y}]
    OBVIOUS
  <2>2. \A Y \in SUBSET R : UNION {ChildRows(R, r) : r \in Y} \in SUBSET R
    BY DEF ChildRows
  <2> QED
    BY <2>1, <2>2
<1>3. PICK N \in Nat : N = TreeDepth
  BY DepthAssumption
<1>4. PICK f \in [0 .. N -> SUBSET R] : Searches(f, X, G, N)
  BY <1>1, <1>2, <1>3, LevelsExist
<1>5. f = [d \in 0 .. TreeDepth |->
              IF d = 0 THEN Keyed(R, p, s) ELSE UNION {ChildRows(R, r) : r \in f[d - 1]}]
  <2>1. \A d \in 0 .. N : d # 0 => d - 1 \in 0 .. N
    OBVIOUS
  <2>2. \A d \in 0 .. N : d # 0 => G[f[d - 1]] = UNION {ChildRows(R, r) : r \in f[d - 1]}
    BY <1>2, <2>1
  <2> QED
    BY <1>1, <1>3, <1>4, <2>2 DEF Searches
<1>6. level = [d \in 0 .. TreeDepth |->
              IF d = 0 THEN Keyed(R, p, s) ELSE UNION {ChildRows(R, r) : r \in level[d - 1]}]
  BY <1>5
<1>7. Descendants(R, p, s) = UNION {level[d] : d \in 0 .. TreeDepth}
  BY DEF Descendants
<1> HIDE DEF level
<1>8. ASSUME NEW d \in 0 .. TreeDepth PROVE level[d] \subseteq C
  <2> DEFINE S == {n \in Nat : n \in 0 .. N => level[n] \in SUBSET C}
  <2>1. 0 \in S
    BY <1>3, <1>6
  <2>2. ASSUME NEW n \in Nat, n \in S PROVE n + 1 \in S
    <3>1. ASSUME n + 1 \in 0 .. N PROVE level[n + 1] \in SUBSET C
      <4>1. n \in 0 .. N /\ n + 1 # 0 /\ (n + 1) - 1 = n
        BY <3>1
      <4>2. level[n + 1] = UNION {ChildRows(R, r) : r \in level[n]}
        BY <1>3, <1>6, <3>1, <4>1
      <4>3. level[n] \in SUBSET C
        BY <2>2, <4>1
      <4> QED
        BY <4>2, <4>3
    <3> QED
      BY <3>1
  <2>3. Nat \subseteq S
    <3> HIDE DEF S
    <3> QED
      BY <2>1, <2>2, AllNaturals
  <2> QED
    BY <1>3, <2>3
<1> QED
  BY <1>7, <1>8

-----------------------------------------------------------------------------
(* The daemon. *)

LEMMA NoEventIsEvent == NoEvent \in Event
  BY DEF NoEvent, OwnEvent, Event

LEMMA EchoedType ==
    ASSUME NEW Q \in [Watcher -> Seq(Event)]
    PROVE  Echoed(Q) \in [Watcher -> Seq(Event)]
  BY NoEventIsEvent DEF Echoed, NoEvent

(* What Emit leaves in the socket's buffer is messages. *)
LEMMA EmitType ==
    ASSUME TypeOK, NEW m \in Message, Emit(m)
    PROVE  netlink' \in Seq(Message) /\ missed' \in BOOLEAN
<1>1. Overrun \in Message
  BY DEF Message
<1>2. <<Overrun>> \in Seq(Message)
  BY <1>1
<1> QED
  BY <1>2 DEF Emit, Overflows, TypeOK, KernelTypeOK

(* A process was created after its parent, under a pid. *)
LEMMA ProcsType ==
    ASSUME TypeOK, NEW i \in 1 .. Len(procs)
    PROVE  /\ procs[i] \in Process
           /\ procs[i].pid \in Pid /\ procs[i].image \in Image
           /\ procs[i].parent \in Nat /\ procs[i].parent < i
<1>1. procs \in Seq(Process) /\ procs[i].parent < i
  BY DEF TypeOK, KernelTypeOK
<1>2. procs[i] \in Process
  BY <1>1, ElementOfSeq
<1> QED
  BY <1>1, <1>2 DEF Process

LEMMA HolderType ==
    ASSUME TypeOK, NEW p \in Pid
    PROVE  /\ Len(procs) \in Nat /\ holder[p] \in 0 .. Len(procs)
           /\ holder[p] # 0 => holder[p] \in 1 .. Len(procs)
  BY DEF TypeOK, KernelTypeOK

(* What the daemon reads of a process in /proc. *)
LEMMA ProcReads ==
    ASSUME TypeOK, NEW p \in Pid
    PROVE  ProcParent(p) \in Option(Pid) /\ ProcImage(p) \in Option(Image)
<1>1. CASE holder[p] = 0
  BY <1>1 DEF ProcParent, ProcImage, Option
<1>2. CASE holder[p] # 0
  <2>1. holder[p] \in 1 .. Len(procs) /\ Len(procs) \in Nat
    BY <1>2, HolderType
  <2>2. PICK q : q = procs[holder[p]].parent
    OBVIOUS
  <2>3. q \in Nat /\ q < holder[p] /\ procs[holder[p]].image \in Image
    BY <2>1, <2>2, ProcsType
  <2>4. q # 0 => procs[q].pid \in Pid
    <3>1. q # 0 => q \in 1 .. Len(procs)
      BY <2>1, <2>3
    <3> QED
      BY <3>1, ProcsType
  <2>5. ProcParent(p) \in Option(Pid)
    BY <1>2, <2>2, <2>4, InitPidAssumption DEF ProcParent, Alive, Option
  <2> QED
    BY <1>2, <2>3, <2>5 DEF ProcImage, Option
<1> QED
  BY <1>1, <1>2

-----------------------------------------------------------------------------
LEMMA InitType == Init => TypeOK
<1> SUFFICES ASSUME Init PROVE TypeOK
  OBVIOUS
<1>1. KernelTypeOK
  <2>1. PICK im \in Image : procs = <<[pid |-> InitPid, parent |-> 0, image |-> im]>>
    BY DEF Init, KernelInit
  <2>2. [pid |-> InitPid, parent |-> 0, image |-> im] \in Process
    BY InitPidAssumption DEF Process
  <2>3. procs \in Seq(Process) /\ Len(procs) = 1 /\ procs[1].parent = 0
    BY <2>1, <2>2
  <2>4. \A i \in 1 .. Len(procs) : procs[i].parent < i
    BY <2>3
  <2>5. holder \in [Pid -> 0 .. Len(procs)]
    BY <2>3 DEF Init, KernelInit
  <2>6. fanotify \in [Watcher -> Seq(Event)] /\ netlink \in Seq(Message)
    BY DEF Init, KernelInit
  <2>7. freed \in [Pid -> Option(Nat)]
    BY DEF Init, KernelInit, Option
  <2> QED
    BY <2>3, <2>4, <2>5, <2>6, <2>7 DEF Init, KernelInit, KernelTypeOK
<1>2. DaemonTypeOK
  <2>1. tree \in Tables /\ log \in Seq(LogLine)
    BY DEF Init, EmptyTable, Tables, Option
  <2>2. cur \in [Watcher -> Event] /\ chain \in [Watcher -> Seq(ChainItem)]
    BY NoEventIsEvent DEF Init
  <2>3. closing \in [pid: Option(Pid), start: Nat, exit: Nat]
    BY DEF Init, NoClosing, Option
  <2> QED
    BY <2>1, <2>2, <2>3 DEF Init, DaemonTypeOK, Place
<1> QED
  BY <1>1, <1>2 DEF TypeOK

LEMMA ForkType ==
    ASSUME TypeOK, NEW q \in Pid, NEW p \in Pid, Fork(q, p)
    PROVE  /\ KernelTypeOK'
           /\ Len(procs') = Len(procs) + 1
           /\ \A i \in 1 .. Len(procs) : procs'[i] = procs[i]
           /\ procs'[Len(procs) + 1].pid = p
<1>1. PICK h, n : h = holder[q] /\ n = Len(procs) + 1
  OBVIOUS
<1>2. h \in 1 .. Len(procs) /\ Len(procs) \in Nat /\ h < n /\ n \in Nat
  BY <1>1, HolderType DEF Fork
<1>3. PICK new : new = [pid |-> p, parent |-> h, image |-> procs[h].image]
  OBVIOUS
<1>4. new \in Process /\ new.parent = h /\ new.pid = p
  BY <1>2, <1>3, ProcsType DEF Process
<1>5. procs \in Seq(Process) /\ procs' = Append(procs, new)
  BY <1>1, <1>3 DEF Fork, TypeOK, KernelTypeOK
<1>6. /\ procs' \in Seq(Process) /\ Len(procs') = n
      /\ \A i \in 1 .. Len(procs) : procs'[i] = procs[i]
      /\ procs'[n] = new
  BY <1>1, <1>2, <1>4, <1>5
<1>7. \A i \in 1 .. Len(procs') : procs'[i].parent < i
  <2>1. TAKE i \in 1 .. Len(procs')
  <2>2. i = n \/ i \in 1 .. Len(procs)
    BY <1>1, <1>2, <1>6
  <2> QED
    BY <2>2, <1>2, <1>4, <1>6, ProcsType
<1>8. holder' \in [Pid -> 0 .. Len(procs')]
  <2>1. n \in 0 .. Len(procs') /\ \A x \in Pid : holder[x] \in 0 .. Len(procs')
    BY <1>1, <1>2, <1>6, HolderType
  <2>2. holder' = [holder EXCEPT ![p] = n] /\ holder \in [Pid -> 0 .. Len(procs)]
    BY <1>1 DEF Fork, TypeOK, KernelTypeOK
  <2> QED
    BY <2>1, <2>2
<1>9. Msg("fork", p, q, n) \in Message
  BY <1>2 DEF Msg, Message, Option
<1>10. netlink' \in Seq(Message) /\ missed' \in BOOLEAN
  BY <1>1, <1>9, EmitType DEF Fork
<1> QED
  BY <1>1, <1>4, <1>6, <1>7, <1>8, <1>10 DEF Fork, TypeOK, KernelTypeOK

LEMMA ExecType ==
    ASSUME TypeOK, NEW p \in Pid, NEW im \in Image, Exec(p, im)
    PROVE  /\ KernelTypeOK'
           /\ Len(procs') = Len(procs) /\ Len(procs) \in Nat
           /\ \A i \in 1 .. Len(procs) :
                 procs'[i].pid = procs[i].pid /\ procs'[i].parent = procs[i].parent
<1>1. PICK h : h = holder[p]
  OBVIOUS
<1>2. h \in 1 .. Len(procs) /\ Len(procs) \in Nat
  BY <1>1, HolderType DEF Exec
<1>3. PICK new : new = [procs[h] EXCEPT !.image = im]
  OBVIOUS
<1>4. new \in Process /\ new.parent = procs[h].parent /\ new.pid = procs[h].pid
  BY <1>2, <1>3, ProcsType DEF Process
<1>5. procs \in Seq(Process) /\ procs' = [procs EXCEPT ![h] = new]
  BY <1>1, <1>3 DEF Exec, TypeOK, KernelTypeOK
<1>6. /\ procs' \in Seq(Process) /\ Len(procs') = Len(procs)
      /\ \A i \in 1 .. Len(procs) : procs'[i] = IF i = h THEN new ELSE procs[i]
  BY <1>2, <1>4, <1>5, ExceptSeq
<1>7. \A i \in 1 .. Len(procs') : procs'[i].parent < i
  BY <1>4, <1>6, ProcsType
<1>8. Msg("exec", p, None, h) \in Message
  BY <1>2 DEF Msg, Message, Option
<1>9. netlink' \in Seq(Message) /\ missed' \in BOOLEAN
  BY <1>1, <1>8, EmitType DEF Exec
<1>10. \A i \in 1 .. Len(procs) :
           procs'[i].pid = procs[i].pid /\ procs'[i].parent = procs[i].parent
  BY <1>4, <1>6
<1> QED
  BY <1>2, <1>6, <1>7, <1>9, <1>10 DEF Exec, TypeOK, KernelTypeOK

LEMMA ExitType ==
    ASSUME TypeOK, NEW p \in Pid, Exit(p)
    PROVE  KernelTypeOK'
<1>1. Msg("exit", p, None, holder[p]) \in Message
  BY HolderType DEF Msg, Message, Option
<1>2. netlink' \in Seq(Message) /\ missed' \in BOOLEAN
  BY <1>1, EmitType DEF Exit
<1>3. holder' \in [Pid -> 0 .. Len(procs')]
  BY HolderType DEF Exit, TypeOK, KernelTypeOK
<1>4. freed' \in [Pid -> Option(Nat)]
  BY DEF Exit, TypeOK, KernelTypeOK, Option
<1> QED
  BY <1>2, <1>3, <1>4 DEF Exit, TypeOK, KernelTypeOK

LEMMA WriteType ==
    ASSUME TypeOK, NEW w \in Watcher, NEW p \in Pid, Write(w, p)
    PROVE  KernelTypeOK'
<1>1. [pid |-> p, n |-> written + 1, inc |-> holder[p]] \in Event
  BY DEF Event, TypeOK, KernelTypeOK
<1>2. fanotify' \in [Watcher -> Seq(Event)]
  BY <1>1 DEF Write, TypeOK, KernelTypeOK
<1> QED
  BY <1>2 DEF Write, TypeOK, KernelTypeOK

LEMMA MachineType ==
    ASSUME TypeOK, Machine
    PROVE  TypeOK'
<1>1. KernelTypeOK'
  <2>1. ASSUME NEW q \in Pid, NEW p \in Pid, Fork(q, p) PROVE KernelTypeOK'
    BY <2>1, ForkType
  <2>2. ASSUME NEW p \in Pid, NEW im \in Image, Exec(p, im) PROVE KernelTypeOK'
    BY <2>2, ExecType
  <2>3. ASSUME NEW p \in Pid, Exit(p) PROVE KernelTypeOK'
    BY <2>3, ExitType
  <2>4. ASSUME NEW w \in Watcher, NEW p \in Pid, Write(w, p) PROVE KernelTypeOK'
    BY <2>4, WriteType
  <2>5. CASE Tick
    BY <2>5 DEF Tick, TypeOK, KernelTypeOK
  <2> QED
    BY <2>1, <2>2, <2>3, <2>4, <2>5 DEF Machine
<1>2. DaemonTypeOK'
  BY DEF Machine, daemonVars, threadVars, TypeOK, DaemonTypeOK
<1> QED
  BY <1>1, <1>2 DEF TypeOK

-----------------------------------------------------------------------------
(* main() and the watchers, one lemma per action. *)
LEMMA FaultsType ==
    ASSUME TypeOK, Succeeds \/ Fails
    PROVE  faults' \in Nat
<1>1. faults \in Nat
  BY DEF TypeOK, DaemonTypeOK
<1> QED
  BY <1>1 DEF Succeeds, Fails

(* A table scanned at startup, or left empty: whoever is in it runs. *)
LEMMA BootNodes ==
    ASSUME Boot
    PROVE  \A p \in Pid : tree'[p] # None =>
              /\ holder[p] # 0
              /\ tree'[p] = NewNode(ProcParent(p), ProcImage(p), now, holder[p])
              /\ tree'[p].ppid = ProcParent(p) /\ tree'[p].start = now
              /\ tree'[p].inc = holder[p] /\ tree'[p].exited = None
              /\ tree'[p].persisted = FALSE
<1>1. TAKE p \in Pid
<1>2. HAVE tree'[p] # None
<1>3. tree' \in {Bootstrapped, EmptyTable}
  BY DEF Boot
<1>4. tree' = Bootstrapped
  BY <1>2, <1>3 DEF EmptyTable
<1>5. holder[p] # 0 /\ tree'[p] = NewNode(ProcParent(p), ProcImage(p), now, holder[p])
  BY <1>2, <1>4 DEF Bootstrapped
<1> QED
  BY <1>5 DEF NewNode

LEMMA BootType == TypeOK /\ Boot => TypeOK'
<1> SUFFICES ASSUME TypeOK, Boot PROVE TypeOK'
  OBVIOUS
<1>1. \A p \in Pid : NewNode(ProcParent(p), ProcImage(p), now, holder[p]) \in ProcNode
  <2>1. TAKE p \in Pid
  <2>2. now \in Nat /\ holder[p] \in Nat
    BY HolderType DEF TypeOK, KernelTypeOK
  <2> QED
    BY <2>2, ProcReads DEF NewNode, ProcNode, Option
<1>2. Bootstrapped \in Tables /\ EmptyTable \in Tables
  BY <1>1 DEF Bootstrapped, EmptyTable, Tables, Option
<1>3. KernelTypeOK'
  BY DEF Boot, TypeOK, KernelTypeOK
<1>4. up' \in BOOLEAN /\ graphUp' \in BOOLEAN /\ faults' \in Nat /\ tree' \in Tables
  BY <1>2, FaultsType DEF Boot
<1>5. DaemonTypeOK'
  BY <1>4 DEF Boot, threadVars, TypeOK, DaemonTypeOK
<1> QED
  BY <1>3, <1>5 DEF TypeOK

LEMMA ListenType == TypeOK /\ Listen => TypeOK'
<1> SUFFICES ASSUME TypeOK, Listen PROVE TypeOK'
  OBVIOUS
<1>1. KernelTypeOK'
  BY DEF Listen, TypeOK, KernelTypeOK
<1>2. DaemonTypeOK'
  BY DEF Listen, Succeeds, Fails, threadVars, TypeOK, DaemonTypeOK
<1> QED
  BY <1>1, <1>2 DEF TypeOK

LEMMA WatchType ==
    ASSUME TypeOK, NEW w \in Watcher, Watch(w)
    PROVE  TypeOK'
<1>1. KernelTypeOK'
  BY DEF Watch, TypeOK, KernelTypeOK
<1>2. faults' \in Nat
  BY FaultsType DEF Watch
<1>3. pc' \in [Watcher -> Place]
  BY DEF Watch, TypeOK, DaemonTypeOK, Place
<1>4. \A v \in Watcher : pc'[v] \in {"idle", "stopped"} \/ pc'[v] = pc[v]
  BY DEF Watch, TypeOK, DaemonTypeOK
<1>5. DaemonTypeOK'
  BY <1>2, <1>3, <1>4 DEF Watch, TypeOK, DaemonTypeOK
<1> QED
  BY <1>1, <1>5 DEF TypeOK

LEMMA CrashType == TypeOK /\ Crash => TypeOK'
<1> SUFFICES ASSUME TypeOK, Crash PROVE TypeOK'
  OBVIOUS
<1>1. KernelTypeOK'
  <2>1. netlink' \in Seq(Message) /\ fanotify' \in [Watcher -> Seq(Event)]
    BY DEF Crash
  <2>2. subscribed' \in BOOLEAN /\ watching' \subseteq Watcher
    BY DEF Crash
  <2>3. UNCHANGED <<now, procs, holder, freed, execs, written, missed>>
    BY DEF Crash
  <2> QED
    BY <2>1, <2>2, <2>3 DEF TypeOK, KernelTypeOK
<1>2. tree' \in Tables /\ closing' \in [pid: Option(Pid), start: Nat, exit: Nat]
  BY DEF Crash, EmptyTable, Tables, NoClosing, Option
<1>3. cur' \in [Watcher -> Event]
  BY NoEventIsEvent DEF Crash
<1>4. chain' \in [Watcher -> Seq(ChainItem)]
  BY DEF Crash
<1>5. /\ pc' \in [Watcher -> Place]
      /\ \A w \in Watcher : pc'[w] = "off"
  BY DEF Crash, Place
<1>6. stamp' \in [Watcher -> Nat] /\ known' \in [Watcher -> BOOLEAN]
  BY DEF Crash
<1>7. crashes' \in Nat /\ UNCHANGED <<rows, events, log, refused, faults>>
  BY DEF Crash, TypeOK, DaemonTypeOK
<1>8. up' \in BOOLEAN /\ graphUp' \in BOOLEAN /\ connector' = "off"
  BY DEF Crash
<1>9. DaemonTypeOK'
  BY <1>2, <1>3, <1>4, <1>5, <1>6, <1>7, <1>8 DEF TypeOK, DaemonTypeOK
<1> QED
  BY <1>1, <1>9 DEF TypeOK

(* Reading an event leaves the rest of the group's queue. *)
LEMMA QueueReads ==
    ASSUME TypeOK, NEW w \in Watcher, fanotify[w] # <<>>
    PROVE  /\ Head(fanotify[w]) \in Event
           /\ [fanotify EXCEPT ![w] = Tail(@)] \in [Watcher -> Seq(Event)]
  BY DEF TypeOK, KernelTypeOK

LEMMA IgnoreOwnType ==
    ASSUME TypeOK, NEW w \in Watcher, IgnoreOwn(w)
    PROVE  TypeOK'
<1>1. KernelTypeOK'
  BY QueueReads DEF IgnoreOwn, TypeOK, KernelTypeOK
<1>2. DaemonTypeOK'
  BY DEF IgnoreOwn, daemonVars, threadVars, TypeOK, DaemonTypeOK
<1> QED
  BY <1>1, <1>2 DEF TypeOK

LEMMA ReadErrorType ==
    ASSUME TypeOK, NEW w \in Watcher, ReadError(w)
    PROVE  TypeOK'
<1>1. KernelTypeOK'
  BY DEF ReadError, kernelVars, TypeOK, KernelTypeOK
<1>2. pc' = [pc EXCEPT ![w] = "stopped"] /\ faults' \in Nat
  BY FaultsType DEF ReadError
<1>3. DaemonTypeOK'
  BY <1>2 DEF ReadError, Place, TypeOK, DaemonTypeOK
<1> QED
  BY <1>1, <1>3 DEF TypeOK

LEMMA DropEventType ==
    ASSUME TypeOK, NEW w \in Watcher, DropEvent(w)
    PROVE  TypeOK'
<1>1. KernelTypeOK'
  BY QueueReads DEF DropEvent, TypeOK, KernelTypeOK
<1>2. PICK e \in Event : e = Head(fanotify[w])
  BY QueueReads DEF DropEvent
<1>3. faults' \in Nat /\ refused' \subseteq Nat
  BY <1>2, FaultsType DEF DropEvent, Event, TypeOK, DaemonTypeOK
<1>4. DaemonTypeOK'
  BY <1>3 DEF DropEvent, threadVars, TypeOK, DaemonTypeOK
<1> QED
  BY <1>1, <1>4 DEF TypeOK

LEMMA TakeEventType ==
    ASSUME TypeOK, NEW w \in Watcher, TakeEvent(w)
    PROVE  TypeOK'
<1>1. PICK e \in Event : e = Head(fanotify[w])
  BY QueueReads DEF TakeEvent
<1>2. e.pid \in Pid
  BY <1>1 DEF TakeEvent, Event
<1>3. KernelTypeOK'
  BY QueueReads DEF TakeEvent, TypeOK, KernelTypeOK
<1>4. cur' \in [Watcher -> Event] /\ cur' = [cur EXCEPT ![w] = e]
  BY <1>1 DEF TakeEvent, TypeOK, DaemonTypeOK
<1>5. known' \in [Watcher -> BOOLEAN]
  BY DEF TakeEvent, TypeOK, DaemonTypeOK
<1>6. /\ chain' \in [Watcher -> Seq(ChainItem)]
      /\ pc' \in [Watcher -> Place]
      /\ \A v \in Watcher \ {w} : pc'[v] = pc[v] /\ chain'[v] = chain[v]
      /\ pc'[w] \in {"insert", "stamp", "log"}
      /\ pc'[w] = "insert" => chain'[w] # <<>>
  <2>1. CASE pc' = [pc EXCEPT ![w] = "log"] /\ UNCHANGED chain
    BY <2>1 DEF TypeOK, DaemonTypeOK, Place
  <2>2. CASE \E c \in Climbs(tree, e.pid) :
                /\ chain' = [chain EXCEPT ![w] = ChainOf(tree, c)]
                /\ pc' = [pc EXCEPT ![w] = AfterChain(c)]
    <3>1. PICK c \in Climbs(tree, e.pid) :
                /\ chain' = [chain EXCEPT ![w] = ChainOf(tree, c)]
                /\ pc' = [pc EXCEPT ![w] = AfterChain(c)]
      BY <2>2
    <3>2. ChainOf(tree, c) \in Seq(ChainItem) /\ (ChainOf(tree, c) = <<>> <=> c = <<>>)
      BY <1>2, ChainOfClimb DEF TypeOK, DaemonTypeOK
    <3>3. AfterChain(c) \in {"insert", "stamp"} /\ (AfterChain(c) = "insert" => c # <<>>)
      BY DEF AfterChain
    <3> QED
      BY <3>1, <3>2, <3>3 DEF TypeOK, DaemonTypeOK, Place
  <2> QED
    BY <1>1, <2>1, <2>2 DEF TakeEvent
<1>7. DaemonTypeOK'
  <2>1. \A v \in Watcher : pc'[v] \notin {"off", "idle", "stopped"} => cur'[v].pid \in Pid
    BY <1>2, <1>4, <1>6 DEF TypeOK, DaemonTypeOK
  <2>2. \A v \in Watcher : pc'[v] \in {"insert", "exit", "mark"} => chain'[v] # <<>>
    BY <1>6 DEF TypeOK, DaemonTypeOK
  <2> QED
    BY <1>4, <1>5, <1>6, <2>1, <2>2 DEF TakeEvent, TypeOK, DaemonTypeOK
<1> QED
  BY <1>3, <1>7 DEF TypeOK

-----------------------------------------------------------------------------
(* persist_chain and the rest of a watcher's way. *)
LEMMA HeadOfChain ==
    ASSUME TypeOK, NEW w \in Watcher, chain[w] # <<>>
    PROVE  /\ Head(chain[w]).pid \in Pid
           /\ Head(chain[w]).node \in ProcNode
           /\ Head(chain[w]).node.start \in Nat
           /\ Head(chain[w]).node.exited \in Option(Nat)
           /\ Tail(chain[w]) \in Seq(ChainItem)
<1>1. chain[w] \in Seq(ChainItem)
  BY DEF TypeOK, DaemonTypeOK
<1>2. Head(chain[w]) \in ChainItem /\ Tail(chain[w]) \in Seq(ChainItem)
  BY <1>1
<1> QED
  BY <1>2 DEF ChainItem, ProcNode

(* The queues after an echo, and everything else of the kernel, are typed. *)
LEMMA KernelKept ==
    ASSUME TypeOK, fanotify' \in {fanotify, Echoed(fanotify)},
           UNCHANGED <<now, procs, holder, freed, execs, written, netlink, subscribed,
                       missed, watching>>
    PROVE  KernelTypeOK'
<1>1. fanotify \in [Watcher -> Seq(Event)]
  BY DEF TypeOK, KernelTypeOK
<1>2. fanotify' \in [Watcher -> Seq(Event)]
  BY <1>1, EchoedType
<1> QED
  BY <1>2 DEF TypeOK, KernelTypeOK

(* The part of DaemonTypeOK that ties a watcher's place to what it holds. *)
WatchersOK ==
    /\ pc \in [Watcher -> Place]
    /\ \A v \in Watcher : pc[v] \notin {"off", "idle", "stopped"} => cur[v].pid \in Pid
    /\ chain \in [Watcher -> Seq(ChainItem)]
    /\ \A v \in Watcher : pc[v] \in {"insert", "exit", "mark"} => chain[v] # <<>>

(* What a watcher past the queue must leave: a place and a chain that fit. *)
LEMMA WatcherKept ==
    ASSUME TypeOK, NEW w \in Watcher,
           pc[w] \notin {"off", "idle", "stopped"},
           NEW l \in {"insert", "exit", "mark", "stamp", "record", "log"},
           NEW c \in Seq(ChainItem),
           l \in {"insert", "exit", "mark"} => c # <<>>,
           pc' = [pc EXCEPT ![w] = l], chain' = [chain EXCEPT ![w] = c],
           UNCHANGED cur
    PROVE  WatchersOK'
  BY DEF WatchersOK, TypeOK, DaemonTypeOK, Place

LEMMA SameChain ==
    ASSUME TypeOK, NEW w \in Watcher, UNCHANGED chain
    PROVE  chain[w] \in Seq(ChainItem) /\ chain' = [chain EXCEPT ![w] = chain[w]]
  BY DEF TypeOK, DaemonTypeOK

(* Done with a link, persist_chain goes on to the next or is through. *)
LEMMA SkipsLink ==
    ASSUME TypeOK, NEW w \in Watcher,
           pc[w] \in {"insert", "mark"},
           chain' = [chain EXCEPT ![w] = Tail(@)],
           pc' = [pc EXCEPT ![w] = AfterChain(Tail(chain[w]))],
           UNCHANGED cur
    PROVE  WatchersOK'
<1>1. PICK c : c = Tail(chain[w])
  OBVIOUS
<1>2. chain[w] # <<>>
  BY DEF TypeOK, DaemonTypeOK
<1>3. c \in Seq(ChainItem)
  BY <1>1, <1>2, HeadOfChain
<1>4. PICK l : l = AfterChain(c)
  OBVIOUS
<1>5. chain' = [chain EXCEPT ![w] = c] /\ pc' = [pc EXCEPT ![w] = l]
  BY <1>1, <1>4
<1>6. l \in {"insert", "stamp"} /\ (l = "insert" => c # <<>>)
  BY <1>4 DEF AfterChain
<1> QED
  BY <1>3, <1>5, <1>6, WatcherKept

LEMMA InsertRowType ==
    ASSUME TypeOK, NEW w \in Watcher, InsertRow(w)
    PROVE  TypeOK'
<1>1. pc[w] = "insert" /\ chain[w] # <<>>
  BY DEF InsertRow, TypeOK, DaemonTypeOK
<1>2. PICK p \in Pid, node \in ProcNode : p = Head(chain[w]).pid /\ node = Head(chain[w]).node
  BY <1>1, HeadOfChain
<1>3. KernelTypeOK'
  BY KernelKept DEF InsertRow
<1>4. faults' \in Nat
  BY FaultsType DEF InsertRow
<1>5. rows' \subseteq ProcRow
  <2>1. rows \subseteq ProcRow
    BY DEF TypeOK, DaemonTypeOK
  <2>2. rows' = rows \/ rows' = RecordExisting(rows, p, node)
    BY <1>2 DEF InsertRow
  <2> QED
    BY <2>1, <2>2, RecordExistingStores
<1>6. WatchersOK'
  <2>1. UNCHANGED cur
    BY DEF InsertRow
  <2>2. CASE /\ pc' = [pc EXCEPT ![w] = IF node.exited = None THEN "mark" ELSE "exit"]
             /\ UNCHANGED chain
    <3>1. PICK l \in {"mark", "exit"} : pc' = [pc EXCEPT ![w] = l]
      BY <2>2
    <3> QED
      BY <1>1, <2>1, <2>2, <3>1, SameChain, WatcherKept
  <2>3. CASE /\ chain' = [chain EXCEPT ![w] = Tail(@)]
             /\ pc' = [pc EXCEPT ![w] = AfterChain(Tail(chain[w]))]
    BY <1>1, <2>1, <2>3, SkipsLink
  <2> QED
    BY <1>2, <2>2, <2>3 DEF InsertRow
<1>7. DaemonTypeOK'
  BY <1>4, <1>5, <1>6 DEF InsertRow, WatchersOK, TypeOK, DaemonTypeOK
<1> QED
  BY <1>3, <1>7 DEF TypeOK

LEMMA WriteExitType ==
    ASSUME TypeOK, NEW w \in Watcher, WriteExit(w)
    PROVE  TypeOK'
<1>1. pc[w] = "exit" /\ chain[w] # <<>>
  BY DEF WriteExit, TypeOK, DaemonTypeOK
<1>2. PICK x \in Option(Nat) : x = Head(chain[w]).node.exited
  BY <1>1, HeadOfChain
<1>3. KernelTypeOK'
  BY KernelKept DEF WriteExit
<1>4. faults' \in Nat
  BY FaultsType DEF WriteExit
<1>5. rows' \subseteq ProcRow
  <2>1. rows \subseteq ProcRow
    BY DEF TypeOK, DaemonTypeOK
  <2>2. \/ rows' = rows
        \/ rows' = RecordExitAt(rows, Head(chain[w]).pid, Head(chain[w]).node.start, x)
    BY <1>2 DEF WriteExit
  <2> QED
    BY <2>1, <2>2, RecordExitAtKeeps
<1>6. pc' = [pc EXCEPT ![w] = "mark"] /\ UNCHANGED <<cur, chain>>
  BY DEF WriteExit
<1>7. WatchersOK'
  BY <1>1, <1>6, SameChain, WatcherKept
<1>8. DaemonTypeOK'
  BY <1>4, <1>5, <1>7 DEF WriteExit, WatchersOK, TypeOK, DaemonTypeOK
<1> QED
  BY <1>3, <1>8 DEF TypeOK

LEMMA MarkType ==
    ASSUME TypeOK, NEW w \in Watcher, Mark(w)
    PROVE  TypeOK'
<1>1. pc[w] = "mark" /\ chain[w] # <<>>
  BY DEF Mark, TypeOK, DaemonTypeOK
<1>2. PICK p \in Pid : p = Head(chain[w]).pid
  BY <1>1, HeadOfChain
<1>3. KernelTypeOK'
  BY KernelKept DEF Mark, kernelVars
<1>4. tree' \in Tables
  <2>1. tree \in Tables /\ tree' = MarkPersisted(tree, p)
    BY <1>2 DEF Mark, TypeOK, DaemonTypeOK
  <2> QED
    BY <2>1, MarkPersistedTable
<1>5. WatchersOK'
  BY <1>1, SkipsLink DEF Mark
<1>6. DaemonTypeOK'
  BY <1>4, <1>5 DEF Mark, WatchersOK, TypeOK, DaemonTypeOK
<1> QED
  BY <1>3, <1>6 DEF TypeOK

LEMMA StampType ==
    ASSUME TypeOK, NEW w \in Watcher, Stamp(w)
    PROVE  TypeOK'
<1>1. KernelTypeOK'
  BY KernelKept DEF Stamp, kernelVars
<1>2. pc[w] = "stamp" /\ pc' = [pc EXCEPT ![w] = "record"] /\ UNCHANGED <<cur, chain>>
  BY DEF Stamp
<1>3. WatchersOK'
  BY <1>2, SameChain, WatcherKept
<1>4. stamp' \in [Watcher -> Nat]
  BY DEF Stamp, TypeOK, KernelTypeOK, DaemonTypeOK
<1>5. DaemonTypeOK'
  BY <1>3, <1>4 DEF Stamp, WatchersOK, TypeOK, DaemonTypeOK
<1> QED
  BY <1>1, <1>5 DEF TypeOK

LEMMA RecordEventType ==
    ASSUME TypeOK, NEW w \in Watcher, RecordEvent(w)
    PROVE  TypeOK'
<1>1. KernelTypeOK'
  BY KernelKept DEF RecordEvent
<1>2. pc[w] = "record" /\ pc' = [pc EXCEPT ![w] = "log"] /\ UNCHANGED <<cur, chain>>
  BY DEF RecordEvent
<1>3. WatchersOK'
  BY <1>2, SameChain, WatcherKept
<1>4. \A start \in ResolvedAmiss(w) \cup {Resolved(w)} : Recorded(w, start) \in EventRow
  <2>1. cur[w] \in Event /\ cur[w].pid \in Pid /\ stamp[w] \in Nat /\ rows \in SUBSET ProcRow
    BY <1>2 DEF TypeOK, DaemonTypeOK
  <2>2. \A start \in ResolvedAmiss(w) \cup {Resolved(w)} : start \in Option(Nat)
    BY <2>1, ResolveWriterIsARow, LastStartedIsARow DEF Resolved, ResolvedAmiss, Option
  <2> QED
    BY <2>1, <2>2 DEF Recorded, EventRow, Event
<1>5. events' \subseteq EventRow
  <2>1. PICK E \in SUBSET EventRow : E = {Recorded(w, start) : start \in ResolvedAmiss(w) \cup {Resolved(w)}}
    BY <1>4
  <2>2. events' \subseteq events \cup E
    BY <2>1 DEF RecordEvent
  <2> QED
    BY <2>1, <2>2 DEF TypeOK, DaemonTypeOK
<1>6. faults' \in Nat
  BY FaultsType DEF RecordEvent
<1>7. DaemonTypeOK'
  BY <1>3, <1>5, <1>6 DEF RecordEvent, WatchersOK, TypeOK, DaemonTypeOK
<1> QED
  BY <1>1, <1>7 DEF TypeOK

LEMMA AppendLogType ==
    ASSUME TypeOK, NEW w \in Watcher, AppendLog(w)
    PROVE  TypeOK'
<1>1. KernelTypeOK'
  BY KernelKept DEF AppendLog
<1>2. pc[w] = "log" /\ pc' = [pc EXCEPT ![w] = "idle"] /\ UNCHANGED chain
  BY DEF AppendLog
<1>3. cur[w] \in Event /\ cur[w].pid \in Pid
  BY <1>2 DEF TypeOK, DaemonTypeOK
<1>4. Identity(cur[w].pid) \in Option(Image)
  <2>1. PICK p \in Pid : p = cur[w].pid
    BY <1>3
  <2>2. tree[p] # None => tree[p].info \in Option(Image)
    <3>1. tree[p] # None => tree[p] \in ProcNode
      BY DEF TypeOK, DaemonTypeOK, Tables, Option
    <3> QED
      BY <3>1 DEF ProcNode
  <2> QED
    BY <2>1, <2>2, ProcReads DEF Identity
<1>5. log' \in Seq(LogLine) /\ refused' \subseteq Nat /\ faults' \in Nat
  <2>1. PICK line : line = [n |-> cur[w].n, pid |-> cur[w].pid, info |-> Identity(cur[w].pid)]
    OBVIOUS
  <2>2. line \in LogLine /\ cur[w].n \in Nat
    BY <1>3, <1>4, <2>1 DEF LogLine, Event
  <2>3. log \in Seq(LogLine)
    BY DEF TypeOK, DaemonTypeOK
  <2>4. log' = log \/ log' = Append(log, line)
    BY <2>1 DEF AppendLog
  <2>5. refused \subseteq Nat /\ refused' \subseteq refused \cup {cur[w].n}
    BY DEF AppendLog, TypeOK, DaemonTypeOK
  <2>6. faults' \in Nat
    BY FaultsType DEF AppendLog
  <2> QED
    BY <2>2, <2>3, <2>4, <2>5, <2>6
<1>6. cur' \in [Watcher -> Event]
  BY NoEventIsEvent DEF AppendLog, TypeOK, DaemonTypeOK
<1>7. stamp' \in [Watcher -> Nat] /\ known' \in [Watcher -> BOOLEAN]
  BY DEF AppendLog, TypeOK, DaemonTypeOK
<1>8. /\ pc' \in [Watcher -> Place]
      /\ \A v \in Watcher : pc'[v] \notin {"off", "idle", "stopped"} => cur'[v].pid \in Pid
      /\ \A v \in Watcher : pc'[v] \in {"insert", "exit", "mark"} => chain'[v] # <<>>
  <2>1. \A v \in Watcher \ {w} : pc'[v] = pc[v] /\ cur'[v] = cur[v] /\ chain'[v] = chain[v]
    BY <1>2 DEF AppendLog, TypeOK, DaemonTypeOK
  <2>2. pc'[w] = "idle"
    BY <1>2 DEF TypeOK, DaemonTypeOK
  <2> QED
    BY <1>2, <2>1, <2>2 DEF TypeOK, DaemonTypeOK, Place
<1>9. DaemonTypeOK'
  BY <1>5, <1>6, <1>7, <1>8 DEF AppendLog, TypeOK, DaemonTypeOK
<1> QED
  BY <1>1, <1>9 DEF TypeOK

LEMMA WatcherType ==
    ASSUME TypeOK, NEW w \in Watcher, WatcherStep(w) \/ ReadError(w) \/ DropEvent(w)
    PROVE  TypeOK'
  BY WatchType, IgnoreOwnType, TakeEventType, InsertRowType, WriteExitType, MarkType,
     StampType, RecordEventType, AppendLogType, ReadErrorType, DropEventType DEF WatcherStep

-----------------------------------------------------------------------------
(* The connector and the eviction thread. *)
LEMMA HeadOfNetlink ==
    ASSUME TypeOK, NEW kind \in {"fork", "exec", "exit"}, Receives(kind)
    PROVE  /\ netlink' \in Seq(Message)
           /\ Head(netlink).pid \in Pid
           /\ Head(netlink).parent \in Option(Pid)
           /\ Head(netlink).inc \in Nat
<1>1. netlink \in Seq(Message) /\ netlink # <<>> /\ netlink' = Tail(netlink)
  BY DEF Receives, TypeOK, KernelTypeOK
<1>2. PICK m \in Message : m = Head(netlink)
  BY <1>1
<1>3. m.kind # "overrun"
  BY <1>2 DEF Receives
<1>4. m # Overrun
  BY <1>3 DEF Overrun, Msg
<1> QED
  BY <1>1, <1>2, <1>4 DEF Message

(* The connector's loop reads its queue and touches nothing of the kernel. *)
LEMMA KernelRead ==
    ASSUME TypeOK, netlink' \in Seq(Message), subscribed' \in BOOLEAN,
           UNCHANGED <<now, procs, holder, freed, execs, written, missed, watching, fanotify>>
    PROVE  KernelTypeOK'
  BY DEF TypeOK, KernelTypeOK

LEMMA ReceivesType ==
    ASSUME TypeOK, NEW kind, Receives(kind)
    PROVE  netlink' \in Seq(Message)
  BY DEF Receives, TypeOK, KernelTypeOK

LEMMA RecvForkType == TypeOK /\ RecvFork => TypeOK'
<1> SUFFICES ASSUME TypeOK, RecvFork PROVE TypeOK'
  OBVIOUS
<1>1. Receives("fork") /\ netlink' \in Seq(Message)
  BY ReceivesType DEF RecvFork
<1>2. PICK p \in Pid, q \in Option(Pid), n \in Nat :
         p = Head(netlink).pid /\ q = Head(netlink).parent /\ n = Head(netlink).inc
  BY <1>1, HeadOfNetlink
<1>3. tree' = OnFork(tree, q, p, now, n) /\ tree \in Tables /\ now \in Nat
  BY <1>2 DEF RecvFork, TypeOK, KernelTypeOK, DaemonTypeOK
<1>4. tree' \in Tables
  BY <1>3, OnForkTable
<1>5. KernelTypeOK'
  BY <1>1, KernelRead DEF RecvFork, TypeOK, KernelTypeOK
<1>6. DaemonTypeOK'
  BY <1>4 DEF RecvFork, threadVars, TypeOK, DaemonTypeOK
<1> QED
  BY <1>5, <1>6 DEF TypeOK

LEMMA RecvExecType == TypeOK /\ RecvExec => TypeOK'
<1> SUFFICES ASSUME TypeOK, RecvExec PROVE TypeOK'
  OBVIOUS
<1>1. Receives("exec") /\ netlink' \in Seq(Message)
  BY ReceivesType DEF RecvExec
<1>2. PICK p \in Pid, n \in Nat : p = Head(netlink).pid /\ n = Head(netlink).inc
  BY <1>1, HeadOfNetlink
<1>3. PICK im \in Option(Image), q \in Option(Pid) : im = ProcImage(p) /\ q = ProcParent(p)
  BY ProcReads
<1>4. tree' = OnExec(tree, p, im, q, now, n) /\ tree \in Tables /\ now \in Nat
  BY <1>2, <1>3 DEF RecvExec, TypeOK, KernelTypeOK, DaemonTypeOK
<1>5. tree' \in Tables
  BY <1>4, OnExecTable
<1>6. KernelTypeOK'
  BY <1>1, KernelRead DEF RecvExec, TypeOK, KernelTypeOK
<1>7. DaemonTypeOK'
  BY <1>5 DEF RecvExec, threadVars, TypeOK, DaemonTypeOK
<1> QED
  BY <1>6, <1>7 DEF TypeOK

LEMMA RecvExitType == TypeOK /\ RecvExit => TypeOK'
<1> SUFFICES ASSUME TypeOK, RecvExit PROVE TypeOK'
  OBVIOUS
<1>1. Receives("exit") /\ netlink' \in Seq(Message)
  BY ReceivesType DEF RecvExit
<1>2. PICK p \in Pid : p = Head(netlink).pid
  BY <1>1, HeadOfNetlink
<1>3. tree' = OnExit(tree, p, now) /\ tree \in Tables /\ now \in Nat
  BY <1>2 DEF RecvExit, TypeOK, KernelTypeOK, DaemonTypeOK
<1>4. tree' \in Tables
  BY <1>3, OnExitTable
<1>5. PICK start : start = ExitWriteThrough(tree, p)
  OBVIOUS
<1>6. start # None => start \in Nat
  BY <1>3, <1>5 DEF ExitWriteThrough, Tables, Option, ProcNode
<1>7. /\ connector' \in {"off", "recv", "close", "stopped"}
      /\ closing' \in [pid: Option(Pid), start: Nat, exit: Nat]
  <2>1. CASE start # None /\ graphUp
    <3>1. connector' = "close" /\ closing' = [pid |-> p, start |-> start, exit |-> now]
      BY <1>2, <1>5, <2>1 DEF RecvExit
    <3> QED
      BY <1>3, <1>6, <2>1, <3>1 DEF Option
  <2>2. CASE ~(start # None /\ graphUp)
    BY <1>2, <1>5, <2>2 DEF RecvExit, TypeOK, DaemonTypeOK
  <2> QED
    BY <2>1, <2>2
<1>8. KernelTypeOK'
  BY <1>1, KernelRead DEF RecvExit, TypeOK, KernelTypeOK
<1>9. DaemonTypeOK'
  BY <1>4, <1>7 DEF RecvExit, threadVars, TypeOK, DaemonTypeOK
<1> QED
  BY <1>8, <1>9 DEF TypeOK

LEMMA CloseRowType == TypeOK /\ CloseRow => TypeOK'
<1> SUFFICES ASSUME TypeOK, CloseRow PROVE TypeOK'
  OBVIOUS
<1>1. KernelTypeOK'
  BY KernelKept DEF CloseRow
<1>2. faults' \in Nat
  BY FaultsType DEF CloseRow
<1>3. closing.exit \in Option(Nat) /\ rows \subseteq ProcRow
  BY DEF TypeOK, DaemonTypeOK, Option
<1>4. rows' \subseteq ProcRow
  <2>1. rows' = rows \/ rows' = RecordExitAt(rows, closing.pid, closing.start, closing.exit)
    BY DEF CloseRow
  <2> QED
    BY <1>3, <2>1, RecordExitAtKeeps
<1>5. closing' \in [pid: Option(Pid), start: Nat, exit: Nat]
  BY DEF CloseRow, NoClosing, Option
<1>6. DaemonTypeOK'
  BY <1>2, <1>4, <1>5 DEF CloseRow, threadVars, TypeOK, DaemonTypeOK
<1> QED
  BY <1>1, <1>6 DEF TypeOK

LEMMA RecvOverrunType == TypeOK /\ RecvOverrun => TypeOK'
<1> SUFFICES ASSUME TypeOK, RecvOverrun PROVE TypeOK'
  OBVIOUS
<1>1. netlink' \in Seq(Message)
  BY ReceivesType DEF RecvOverrun
<1>2. KernelTypeOK'
  BY <1>1, KernelRead DEF RecvOverrun
<1>3. DaemonTypeOK'
  BY DEF RecvOverrun, threadVars, TypeOK, DaemonTypeOK
<1> QED
  BY <1>2, <1>3 DEF TypeOK

LEMMA EvictType == TypeOK /\ Evict => TypeOK'
<1> SUFFICES ASSUME TypeOK, Evict PROVE TypeOK'
  OBVIOUS
<1>1. tree \in Tables /\ now - Grace \in Int
  BY GraceAssumption DEF TypeOK, KernelTypeOK, DaemonTypeOK
<1>2. tree' \in Tables
  BY <1>1, EvictStaleTable DEF Evict
<1>3. KernelTypeOK'
  BY KernelKept DEF Evict, kernelVars
<1>4. DaemonTypeOK'
  BY <1>2 DEF Evict, threadVars, TypeOK, DaemonTypeOK
<1> QED
  BY <1>3, <1>4 DEF TypeOK

-----------------------------------------------------------------------------
LEMMA StutterType == TypeOK /\ UNCHANGED vars => TypeOK'
  BY DEF vars, kernelVars, daemonVars, threadVars, TypeOK, KernelTypeOK, DaemonTypeOK

LEMMA NextType == TypeOK /\ [Next]_vars => TypeOK'
  BY MachineType, BootType, CrashType, WatcherType, ListenType, RecvForkType, RecvExecType,
     RecvExitType, CloseRowType, RecvOverrunType, EvictType, StutterType
  DEF Next, ConnectorStep

(* Every state the daemon and the machine reach has the shape TypeOK says: *)
(* the table maps pids to nodes, a thread past its queue holds an event of *)
(* a process, persist_chain always has a link left where it says so.       *)
THEOREM TypeCorrect == Spec => []TypeOK
<1>1. Init => TypeOK
  BY InitType
<1>2. TypeOK /\ [Next]_vars => TypeOK'
  BY NextType
<1> QED
  BY <1>1, <1>2, PTL DEF Spec
=============================================================================
