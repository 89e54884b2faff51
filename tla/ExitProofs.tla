------------------------------ MODULE ExitProofs ------------------------------
(***************************************************************************)
(* Exits name bare pids and are written outside the table's lock, yet they *)
(* close no row of a running process, for every value of the constants:    *)
(* pids that come back while the daemon still remembers them, failures and *)
(* deaths of the daemon included.                                          *)
(***************************************************************************)
EXTENDS WhodiddProofs

(* What means the life inc of the pid p by the key (p, s): a node, a link  *)
(* of a chain, a row.                                                      *)
Names(p, s, inc) ==
    \/ tree[p] # None /\ tree[p].start = s /\ tree[p].inc = inc
    \/ \E w \in Watcher : \E i \in 1 .. Len(chain[w]) :
          chain[w][i].pid = p /\ chain[w][i].node.start = s /\ chain[w][i].node.inc = inc
    \/ \E r \in rows : r.pid = p /\ r.start = s /\ r.inc = inc

(* An exit is still to be written to the rows with the key (p, s). *)
Exited(p, s) ==
    \/ tree[p] # None /\ tree[p].start = s /\ tree[p].exited # None
    \/ \E w \in Watcher : \E i \in 1 .. Len(chain[w]) :
          /\ chain[w][i].pid = p /\ chain[w][i].node.start = s
          /\ chain[w][i].node.exited # None
    \/ closing.pid = p /\ closing.start = s

(* A name is of a process that had the pid. *)
NamesTrue ==
    \A p \in Pid, s \in Nat, i \in Nat :
        Names(p, s, i) => i \in 1 .. Len(procs) /\ procs[i].pid = p

(* Whoever holds a pid was given it. *)
HolderTrue == \A p \in Pid : holder[p] # 0 => procs[holder[p]].pid = p

(* A message names a process that had the pid, and after its exit nothing  *)
(* more is heard of a pid until that is read.                              *)
QueueTrue ==
    \A k \in 1 .. Len(netlink) : netlink[k] # Overrun =>
        /\ netlink[k].inc \in 1 .. Len(procs)
        /\ procs[netlink[k].inc].pid = netlink[k].pid
        /\ netlink[k].kind = "exit" =>
              /\ holder[netlink[k].pid] = 0
              /\ \A j \in k + 1 .. Len(netlink) : netlink[j].pid # netlink[k].pid

(* No node starts in the future or exits before its start. *)
NodeTimes ==
    \A p \in Pid : tree[p] # None =>
        /\ tree[p].start <= now
        /\ tree[p].exited # None => tree[p].start <= tree[p].exited

(* A key under which an exit is to be written is of an earlier second, or  *)
(* it is still the table's, of a pid nothing more is to be heard of: the   *)
(* next life of the pid starts later than s either way.                    *)
Aged(p, s) ==
    \/ s < now
    \/ tree[p] # None /\ tree[p].start = s /\ LastHeard(p)

ExitsAged == \A p \in Pid, s \in Nat : Exited(p, s) => Aged(p, s)

(* What means a running process has a later key than an exit to be written.*)
LivingLater ==
    \A p \in Pid, s \in Nat, t \in Nat, i \in Nat :
        Exited(p, s) /\ Names(p, t, i) /\ Alive(i) => s < t

(* closing is the exit that is being written. *)
ClosingOnly == connector # "close" => closing = NoClosing

(* persist_chain closes the row of a link that had exited, and no other. *)
LinkExited == \A w \in Watcher : pc[w] = "exit" => Head(chain[w]).node.exited # None

ExitParts ==
    /\ HolderTrue /\ NamesTrue /\ QueueTrue /\ NodeTimes /\ ExitsAged /\ LivingLater
    /\ LinkExited /\ ClosedMeansGone

(* The inductive invariant behind ClosedMeansGone. *)
ExitInv == TypeOK /\ DownIsEmpty /\ ClosingOnly /\ ExitParts

-----------------------------------------------------------------------------
(* A step keeps the three parts about names and exits if a new name is of  *)
(* this second and later than every exit of its pid, and a new exit is of  *)
(* a pid that is free.                                                     *)
LEMMA NamesAndExits ==
    ASSUME TypeOK, NamesTrue, LivingLater,
           Len(procs) <= Len(procs'), Len(procs') \in Nat,
           \A i \in 1 .. Len(procs) : procs'[i].pid = procs[i].pid /\ (Alive(i)' => Alive(i)),
           \A p \in Pid, s \in Nat, i \in Nat : Names(p, s, i)' =>
               \/ Names(p, s, i)
               \/ /\ i \in 1 .. Len(procs') /\ procs'[i].pid = p
                  /\ \A t \in Nat : Exited(p, t)' => t < s,
           \A p \in Pid, s \in Nat : Exited(p, s)' =>
               Aged(p, s)' /\ (Exited(p, s) \/ holder'[p] = 0)
    PROVE  NamesTrue' /\ ExitsAged' /\ LivingLater'
<1>0. Len(procs) \in Nat
  BY DEF TypeOK, KernelTypeOK
<1>1. NamesTrue'
  <2>1. SUFFICES ASSUME NEW p \in Pid, NEW s \in Nat, NEW i \in Nat, Names(p, s, i)', Names(p, s, i)
                 PROVE  i \in 1 .. Len(procs') /\ procs'[i].pid = p
    BY DEF NamesTrue
  <2>2. i \in 1 .. Len(procs) /\ procs[i].pid = p
    BY <2>1 DEF NamesTrue
  <2> QED
    BY <1>0, <2>2
<1>2. ExitsAged'
  BY DEF ExitsAged
<1>3. ASSUME NEW p \in Pid, NEW s \in Nat, NEW t \in Nat, NEW i \in Nat,
             Exited(p, s)', Names(p, t, i)', Alive(i)'
      PROVE  s < t
  <2>1. procs'[i].pid = p
    BY <1>1, <1>3 DEF NamesTrue
  <2>2. holder'[p] # 0
    BY <1>3, <2>1 DEF Alive
  <2>3. Exited(p, s)
    BY <1>3, <2>2
  <2>4. CASE Names(p, t, i)
    <3>1. i \in 1 .. Len(procs)
      BY <2>4 DEF NamesTrue
    <3>2. Alive(i)
      BY <1>3, <3>1
    <3> QED
      BY <2>3, <2>4, <3>2 DEF LivingLater
  <2>5. CASE ~Names(p, t, i)
    BY <1>3, <2>5
  <2> QED
    BY <2>4, <2>5
<1> QED
  BY <1>1, <1>2, <1>3 DEF LivingLater

(* Rows stay closed for good, if none is closed anew. *)
LEMMA ClosedStays ==
    ASSUME TypeOK, NamesTrue, ClosedMeansGone,
           \A i \in 1 .. Len(procs) : Alive(i)' => Alive(i),
           \A q \in rows' : q.exit = None \/ (\E r \in rows : q.exit = r.exit /\ q.inc = r.inc)
    PROVE  ClosedMeansGone'
<1> SUFFICES ASSUME NEW q \in rows', q.exit # None PROVE ~Alive(q.inc)'
  BY DEF ClosedMeansGone
<1>1. PICK r \in rows : q.exit = r.exit /\ q.inc = r.inc
  OBVIOUS
<1>2. r.pid \in Pid /\ r.start \in Nat /\ r.inc \in Nat
  BY DEF TypeOK, DaemonTypeOK, ProcRow
<1>3. Names(r.pid, r.start, r.inc)
  BY DEF Names
<1>4. r.inc \in 1 .. Len(procs)
  BY <1>2, <1>3 DEF NamesTrue
<1> QED
  BY <1>1, <1>4 DEF ClosedMeansGone

(* As long as the machine stands still, the same processes are alive. *)
LEMMA SameLives ==
    ASSUME TypeOK, UNCHANGED <<procs, holder>>
    PROVE  /\ Len(procs) <= Len(procs') /\ Len(procs') \in Nat
           /\ \A i \in 1 .. Len(procs) : procs'[i].pid = procs[i].pid /\ (Alive(i)' => Alive(i))
<1>1. Len(procs) \in Nat
  BY DEF TypeOK, KernelTypeOK
<1> QED
  BY <1>1 DEF Alive

(* A step that leaves the names, the exits and the clock's past alone. *)
LEMMA SameNames ==
    ASSUME UNCHANGED <<tree, chain, rows>>
    PROVE  \A p, s, i : Names(p, s, i)' => Names(p, s, i)
  BY DEF Names

LEMMA SameExits ==
    ASSUME UNCHANGED <<tree, chain, closing>>
    PROVE  \A p, s : Exited(p, s)' => Exited(p, s)
  BY DEF Exited

LEMMA SameAge ==
    ASSUME TypeOK, now' \in Nat, now <= now', UNCHANGED tree,
           NEW p, NEW s \in Nat, Aged(p, s), LastHeard(p) => LastHeard(p)'
    PROVE  Aged(p, s)'
<1>1. now \in Nat
  BY DEF TypeOK, KernelTypeOK
<1> QED
  BY <1>1 DEF Aged

-----------------------------------------------------------------------------
(* The machine. *)
LEMMA AliveBefore ==
    ASSUME TypeOK, Machine
    PROVE  /\ Len(procs) <= Len(procs') /\ Len(procs') \in Nat
           /\ \A i \in 1 .. Len(procs) : procs'[i].pid = procs[i].pid /\ (Alive(i)' => Alive(i))
<1>1. Len(procs) \in Nat /\ holder \in [Pid -> 0 .. Len(procs)]
  BY DEF TypeOK, KernelTypeOK
<1>2. ASSUME NEW q \in Pid, NEW p \in Pid, Fork(q, p)
      PROVE  /\ Len(procs) <= Len(procs') /\ Len(procs') \in Nat
             /\ \A i \in 1 .. Len(procs) : procs'[i].pid = procs[i].pid /\ (Alive(i)' => Alive(i))
  <2>1. Len(procs') = Len(procs) + 1 /\ \A i \in 1 .. Len(procs) : procs'[i] = procs[i]
    BY <1>2, ForkType
  <2>2. holder' = [holder EXCEPT ![p] = Len(procs) + 1]
    BY <1>2 DEF Fork
  <2>3. \A i \in 1 .. Len(procs) : procs[i].pid \in Pid /\ i # Len(procs) + 1
    BY <1>1, ProcsType
  <2>4. \A i \in 1 .. Len(procs) : holder'[procs[i].pid] = i => holder[procs[i].pid] = i
    BY <1>1, <2>2, <2>3
  <2> QED
    BY <1>1, <2>1, <2>4 DEF Alive
<1>3. ASSUME NEW p \in Pid, NEW im \in Image, Exec(p, im)
      PROVE  /\ Len(procs) <= Len(procs') /\ Len(procs') \in Nat
             /\ \A i \in 1 .. Len(procs) : procs'[i].pid = procs[i].pid /\ (Alive(i)' => Alive(i))
  BY <1>1, <1>3, ExecType DEF Exec, Alive
<1>4. ASSUME NEW p \in Pid, Exit(p)
      PROVE  /\ Len(procs) <= Len(procs') /\ Len(procs') \in Nat
             /\ \A i \in 1 .. Len(procs) : procs'[i].pid = procs[i].pid /\ (Alive(i)' => Alive(i))
  <2>1. holder' = [holder EXCEPT ![p] = 0] /\ UNCHANGED procs
    BY <1>4 DEF Exit
  <2>2. \A i \in 1 .. Len(procs) : procs[i].pid \in Pid
    BY ProcsType
  <2> QED
    BY <1>1, <2>1, <2>2 DEF Alive
<1>5. CASE UNCHANGED <<procs, holder>>
  BY <1>5, SameLives
<1>6. CASE \/ \E w \in Watcher, p \in Pid : Write(w, p)
           \/ Tick
  BY <1>5, <1>6 DEF Write, Tick
<1> QED
  BY <1>2, <1>3, <1>4, <1>6 DEF Machine

(* A message of a process that is running or new joins a queue that has no *)
(* exit of its pid, and an exit ends what is heard of the pid.             *)
LEMMA EmitTrue ==
    ASSUME TypeOK, QueueTrue, NEW m, Emit(m), m # Overrun,
           Len(procs) <= Len(procs'), Len(procs') \in Nat,
           \A i \in 1 .. Len(procs) : procs'[i].pid = procs[i].pid,
           m.inc \in 1 .. Len(procs'), procs'[m.inc].pid = m.pid, m.pid \in Pid,
           m.kind = "exit" => holder'[m.pid] = 0,
           \A p \in Pid : holder[p] = 0 /\ p # m.pid => holder'[p] = 0,
           \A k \in 1 .. Len(netlink) : netlink[k].kind = "exit" => netlink[k].pid # m.pid
    PROVE  QueueTrue'
<1>1. Len(netlink) \in Nat /\ Len(procs) \in Nat
  BY DEF TypeOK, KernelTypeOK
<1>2. Overrun.pid \notin Pid
  BY PidAssumption DEF Overrun, Msg
<1>3. SUFFICES ASSUME NEW k \in 1 .. Len(netlink'), netlink'[k] # Overrun
               PROVE  /\ netlink'[k].inc \in 1 .. Len(procs')
                      /\ procs'[netlink'[k].inc].pid = netlink'[k].pid
                      /\ netlink'[k].kind = "exit" =>
                            /\ holder'[netlink'[k].pid] = 0
                            /\ \A j \in k + 1 .. Len(netlink') : netlink'[j].pid # netlink'[k].pid
  BY DEF QueueTrue
<1>4. CASE k \in 1 .. Len(netlink) /\ netlink'[k] = netlink[k]
  <2>1. /\ netlink[k].inc \in 1 .. Len(procs) /\ procs[netlink[k].inc].pid = netlink[k].pid
        /\ netlink[k].pid \in Pid
        /\ netlink[k].kind = "exit" =>
              /\ holder[netlink[k].pid] = 0
              /\ \A j \in k + 1 .. Len(netlink) : netlink[j].pid # netlink[k].pid
    BY <1>3, <1>4, MessageType DEF QueueTrue
  <2>2. netlink'[k].inc \in 1 .. Len(procs') /\ procs'[netlink'[k].inc].pid = netlink'[k].pid
    BY <1>1, <1>4, <2>1
  <2>3. ASSUME netlink[k].kind = "exit", NEW j \in k + 1 .. Len(netlink')
        PROVE  netlink'[j].pid # netlink'[k].pid
    <3>1. j \in 1 .. Len(netlink')
      BY <1>1, <1>4
    <3>2. CASE netlink'[j] = Overrun
      BY <1>2, <1>4, <2>1, <3>2
    <3>3. CASE j \in 1 .. Len(netlink) /\ netlink'[j] = netlink[j]
      <4>1. j \in k + 1 .. Len(netlink)
        BY <1>1, <3>3
      <4> QED
        BY <1>4, <2>1, <2>3, <3>3, <4>1
    <3>4. CASE netlink'[j] = m
      BY <1>4, <2>3, <3>4
    <3> QED
      BY <3>1, <3>2, <3>3, <3>4, EmitQueue
  <2> QED
    BY <1>4, <2>1, <2>2, <2>3
<1>5. CASE netlink'[k] = m /\ k = Len(netlink) + 1 /\ Len(netlink') = Len(netlink) + 1
  <2>1. \A j \in k + 1 .. Len(netlink') : FALSE
    BY <1>1, <1>5
  <2> QED
    BY <1>5, <2>1
<1> QED
  BY <1>3, <1>4, <1>5, EmitQueue

LEMMA ReadTrue ==
    ASSUME TypeOK, QueueTrue, UNCHANGED <<procs, holder>>,
           netlink' = netlink \/ (netlink # <<>> /\ netlink' = Tail(netlink))
    PROVE  QueueTrue'
<1>1. CASE netlink' = netlink
  BY <1>1 DEF QueueTrue
<1>2. CASE netlink # <<>> /\ netlink' = Tail(netlink)
  <2>1. /\ Len(netlink) \in Nat /\ Len(netlink') = Len(netlink) - 1
        /\ \A i \in 1 .. Len(netlink') : i + 1 \in 1 .. Len(netlink) /\ netlink'[i] = netlink[i + 1]
    BY <1>2, TailQueue
  <2>2. SUFFICES ASSUME NEW k \in 1 .. Len(netlink'), netlink'[k] # Overrun
                 PROVE  /\ netlink'[k].inc \in 1 .. Len(procs)
                        /\ procs[netlink'[k].inc].pid = netlink'[k].pid
                        /\ netlink'[k].kind = "exit" =>
                              /\ holder[netlink'[k].pid] = 0
                              /\ \A j \in k + 1 .. Len(netlink') : netlink'[j].pid # netlink'[k].pid
    BY DEF QueueTrue
  <2>3. PICK l \in 1 .. Len(netlink) : l = k + 1 /\ netlink'[k] = netlink[l]
    BY <2>1
  <2>4. /\ netlink[l].inc \in 1 .. Len(procs) /\ procs[netlink[l].inc].pid = netlink[l].pid
        /\ netlink[l].kind = "exit" =>
              /\ holder[netlink[l].pid] = 0
              /\ \A j \in l + 1 .. Len(netlink) : netlink[j].pid # netlink[l].pid
    BY <2>2, <2>3 DEF QueueTrue
  <2>5. ASSUME NEW j \in k + 1 .. Len(netlink')
        PROVE  j + 1 \in l + 1 .. Len(netlink) /\ netlink'[j] = netlink[j + 1]
    <3>1. j \in 1 .. Len(netlink')
      BY <2>1, <2>5
    <3> QED
      BY <2>1, <2>3, <2>5, <3>1
  <2> QED
    BY <2>3, <2>4, <2>5
<1> QED
  BY <1>1, <1>2

LEMMA MachineQueue ==
    ASSUME ExitInv, Machine
    PROVE  QueueTrue'
<1>1. TypeOK /\ QueueTrue /\ HolderTrue
  BY DEF ExitInv, ExitParts
<1>2. /\ Len(procs) <= Len(procs') /\ Len(procs') \in Nat /\ Len(procs) \in Nat
      /\ \A i \in 1 .. Len(procs) : procs'[i].pid = procs[i].pid
  BY <1>1, AliveBefore DEF TypeOK, KernelTypeOK
<1>3. \A k \in 1 .. Len(netlink) :
         netlink[k].kind = "exit" => netlink[k].pid \in Pid /\ holder[netlink[k].pid] = 0
  BY <1>1, MessageType DEF QueueTrue
<1>4. ASSUME NEW q \in Pid, NEW p \in Pid, Settled(p), Fork(q, p) PROVE QueueTrue'
  <2>1. PICK m : m = Msg("fork", p, q, Len(procs) + 1)
    OBVIOUS
  <2>2. Emit(m) /\ m.kind = "fork" /\ m.pid = p /\ m.inc = Len(procs) + 1 /\ m # Overrun
    BY <1>4, <2>1 DEF Fork, Msg, Overrun
  <2>3. Len(procs') = Len(procs) + 1 /\ procs'[Len(procs) + 1].pid = p
    BY <1>1, <1>4, ForkType
  <2>4. \A k \in 1 .. Len(netlink) : netlink[k].pid # p
    BY <1>4 DEF Settled, Unread
  <2>5. \A x \in Pid : holder[x] = 0 /\ x # p => holder'[x] = 0
    BY <1>1, <1>4 DEF Fork, TypeOK, KernelTypeOK
  <2> QED
    BY <1>1, <1>2, <2>2, <2>3, <2>4, <2>5, EmitTrue
<1>5. ASSUME NEW p \in Pid, NEW im \in Image, Exec(p, im) PROVE QueueTrue'
  <2>1. PICK m : m = Msg("exec", p, None, holder[p])
    OBVIOUS
  <2>2. Emit(m) /\ m.kind = "exec" /\ m.pid = p /\ m.inc = holder[p] /\ m # Overrun
    BY <1>5, <2>1 DEF Exec, Msg, Overrun
  <2>3. holder[p] # 0 /\ holder[p] \in 1 .. Len(procs) /\ UNCHANGED holder
    BY <1>1, <1>5, HolderType DEF Exec
  <2>4. procs[holder[p]].pid = p
    BY <1>1, <2>3 DEF HolderTrue
  <2>5. Len(procs') = Len(procs) /\ \A i \in 1 .. Len(procs) : procs'[i].pid = procs[i].pid
    BY <1>1, <1>5, ExecType
  <2>6. m.inc \in 1 .. Len(procs') /\ procs'[m.inc].pid = m.pid /\ m.pid \in Pid
    BY <2>2, <2>3, <2>4, <2>5
  <2>7. \A k \in 1 .. Len(netlink) : netlink[k].kind = "exit" => netlink[k].pid # m.pid
    BY <1>3, <2>2, <2>3
  <2> QED
    BY <1>1, <1>2, <2>2, <2>3, <2>5, <2>6, <2>7, EmitTrue
<1>6. ASSUME NEW p \in Pid, Exit(p) PROVE QueueTrue'
  <2>1. PICK m : m = Msg("exit", p, None, holder[p])
    OBVIOUS
  <2>2. Emit(m) /\ m.kind = "exit" /\ m.pid = p /\ m.inc = holder[p] /\ m # Overrun
    BY <1>6, <2>1 DEF Exit, Msg, Overrun
  <2>3. holder[p] # 0 /\ holder[p] \in 1 .. Len(procs) /\ holder' = [holder EXCEPT ![p] = 0]
    BY <1>1, <1>6, HolderType DEF Exit
  <2>4. procs[holder[p]].pid = p
    BY <1>1, <2>3 DEF HolderTrue
  <2>5. holder'[p] = 0 /\ \A x \in Pid : holder[x] = 0 => holder'[x] = 0
    BY <1>1, <2>3 DEF TypeOK, KernelTypeOK
  <2> QED
    BY <1>1, <1>2, <1>3, <2>2, <2>3, <2>4, <2>5, EmitTrue
<1>7. CASE UNCHANGED <<procs, holder, netlink>>
  BY <1>1, <1>7, ReadTrue
<1> QED
  BY <1>4, <1>5, <1>6, <1>7 DEF Machine, Write, Tick

LEMMA MachineClock ==
    ASSUME TypeOK, Machine
    PROVE  now \in Nat /\ now' \in Nat /\ now <= now'
<1>1. now \in Nat
  BY DEF TypeOK, KernelTypeOK
<1>2. UNCHANGED now \/ now' = now + 1
  BY DEF Machine, Fork, Exec, Exit, Write, Tick
<1> QED
  BY <1>1, <1>2

(* An exit under way ages: its pid is not handed out in the second of the  *)
(* start it is written to.                                                 *)
LEMMA MachineAges ==
    ASSUME TypeOK, Machine, NEW x \in Pid, NEW s \in Nat, Aged(x, s)
    PROVE  Aged(x, s)'
<1>1. UNCHANGED tree /\ now' \in Nat /\ now <= now' /\ now \in Nat
  BY MachineClock DEF Machine, daemonVars
<1>2. CASE s < now
  BY <1>1, <1>2 DEF Aged
<1>3. CASE tree[x] # None /\ tree[x].start = s /\ LastHeard(x)
  <2>1. Overrun.pid # x
    BY PidAssumption DEF Overrun, Msg
  <2>2. ASSUME NEW p \in Pid, p # x, NEW m, Emit(m), m.pid = p, holder'[x] = holder[x]
        PROVE  LastHeard(x)'
    <3>1. \A i \in 1 .. Len(netlink') : netlink'[i].pid # x
      BY <1>3, <2>1, <2>2, EmitQueue DEF LastHeard
    <3> QED
      BY <1>3, <2>2, <3>1 DEF LastHeard
  <2>3. ASSUME NEW q \in Pid, NEW p \in Pid, Settled(p), Fork(q, p)
        PROVE  s < now \/ LastHeard(x)'
    <3>1. CASE p = x
      BY <1>3, <2>3, <3>1 DEF Settled
    <3>2. CASE p # x
      <4>1. PICK m : Emit(m) /\ m.pid = p
        BY <2>3 DEF Fork, Msg
      <4>2. holder'[x] = holder[x]
        BY <2>3, <3>2 DEF Fork, TypeOK, KernelTypeOK
      <4> QED
        BY <2>2, <3>2, <4>1, <4>2
    <3> QED
      BY <3>1, <3>2
  <2>4. ASSUME NEW p \in Pid, Exit(p) \/ \E im \in Image : Exec(p, im)
        PROVE  LastHeard(x)'
    <3>1. holder[p] # 0 /\ p # x
      BY <1>3, <2>4 DEF Exit, Exec, LastHeard
    <3>2. PICK m : Emit(m) /\ m.pid = p
      <4>1. Emit(Msg("exit", p, None, holder[p])) \/ Emit(Msg("exec", p, None, holder[p]))
        BY <2>4 DEF Exit, Exec
      <4> QED
        BY <4>1 DEF Msg
    <3>3. holder'[x] = holder[x]
      BY <2>4, <3>1 DEF Exit, Exec, TypeOK, KernelTypeOK
    <3> QED
      BY <2>2, <3>1, <3>2, <3>3
  <2>5. ASSUME UNCHANGED <<holder, netlink>> PROVE LastHeard(x)'
    BY <1>3, <2>5 DEF LastHeard
  <2>6. ASSUME Tick \/ \E w \in Watcher, p \in Pid : Write(w, p) PROVE LastHeard(x)'
    BY <2>5, <2>6 DEF Write, Tick
  <2>7. s < now \/ LastHeard(x)'
    BY <2>3, <2>4, <2>6 DEF Machine
  <2> QED
    BY <1>1, <1>2, <1>3, <2>7 DEF Aged
<1> QED
  BY <1>2, <1>3 DEF Aged

LEMMA MachineHolds ==
    ASSUME TypeOK, HolderTrue, Machine
    PROVE  HolderTrue'
<1>1. Len(procs) \in Nat /\ holder \in [Pid -> 0 .. Len(procs)]
  BY DEF TypeOK, KernelTypeOK
<1>2. /\ \A i \in 1 .. Len(procs) : procs'[i].pid = procs[i].pid
      /\ \A x \in Pid : holder[x] # 0 => holder[x] \in 1 .. Len(procs)
  BY AliveBefore, HolderType
<1>3. ASSUME NEW q \in Pid, NEW p \in Pid, Fork(q, p) PROVE HolderTrue'
  <2>1. Len(procs') = Len(procs) + 1 /\ procs'[Len(procs) + 1].pid = p
    BY <1>3, ForkType
  <2>2. holder'[p] = Len(procs) + 1 /\ \A x \in Pid \ {p} : holder'[x] = holder[x]
    BY <1>1, <1>3 DEF Fork
  <2> QED
    BY <1>2, <2>1, <2>2 DEF HolderTrue
<1>4. ASSUME NEW p \in Pid, Exit(p) PROVE HolderTrue'
  BY <1>1, <1>2, <1>4 DEF Exit, HolderTrue
<1>5. CASE UNCHANGED holder
  BY <1>2, <1>5 DEF HolderTrue
<1> QED
  BY <1>3, <1>4, <1>5 DEF Machine, Exec, Write, Tick

LEMMA MachineExits ==
    ASSUME ExitInv, Machine
    PROVE  ExitParts'
<1>1. /\ TypeOK /\ HolderTrue /\ NamesTrue /\ NodeTimes /\ ExitsAged /\ LivingLater
      /\ ClosedMeansGone
  BY DEF ExitInv, ExitParts
<1>2. UNCHANGED <<tree, chain, rows, closing>>
  BY DEF Machine, daemonVars, threadVars
<1>3. /\ \A p, s, i : Names(p, s, i)' => Names(p, s, i)
      /\ \A p, s : Exited(p, s)' => Exited(p, s)
  BY <1>2, SameNames, SameExits
<1>4. \A p \in Pid, s \in Nat : Exited(p, s)' => Aged(p, s)'
  BY <1>1, <1>3, MachineAges DEF ExitsAged
<1>5. NamesTrue' /\ ExitsAged' /\ LivingLater'
  BY <1>1, <1>3, <1>4, AliveBefore, NamesAndExits
<1>6. ClosedMeansGone'
  BY <1>1, <1>2, AliveBefore, ClosedStays
<1>7. NodeTimes'
  <2>1. now' \in Nat /\ now \in Nat /\ now <= now' /\ tree \in Tables
    BY <1>1, MachineClock DEF TypeOK, DaemonTypeOK
  <2>2. \A p \in Pid : tree[p] # None => tree[p].start \in Nat
    BY <2>1 DEF Tables, Option, ProcNode
  <2> QED
    BY <1>1, <1>2, <2>1, <2>2 DEF NodeTimes
<1>8. LinkExited'
  BY <1>2 DEF Machine, daemonVars, threadVars, ExitInv, ExitParts, LinkExited
<1> QED
  BY <1>1, <1>5, <1>6, <1>7, <1>8, MachineQueue, MachineHolds DEF ExitParts

-----------------------------------------------------------------------------
(* The daemon, while the machine stands still. *)
LEMMA StepExits ==
    ASSUME ExitInv, UNCHANGED <<now, procs, holder>>,
           netlink' = netlink \/ (netlink # <<>> /\ netlink' = Tail(netlink)),
           NodeTimes', LinkExited', ClosedMeansGone',
           \A p \in Pid, s \in Nat, i \in Nat : Names(p, s, i)' =>
               \/ Names(p, s, i)
               \/ /\ i \in 1 .. Len(procs) /\ procs[i].pid = p
                  /\ \A t \in Nat : Exited(p, t)' => t < s,
           \A p \in Pid, s \in Nat : Exited(p, s)' =>
               Aged(p, s)' /\ (Exited(p, s) \/ holder[p] = 0)
    PROVE  ExitParts'
<1>1. TypeOK /\ HolderTrue /\ NamesTrue /\ QueueTrue /\ LivingLater
  BY DEF ExitInv, ExitParts
<1>2. /\ Len(procs) <= Len(procs') /\ Len(procs') \in Nat
      /\ \A i \in 1 .. Len(procs) : procs'[i].pid = procs[i].pid /\ (Alive(i)' => Alive(i))
  BY <1>1, SameLives
<1>3. NamesTrue' /\ ExitsAged' /\ LivingLater'
  BY <1>1, <1>2, NamesAndExits
<1>4. QueueTrue' /\ HolderTrue'
  BY <1>1, ReadTrue DEF HolderTrue
<1> QED
  BY <1>3, <1>4 DEF ExitParts

(* Reading the queue ages nothing. *)
LEMMA HeardStays ==
    ASSUME TypeOK, UNCHANGED holder,
           netlink' = netlink \/ (netlink # <<>> /\ netlink' = Tail(netlink)),
           NEW p, LastHeard(p)
    PROVE  LastHeard(p)'
<1>1. CASE netlink' = netlink
  BY <1>1 DEF LastHeard
<1>2. CASE netlink # <<>> /\ netlink' = Tail(netlink)
  BY <1>2, TailQueue DEF LastHeard
<1> QED
  BY <1>1, <1>2

(* The rows as they were: nothing is closed. *)
LEMMA NoneClosed ==
    ASSUME ExitInv, UNCHANGED <<procs, holder, rows>>
    PROVE  ClosedMeansGone'
<1>1. TypeOK /\ NamesTrue /\ ClosedMeansGone
  BY DEF ExitInv, ExitParts
<1> QED
  BY <1>1, SameLives, ClosedStays

(* A key of an exit names no running process. *)
LEMMA ExitedIsGone ==
    ASSUME ExitInv, NEW r \in rows, Exited(r.pid, r.start)
    PROVE  ~Alive(r.inc)
<1>1. r.pid \in Pid /\ r.start \in Nat /\ r.inc \in Nat
  BY DEF ExitInv, TypeOK, DaemonTypeOK, ProcRow
<1>2. Names(r.pid, r.start, r.inc)
  BY DEF Names
<1>3. Alive(r.inc) => r.start < r.start
  BY <1>1, <1>2 DEF ExitInv, ExitParts, LivingLater
<1> QED
  BY <1>1, <1>3

(* Closing the rows under a key of an exit is right. *)
LEMMA RightClosed ==
    ASSUME ExitInv, UNCHANGED <<procs, holder>>, NEW p, NEW s, NEW x,
           rows' = RecordExitAt(rows, p, s, x), Exited(p, s)
    PROVE  ClosedMeansGone'
<1>1. TypeOK /\ NamesTrue /\ ClosedMeansGone /\ rows \in SUBSET ProcRow
  BY DEF ExitInv, ExitParts, TypeOK, DaemonTypeOK
<1>2. SUFFICES ASSUME NEW q \in rows', q.exit # None PROVE ~Alive(q.inc)'
  BY DEF ClosedMeansGone
<1>3. PICK r \in rows : q.inc = r.inc /\ (q.exit = r.exit \/ (r.pid = p /\ r.start = s))
  BY <1>1, RecordExitAtCloses
<1>4. ~Alive(r.inc)
  BY <1>1, <1>2, <1>3, ExitedIsGone DEF ClosedMeansGone
<1> QED
  BY <1>3, <1>4 DEF Alive

(* A step that touches neither names nor exits. *)
LEMMA QuietExits ==
    ASSUME ExitInv, UNCHANGED <<now, procs, holder, tree, chain, rows, closing>>,
           netlink' = netlink \/ (netlink # <<>> /\ netlink' = Tail(netlink)),
           \A w \in Watcher : pc'[w] = "exit" => pc[w] = "exit"
    PROVE  ExitParts'
<1>1. TypeOK /\ NodeTimes /\ ExitsAged /\ LinkExited
  BY DEF ExitInv, ExitParts
<1>2. /\ \A p, s, i : Names(p, s, i)' => Names(p, s, i)
      /\ \A p, s : Exited(p, s)' => Exited(p, s)
  BY SameNames, SameExits
<1>3. \A p \in Pid, s \in Nat : Exited(p, s)' => Aged(p, s)'
  BY <1>1, <1>2, HeardStays DEF ExitsAged, Aged
<1>4. NodeTimes' /\ LinkExited' /\ ClosedMeansGone'
  BY <1>1, NoneClosed DEF NodeTimes, LinkExited
<1> QED
  BY <1>2, <1>3, <1>4, StepExits

LEMMA QuietWatcher ==
    ASSUME ExitInv, NEW w \in Watcher,
           \/ Watch(w) \/ IgnoreOwn(w) \/ Stamp(w) \/ RecordEvent(w) \/ AppendLog(w)
           \/ ReadError(w) \/ DropEvent(w)
    PROVE  ExitParts'
<1>1. UNCHANGED <<now, procs, holder, netlink, tree, chain, rows, closing>>
  BY DEF Watch, IgnoreOwn, Stamp, RecordEvent, AppendLog, ReadError, DropEvent,
         kernelVars, daemonVars, threadVars
<1>2. \A v \in Watcher : pc'[v] = "exit" => pc[v] = "exit"
  BY DEF Watch, IgnoreOwn, Stamp, RecordEvent, AppendLog, ReadError, DropEvent,
         daemonVars, threadVars, ExitInv, TypeOK, DaemonTypeOK
<1> QED
  BY <1>1, <1>2, QuietExits

LEMMA TakeEventExits ==
    ASSUME ExitInv, NEW w \in Watcher, TakeEvent(w)
    PROVE  ExitParts'
<1>1. TypeOK /\ NodeTimes /\ ExitsAged /\ LinkExited
  BY DEF ExitInv, ExitParts
<1>2. UNCHANGED <<now, procs, holder, netlink, tree, rows, closing>> /\ pc[w] = "idle"
  BY DEF TakeEvent
<1>3. PICK e \in Event : e = Head(fanotify[w]) /\ e.pid \in Pid
  BY <1>1, QueueReads DEF TakeEvent, Event
<1>4. \/ UNCHANGED chain
      \/ \E c \in Climbs(tree, e.pid) : chain' = [chain EXCEPT ![w] = ChainOf(tree, c)]
  BY <1>3 DEF TakeEvent
<1>5. \A v \in Watcher : \A i \in 1 .. Len(chain'[v]) :
         \/ \E k \in 1 .. Len(chain[v]) : chain'[v][i] = chain[v][k]
         \/ tree[chain'[v][i].pid] # None /\ chain'[v][i].node = tree[chain'[v][i].pid]
  <2>1. CASE UNCHANGED chain
    BY <2>1
  <2>2. ASSUME NEW c \in Climbs(tree, e.pid), chain' = [chain EXCEPT ![w] = ChainOf(tree, c)]
        PROVE  <1>5
    <3>1. \A i \in 1 .. Len(ChainOf(tree, c)) :
             /\ tree[ChainOf(tree, c)[i].pid] # None
             /\ ChainOf(tree, c)[i].node = tree[ChainOf(tree, c)[i].pid]
      BY <1>1, <1>3, <2>2, ChainOfClimb DEF TypeOK, DaemonTypeOK
    <3>2. chain'[w] = ChainOf(tree, c) /\ \A v \in Watcher \ {w} : chain'[v] = chain[v]
      BY <1>1, <2>2 DEF TypeOK, DaemonTypeOK
    <3> QED
      BY <3>1, <3>2
  <2> QED
    BY <1>4, <2>1, <2>2
<1>6. \A p, s, i : Names(p, s, i)' => Names(p, s, i)
  BY <1>2, <1>5 DEF Names
<1>7. \A p, s : Exited(p, s)' => Exited(p, s)
  BY <1>2, <1>5 DEF Exited
<1>8. \A p \in Pid, s \in Nat : Exited(p, s)' => Aged(p, s)'
  BY <1>1, <1>2, <1>7 DEF ExitsAged, Aged, LastHeard
<1>9. \A v \in Watcher : pc'[v] = "exit" => pc[v] = "exit" /\ chain'[v] = chain[v]
  BY <1>1, <1>2 DEF TakeEvent, AfterChain, TypeOK, DaemonTypeOK
<1>10. NodeTimes' /\ LinkExited' /\ ClosedMeansGone'
  BY <1>1, <1>2, <1>9, NoneClosed DEF NodeTimes, LinkExited
<1> QED
  BY <1>2, <1>6, <1>7, <1>8, <1>10, StepExits

(* A write in place: no node, link or exit that was not there, and no row  *)
(* with another name than a row or a link had.                             *)
LEMMA WritesInPlace ==
    ASSUME ExitInv, UNCHANGED <<now, procs, holder>>,
           netlink' = netlink \/ (netlink # <<>> /\ netlink' = Tail(netlink)),
           closing' = closing \/ closing' = NoClosing,
           \A p \in Pid : \/ tree[p] = None /\ tree'[p] = None
                         \/ /\ tree[p] # None /\ tree'[p] # None
                            /\ tree'[p].start = tree[p].start /\ tree'[p].inc = tree[p].inc
                            /\ tree'[p].exited = tree[p].exited,
           \A v \in Watcher : \A i \in 1 .. Len(chain'[v]) :
               \E k \in 1 .. Len(chain[v]) : chain'[v][i] = chain[v][k],
           \A q \in rows' :
               \/ \E r \in rows : q.pid = r.pid /\ q.start = r.start /\ q.inc = r.inc
               \/ \E v \in Watcher : \E k \in 1 .. Len(chain[v]) :
                     /\ q.pid = chain[v][k].pid /\ q.start = chain[v][k].node.start
                     /\ q.inc = chain[v][k].node.inc,
           LinkExited', ClosedMeansGone'
    PROVE  ExitParts'
<1>1. TypeOK /\ NodeTimes /\ ExitsAged
  BY DEF ExitInv, ExitParts
<1>2. ASSUME NEW p \in Pid, NEW s \in Nat, NEW i \in Nat, Names(p, s, i)'
      PROVE  Names(p, s, i)
  <2>1. CASE tree'[p] # None /\ tree'[p].start = s /\ tree'[p].inc = i
    BY <2>1 DEF Names
  <2>2. ASSUME NEW v \in Watcher, NEW k \in 1 .. Len(chain'[v]), chain'[v][k].pid = p,
               chain'[v][k].node.start = s, chain'[v][k].node.inc = i
        PROVE  Names(p, s, i)
    <3>1. PICK l \in 1 .. Len(chain[v]) : chain'[v][k] = chain[v][l]
      OBVIOUS
    <3> QED
      BY <2>2, <3>1 DEF Names
  <2>3. ASSUME NEW q \in rows', q.pid = p, q.start = s, q.inc = i
        PROVE  Names(p, s, i)
    <3>1. CASE \E r \in rows : q.pid = r.pid /\ q.start = r.start /\ q.inc = r.inc
      BY <2>3, <3>1 DEF Names
    <3>2. CASE \E v \in Watcher : \E k \in 1 .. Len(chain[v]) :
                 /\ q.pid = chain[v][k].pid /\ q.start = chain[v][k].node.start
                 /\ q.inc = chain[v][k].node.inc
      BY <2>3, <3>2 DEF Names
    <3> QED
      BY <3>1, <3>2
  <2> QED
    BY <1>2, <2>1, <2>2, <2>3 DEF Names
<1>3. ASSUME NEW p \in Pid, NEW s \in Nat, Exited(p, s)' PROVE Exited(p, s)
  <2>1. CASE tree'[p] # None /\ tree'[p].start = s /\ tree'[p].exited # None
    BY <2>1 DEF Exited
  <2>2. ASSUME NEW v \in Watcher, NEW k \in 1 .. Len(chain'[v]), chain'[v][k].pid = p,
               chain'[v][k].node.start = s, chain'[v][k].node.exited # None
        PROVE  Exited(p, s)
    <3>1. PICK l \in 1 .. Len(chain[v]) : chain'[v][k] = chain[v][l]
      OBVIOUS
    <3> QED
      BY <2>2, <3>1 DEF Exited
  <2>3. CASE closing'.pid = p /\ closing'.start = s
    BY <2>3, PidAssumption DEF Exited, NoClosing
  <2> QED
    BY <1>3, <2>1, <2>2, <2>3 DEF Exited
<1>4. ASSUME NEW p \in Pid, NEW s \in Nat, Exited(p, s)' PROVE Aged(p, s)'
  <2>1. Aged(p, s)
    BY <1>1, <1>3, <1>4 DEF ExitsAged
  <2> QED
    BY <1>1, <2>1, HeardStays DEF Aged
<1>5. NodeTimes'
  <2>1. SUFFICES ASSUME NEW p \in Pid, tree'[p] # None
                 PROVE  /\ tree'[p].start <= now
                        /\ tree'[p].exited # None => tree'[p].start <= tree'[p].exited
    BY DEF NodeTimes
  <2>2. /\ tree[p] # None /\ tree'[p].start = tree[p].start
        /\ tree'[p].exited = tree[p].exited
    BY <2>1
  <2> QED
    BY <1>1, <2>2 DEF NodeTimes
<1> QED
  BY <1>2, <1>3, <1>4, <1>5, StepExits

LEMMA InsertRowExits ==
    ASSUME ExitInv, NEW w \in Watcher, InsertRow(w)
    PROVE  ExitParts'
<1>1. /\ TypeOK /\ NamesTrue /\ LinkExited /\ ClosedMeansGone
      /\ pc[w] = "insert" /\ chain[w] # <<>>
  BY DEF ExitInv, ExitParts, InsertRow, TypeOK, DaemonTypeOK
<1>2. UNCHANGED <<now, procs, holder, netlink, closing, tree>>
  BY DEF InsertRow
<1>3. CASE /\ chain' = [chain EXCEPT ![w] = Tail(@)]
           /\ pc' = [pc EXCEPT ![w] = AfterChain(Tail(chain[w]))]
           /\ UNCHANGED rows
  <2>1. /\ \A v \in Watcher : \A i \in 1 .. Len(chain'[v]) :
              \E k \in 1 .. Len(chain[v]) : chain'[v][i] = chain[v][k]
        /\ \A v \in Watcher : pc'[v] \in {"exit", "mark"} =>
              pc[v] \in {"exit", "mark"} /\ chain'[v] = chain[v]
    BY <1>1, <1>3, ChainShrinks
  <2>2. \A v \in Watcher : pc'[v] = "exit" => pc[v] = "exit" /\ chain'[v] = chain[v]
    <3>1. PICK l : l = AfterChain(Tail(chain[w]))
      OBVIOUS
    <3>2. l # "exit" /\ pc' = [pc EXCEPT ![w] = l]
      BY <1>3, <3>1 DEF AfterChain
    <3>3. \A v \in Watcher : pc'[v] = "exit" => pc[v] = "exit"
      BY <1>1, <3>2 DEF TypeOK, DaemonTypeOK
    <3> QED
      BY <2>1, <3>3
  <2>3. LinkExited'
    BY <1>1, <2>2 DEF LinkExited
  <2>4. ClosedMeansGone'
    BY <1>2, <1>3, NoneClosed
  <2> QED
    BY <1>2, <1>3, <2>1, <2>3, <2>4, WritesInPlace
<1>4. CASE /\ rows' = RecordExisting(rows, Head(chain[w]).pid, Head(chain[w]).node)
           /\ pc' = [pc EXCEPT ![w] = IF Head(chain[w]).node.exited = None
                                     THEN "mark" ELSE "exit"]
           /\ UNCHANGED chain
  <2>1. PICK item : item = Head(chain[w])
    OBVIOUS
  <2>2. 1 \in 1 .. Len(chain[w]) /\ item = chain[w][1]
    BY <1>1, <2>1 DEF TypeOK, DaemonTypeOK
  <2>3. item.pid \in Pid /\ item.node \in ProcNode /\ rows \in SUBSET ProcRow
    BY <1>1, <2>1, HeadOfChain DEF TypeOK, DaemonTypeOK
  <2>4. \A q \in rows' :
           \/ q \in rows
           \/ /\ q.pid = item.pid /\ q.start = item.node.start /\ q.inc = item.node.inc
              /\ q.exit = None
    BY <1>4, <2>1, <2>3, RecordExistingStores
  <2>5. LinkExited'
    <3>1. ASSUME NEW v \in Watcher, pc'[v] = "exit" PROVE Head(chain[v]).node.exited # None
      <4>1. CASE v = w
        BY <1>1, <1>4, <3>1, <4>1 DEF TypeOK, DaemonTypeOK
      <4>2. CASE v # w
        BY <1>1, <1>4, <3>1, <4>2 DEF TypeOK, DaemonTypeOK, LinkExited
      <4> QED
        BY <4>1, <4>2
    <3> QED
      BY <1>4, <3>1 DEF LinkExited
  <2>6. ClosedMeansGone'
    <3>1. \A q \in rows' : q.exit = None \/ (\E r \in rows : q.exit = r.exit /\ q.inc = r.inc)
      BY <2>4
    <3> QED
      BY <1>1, <1>2, <3>1, SameLives, ClosedStays
  <2>7. \A q \in rows' :
           \/ \E r \in rows : q.pid = r.pid /\ q.start = r.start /\ q.inc = r.inc
           \/ \E v \in Watcher : \E k \in 1 .. Len(chain[v]) :
                 /\ q.pid = chain[v][k].pid /\ q.start = chain[v][k].node.start
                 /\ q.inc = chain[v][k].node.inc
    BY <2>2, <2>4
  <2>8. \A v \in Watcher : \A i \in 1 .. Len(chain'[v]) :
           \E k \in 1 .. Len(chain[v]) : chain'[v][i] = chain[v][k]
    BY <1>4
  <2> QED
    BY <1>2, <2>5, <2>6, <2>7, <2>8, WritesInPlace
<1> QED
  BY <1>3, <1>4 DEF InsertRow

LEMMA WriteExitExits ==
    ASSUME ExitInv, NEW w \in Watcher, WriteExit(w)
    PROVE  ExitParts'
<1>1. /\ TypeOK /\ LinkExited /\ pc[w] = "exit" /\ chain[w] # <<>>
  BY DEF ExitInv, ExitParts, WriteExit, TypeOK, DaemonTypeOK
<1>2. UNCHANGED <<now, procs, holder, netlink, closing, tree, chain>>
  BY DEF WriteExit
<1>3. PICK item : item = Head(chain[w])
  OBVIOUS
<1>4. 1 \in 1 .. Len(chain[w]) /\ item = chain[w][1]
  BY <1>1, <1>3 DEF TypeOK, DaemonTypeOK
<1>5. item.node.exited # None /\ item.node.exited \in Option(Nat)
  BY <1>1, <1>3, HeadOfChain DEF LinkExited, TypeOK, DaemonTypeOK
<1>6. Exited(item.pid, item.node.start)
  BY <1>4, <1>5 DEF Exited
<1>7. LinkExited'
  BY <1>1, <1>2 DEF WriteExit, LinkExited, TypeOK, DaemonTypeOK
<1>8. CASE UNCHANGED rows
  <2>1. ClosedMeansGone'
    BY <1>2, <1>8, NoneClosed
  <2> QED
    BY <1>2, <1>7, <1>8, <2>1, WritesInPlace
<1>9. CASE rows' = RecordExitAt(rows, item.pid, item.node.start, item.node.exited)
  <2>1. ClosedMeansGone'
    BY <1>2, <1>6, <1>9, RightClosed
  <2>2. \A q \in rows' : \E r \in rows : q.pid = r.pid /\ q.start = r.start /\ q.inc = r.inc
    <3>1. rows \in SUBSET ProcRow
      BY <1>1 DEF TypeOK, DaemonTypeOK
    <3> QED
      BY <1>5, <1>9, <3>1, RecordExitAtKeeps
  <2> QED
    BY <1>2, <1>7, <2>1, <2>2, WritesInPlace
<1> QED
  BY <1>3, <1>8, <1>9 DEF WriteExit

LEMMA MarkExits ==
    ASSUME ExitInv, NEW w \in Watcher, Mark(w)
    PROVE  ExitParts'
<1>1. /\ TypeOK /\ LinkExited /\ pc[w] = "mark" /\ chain[w] # <<>> /\ tree \in Tables
  BY DEF ExitInv, ExitParts, Mark, TypeOK, DaemonTypeOK
<1>2. UNCHANGED <<now, procs, holder, netlink, closing, rows>>
  BY DEF Mark, kernelVars
<1>3. PICK p \in Pid : tree' = MarkPersisted(tree, p)
  BY <1>1, HeadOfChain DEF Mark
<1>4. \A q \in Pid : \/ tree[q] = None /\ tree'[q] = None
                     \/ /\ tree[q] # None /\ tree'[q] # None
                        /\ tree'[q].start = tree[q].start /\ tree'[q].inc = tree[q].inc
                        /\ tree'[q].exited = tree[q].exited
  <2>1. \A q \in Pid \ {p} : tree'[q] = tree[q]
    BY <1>1, <1>3, MarkPersistedTable
  <2>2. /\ tree[p] = None => tree'[p] = None
        /\ tree[p] # None => /\ tree'[p] # None /\ tree'[p].start = tree[p].start
                             /\ tree'[p].inc = tree[p].inc
                             /\ tree'[p].exited = tree[p].exited
    BY <1>1, <1>3, MarkPersistedTable
  <2> QED
    BY <2>1, <2>2
<1>5. /\ \A v \in Watcher : \A i \in 1 .. Len(chain'[v]) :
            \E k \in 1 .. Len(chain[v]) : chain'[v][i] = chain[v][k]
      /\ \A v \in Watcher : pc'[v] \in {"exit", "mark"} =>
            pc[v] \in {"exit", "mark"} /\ chain'[v] = chain[v]
  BY <1>1, ChainShrinks DEF Mark
<1>6. LinkExited'
  <2>1. PICK l : l = AfterChain(Tail(chain[w]))
    OBVIOUS
  <2>2. l # "exit" /\ pc' = [pc EXCEPT ![w] = l]
    BY <2>1 DEF AfterChain, Mark
  <2>3. \A v \in Watcher : pc'[v] = "exit" => pc[v] = "exit"
    BY <1>1, <2>2 DEF TypeOK, DaemonTypeOK
  <2> QED
    BY <1>1, <1>5, <2>3 DEF LinkExited
<1>7. ClosedMeansGone'
  BY <1>2, NoneClosed
<1>8. \A q \in rows' : \E r \in rows : q.pid = r.pid /\ q.start = r.start /\ q.inc = r.inc
  BY <1>2
<1> QED
  BY <1>2, <1>4, <1>5, <1>6, <1>7, <1>8, WritesInPlace

-----------------------------------------------------------------------------
(* The connector.  A message that is read was not the last of its pid yet: *)
(* an exit of an earlier life is of an earlier second.                     *)
LEMMA EarlierExit ==
    ASSUME ExitInv, NEW kind, Receives(kind), NEW p \in Pid, p = Head(netlink).pid,
           NEW s \in Nat, Exited(p, s)
    PROVE  s < now
<1>1. 1 \in 1 .. Len(netlink) /\ netlink[1].pid = p
  BY ReadsQueue DEF ExitInv
<1>2. Aged(p, s)
  BY DEF ExitInv, ExitParts, ExitsAged
<1> QED
  BY <1>1, <1>2 DEF Aged, LastHeard

LEMMA NewNodeExits ==
    ASSUME ExitInv, UNCHANGED <<now, procs, holder, chain, rows, pc, closing>>,
           NEW kind \in {"fork", "exec"}, Receives(kind),
           NEW p \in Pid, NEW n, p = Head(netlink).pid, n = Head(netlink).inc,
           NEW ppid, NEW info,
           tree'[p] = NewNode(ppid, info, now, n),
           \A x \in Pid \ {p} : tree'[x] = tree[x]
    PROVE  ExitParts'
<1>1. TypeOK /\ NodeTimes /\ ExitsAged /\ LinkExited /\ now \in Nat
  BY DEF ExitInv, ExitParts, TypeOK, KernelTypeOK
<1>2. /\ 1 \in 1 .. Len(netlink) /\ netlink[1].pid = p /\ netlink[1].kind = kind
      /\ netlink[1].inc = n
  BY <1>1, ReadsQueue
<1>3. n \in 1 .. Len(procs) /\ procs[n].pid = p
  <2>1. netlink[1] # Overrun
    BY <1>1, <1>2, MessageType
  <2> QED
    BY <1>2, <2>1 DEF ExitInv, ExitParts, QueueTrue
<1>4. tree'[p].start = now /\ tree'[p].inc = n /\ tree'[p].exited = None
  BY DEF NewNode
<1>5. ASSUME NEW x \in Pid, NEW s \in Nat, Exited(x, s)' PROVE Exited(x, s)
  BY <1>4, <1>5 DEF Exited
<1>6. ASSUME NEW x \in Pid, NEW s \in Nat, Exited(x, s)' PROVE Aged(x, s)'
  <2>1. Exited(x, s)
    BY <1>5, <1>6
  <2>2. CASE x = p
    <3>1. s < now
      BY <2>1, <2>2, EarlierExit
    <3> QED
      BY <3>1 DEF Aged
  <2>3. CASE x # p
    <3>1. Aged(x, s)
      BY <1>1, <2>1 DEF ExitsAged
    <3>2. LastHeard(x) => LastHeard(x)'
      BY <1>1, HeardStays DEF Receives
    <3> QED
      BY <2>3, <3>1, <3>2 DEF Aged
  <2> QED
    BY <2>2, <2>3
<1>7. ASSUME NEW x \in Pid, NEW s \in Nat, NEW i \in Nat, Names(x, s, i)'
      PROVE  Names(x, s, i) \/ (x = p /\ s = now /\ i = n)
  BY <1>4, <1>7 DEF Names
<1>8. \A t \in Nat : Exited(p, t)' => t < now
  BY <1>5, EarlierExit
<1>9. NodeTimes'
  BY <1>1, <1>4 DEF NodeTimes
<1>10. LinkExited' /\ ClosedMeansGone'
  BY <1>1, NoneClosed DEF LinkExited
<1>11. \A x \in Pid, s \in Nat, i \in Nat : Names(x, s, i)' =>
          \/ Names(x, s, i)
          \/ /\ i \in 1 .. Len(procs) /\ procs[i].pid = x
             /\ \A t \in Nat : Exited(x, t)' => t < s
  BY <1>3, <1>7, <1>8
<1>12. \A x \in Pid, s \in Nat : Exited(x, s)' => Aged(x, s)' /\ Exited(x, s)
  BY <1>5, <1>6
<1>13. netlink # <<>> /\ netlink' = Tail(netlink)
  BY DEF Receives
<1> QED
  BY <1>9, <1>10, <1>11, <1>12, <1>13, StepExits

LEMMA RecvForkExits == ExitInv /\ RecvFork => ExitParts'
<1> SUFFICES ASSUME ExitInv, RecvFork PROVE ExitParts'
  OBVIOUS
<1>1. TypeOK /\ Receives("fork")
  BY DEF ExitInv, RecvFork
<1>2. PICK p \in Pid, q \in Option(Pid), n \in Nat :
         p = Head(netlink).pid /\ q = Head(netlink).parent /\ n = Head(netlink).inc
  BY <1>1, HeadOfNetlink
<1>3. tree' = OnFork(tree, q, p, now, n) /\ tree \in Tables /\ now \in Nat
  BY <1>1, <1>2 DEF RecvFork, TypeOK, KernelTypeOK, DaemonTypeOK
<1>4. tree'[p] = NewNode(q, None, now, n) /\ \A x \in Pid \ {p} : tree'[x] = tree[x]
  BY <1>3, OnForkTable
<1>5. UNCHANGED <<now, procs, holder, chain, rows, pc, closing>>
  BY DEF RecvFork, threadVars
<1> QED
  BY <1>1, <1>2, <1>4, <1>5, NewNodeExits

LEMMA RecvExecExits == ExitInv /\ RecvExec => ExitParts'
<1> SUFFICES ASSUME ExitInv, RecvExec PROVE ExitParts'
  OBVIOUS
<1>1. TypeOK /\ Receives("exec")
  BY DEF ExitInv, RecvExec
<1>2. PICK p \in Pid, n \in Nat : p = Head(netlink).pid /\ n = Head(netlink).inc
  BY <1>1, HeadOfNetlink
<1>3. PICK im \in Option(Image), q \in Option(Pid) : im = ProcImage(p) /\ q = ProcParent(p)
  BY <1>1, ProcReads
<1>4. tree' = OnExec(tree, p, im, q, now, n) /\ tree \in Tables /\ now \in Nat
  BY <1>1, <1>2, <1>3 DEF RecvExec, TypeOK, KernelTypeOK, DaemonTypeOK
<1>5. /\ \A x \in Pid \ {p} : tree'[x] = tree[x]
      /\ tree[p] = None => tree'[p] = NewNode(q, im, now, n)
      /\ tree[p] # None => /\ tree'[p] # None
                           /\ tree'[p].start = tree[p].start
                           /\ tree'[p].inc = tree[p].inc
                           /\ tree'[p].exited = tree[p].exited
  BY <1>4, OnExecTable
<1>6. UNCHANGED <<now, procs, holder, chain, rows, pc, closing>>
  BY DEF RecvExec, threadVars
<1>7. CASE tree[p] # None
  <2>1. \A x \in Pid : \/ tree[x] = None /\ tree'[x] = None
                       \/ /\ tree[x] # None /\ tree'[x] # None
                          /\ tree'[x].start = tree[x].start /\ tree'[x].inc = tree[x].inc
                          /\ tree'[x].exited = tree[x].exited
    BY <1>5, <1>7
  <2>2. LinkExited' /\ ClosedMeansGone'
    BY <1>6, NoneClosed DEF ExitInv, ExitParts, LinkExited
  <2>3. netlink # <<>> /\ netlink' = Tail(netlink)
    BY <1>1 DEF Receives
  <2>4. /\ \A v \in Watcher : \A i \in 1 .. Len(chain'[v]) :
              \E k \in 1 .. Len(chain[v]) : chain'[v][i] = chain[v][k]
        /\ \A x \in rows' : \E r \in rows : x.pid = r.pid /\ x.start = r.start /\ x.inc = r.inc
    BY <1>6
  <2> QED
    BY <1>6, <2>1, <2>2, <2>3, <2>4, WritesInPlace
<1>8. CASE tree[p] = None
  BY <1>1, <1>2, <1>5, <1>6, <1>8, NewNodeExits
<1> QED
  BY <1>7, <1>8

(* The exit of a tracked process: its pid is free, and the key under which *)
(* the row is closed next is that of the table.                            *)
LEMMA RecvExitExits == ExitInv /\ RecvExit => ExitParts'
<1> SUFFICES ASSUME ExitInv, RecvExit PROVE ExitParts'
  OBVIOUS
<1>1. /\ TypeOK /\ NodeTimes /\ ExitsAged /\ LinkExited /\ Receives("exit")
      /\ tree \in Tables /\ now \in Nat
  BY DEF ExitInv, ExitParts, RecvExit, TypeOK, KernelTypeOK, DaemonTypeOK
<1>2. PICK p \in Pid : p = Head(netlink).pid
  BY <1>1, HeadOfNetlink
<1>3. /\ Len(netlink) \in Nat /\ 1 \in 1 .. Len(netlink)
      /\ netlink[1].pid = p /\ netlink[1].kind = "exit"
      /\ Len(netlink') = Len(netlink) - 1
      /\ \A i \in 1 .. Len(netlink') : i + 1 \in 1 .. Len(netlink) /\ netlink'[i] = netlink[i + 1]
  BY <1>1, <1>2, ReadsQueue
<1>4. /\ UNCHANGED <<now, procs, holder, chain, rows, pc>>
      /\ netlink # <<>> /\ netlink' = Tail(netlink)
  BY <1>1 DEF RecvExit, Receives, threadVars
<1>5. tree' = OnExit(tree, p, now)
  BY <1>2 DEF RecvExit
<1>6. CASE tree[p] = None
  <2>1. UNCHANGED <<tree, closing>>
    BY <1>2, <1>5, <1>6 DEF RecvExit, OnExit, ExitWriteThrough
  <2> QED
    BY <1>4, <2>1, QuietExits
<1>7. CASE tree[p] # None
  <2>1. LastHeard(p)'
    <3>1. netlink[1] # Overrun
      BY <1>1, <1>3, MessageType
    <3>2. holder[p] = 0 /\ \A j \in 2 .. Len(netlink) : netlink[j].pid # p
      BY <1>3, <3>1 DEF ExitInv, ExitParts, QueueTrue
    <3>3. \A i \in 1 .. Len(netlink') : i + 1 \in 2 .. Len(netlink)
      BY <1>3
    <3> QED
      BY <1>3, <1>4, <3>2, <3>3 DEF LastHeard
  <2>2. /\ \A x \in Pid \ {p} : tree'[x] = tree[x]
        /\ tree'[p] # None /\ tree'[p].start = tree[p].start /\ tree'[p].inc = tree[p].inc
        /\ tree'[p].exited = now
    BY <1>1, <1>5, <1>7, OnExitTable
  <2>3. \/ UNCHANGED closing
        \/ closing'.pid = p /\ closing'.start = tree[p].start
    <3>1. ExitWriteThrough(tree, p) # None => ExitWriteThrough(tree, p) = tree[p].start
      BY DEF ExitWriteThrough
    <3> QED
      BY <1>2, <3>1 DEF RecvExit
  <2>4. ASSUME NEW x \in Pid, NEW s \in Nat, Exited(x, s)'
        PROVE  Exited(x, s) \/ (x = p /\ s = tree[p].start)
    BY <1>4, <2>2, <2>3, <2>4 DEF Exited
  <2>5. ASSUME NEW x \in Pid, NEW s \in Nat, Exited(x, s)' PROVE Aged(x, s)'
    <3>1. CASE x = p /\ s = tree[p].start
      BY <2>1, <2>2, <3>1 DEF Aged
    <3>2. CASE Exited(x, s)
      <4>1. Aged(x, s)
        BY <1>1, <3>2 DEF ExitsAged
      <4>2. LastHeard(x) => LastHeard(x)'
        BY <1>1, <1>4, HeardStays
      <4>3. tree[x] # None /\ tree[x].start = s => tree'[x] # None /\ tree'[x].start = s
        BY <2>2
      <4> QED
        BY <1>4, <4>1, <4>2, <4>3 DEF Aged
    <3> QED
      BY <2>4, <2>5, <3>1, <3>2
  <2>6. \A x \in Pid, s \in Nat : Exited(x, s)' => Aged(x, s)' /\ (Exited(x, s) \/ holder[x] = 0)
    BY <1>4, <2>1, <2>4, <2>5 DEF LastHeard
  <2>7. \A x \in Pid, s \in Nat, i \in Nat : Names(x, s, i)' => Names(x, s, i)
    BY <1>4, <1>7, <2>2 DEF Names
  <2>8. NodeTimes'
    BY <1>1, <1>4, <1>7, <2>2 DEF NodeTimes
  <2>9. LinkExited' /\ ClosedMeansGone'
    BY <1>1, <1>4, NoneClosed DEF LinkExited
  <2> QED
    BY <1>4, <2>6, <2>7, <2>8, <2>9, StepExits
<1> QED
  BY <1>6, <1>7

LEMMA CloseRowExits == ExitInv /\ CloseRow => ExitParts'
<1> SUFFICES ASSUME ExitInv, CloseRow PROVE ExitParts'
  OBVIOUS
<1>1. UNCHANGED <<now, procs, holder, netlink, tree, chain, pc>> /\ closing' = NoClosing
  BY DEF CloseRow, threadVars
<1>2. LinkExited'
  BY <1>1 DEF ExitInv, ExitParts, LinkExited
<1>3. \A v \in Watcher : \A i \in 1 .. Len(chain'[v]) :
         \E k \in 1 .. Len(chain[v]) : chain'[v][i] = chain[v][k]
  BY <1>1
<1>4. CASE UNCHANGED rows
  <2>1. ClosedMeansGone'
    BY <1>1, <1>4, NoneClosed
  <2> QED
    BY <1>1, <1>2, <1>3, <1>4, <2>1, WritesInPlace
<1>5. CASE rows' = RecordExitAt(rows, closing.pid, closing.start, closing.exit)
  <2>1. ClosedMeansGone'
    BY <1>1, <1>5, RightClosed DEF Exited
  <2>2. \A q \in rows' : \E r \in rows : q.pid = r.pid /\ q.start = r.start /\ q.inc = r.inc
    <3>1. rows \in SUBSET ProcRow /\ closing.exit \in Option(Nat)
      BY DEF ExitInv, TypeOK, DaemonTypeOK, Option
    <3> QED
      BY <1>5, <3>1, RecordExitAtKeeps
  <2> QED
    BY <1>1, <1>2, <1>3, <2>1, <2>2, WritesInPlace
<1> QED
  BY <1>4, <1>5 DEF CloseRow

LEMMA QuietConnector == ExitInv /\ (Listen \/ RecvOverrun) => ExitParts'
  BY QuietExits DEF Listen, RecvOverrun, Receives, threadVars

(* A node goes when the grace of its exit is over: an exit of that key,    *)
(* should a chain still hold it, is of an earlier second.                  *)
LEMMA EvictExits == ExitInv /\ Evict => ExitParts'
<1> SUFFICES ASSUME ExitInv, Evict PROVE ExitParts'
  OBVIOUS
<1>1. /\ TypeOK /\ NodeTimes /\ ExitsAged /\ LinkExited /\ now \in Nat /\ tree \in Tables
  BY DEF ExitInv, ExitParts, TypeOK, KernelTypeOK, DaemonTypeOK
<1>2. UNCHANGED <<now, procs, holder, netlink, chain, rows, pc, closing>>
  BY DEF Evict, kernelVars, threadVars
<1>3. ASSUME NEW p \in Pid
      PROVE  \/ tree'[p] = tree[p]
             \/ tree'[p] = None /\ tree[p] # None /\ tree[p].start < now
  <2>1. CASE /\ tree[p] # None /\ tree[p].exited # None
             /\ tree[p].exited < now - Grace
    <3>1. tree[p].start \in Nat /\ tree[p].exited \in Nat
      BY <1>1, <2>1 DEF Tables, Option, ProcNode
    <3>2. tree[p].start <= tree[p].exited
      BY <1>1, <2>1 DEF NodeTimes
    <3>3. tree'[p] = None
      BY <2>1 DEF Evict, EvictStale
    <3> QED
      BY <1>1, <2>1, <3>1, <3>2, <3>3, GraceAssumption
  <2>2. CASE ~(tree[p] # None /\ tree[p].exited # None /\ tree[p].exited < now - Grace)
    BY <2>2 DEF Evict, EvictStale
  <2> QED
    BY <2>1, <2>2
<1>4. \A p \in Pid, s \in Nat, i \in Nat : Names(p, s, i)' => Names(p, s, i)
  BY <1>2, <1>3 DEF Names
<1>5. ASSUME NEW p \in Pid, NEW s \in Nat, Exited(p, s)' PROVE Exited(p, s)
  BY <1>2, <1>3, <1>5 DEF Exited
<1>6. ASSUME NEW p \in Pid, NEW s \in Nat, Exited(p, s)' PROVE Aged(p, s)'
  <2>1. Aged(p, s)
    BY <1>1, <1>5, <1>6 DEF ExitsAged
  <2> QED
    BY <1>2, <1>3, <2>1 DEF Aged, LastHeard
<1>7. NodeTimes' /\ LinkExited' /\ ClosedMeansGone'
  BY <1>1, <1>2, <1>3, NoneClosed DEF NodeTimes, LinkExited
<1> QED
  BY <1>2, <1>4, <1>5, <1>6, <1>7, StepExits

-----------------------------------------------------------------------------
(* main() and the death of the daemon: no exit is left to be written, and  *)
(* the nodes are new.                                                      *)
LEMMA BootExits == ExitInv /\ Boot => ExitParts'
<1> SUFFICES ASSUME ExitInv, Boot PROVE ExitParts'
  OBVIOUS
<1>1. /\ TypeOK /\ HolderTrue /\ now \in Nat /\ LinkExited
  BY DEF ExitInv, ExitParts, TypeOK, KernelTypeOK
<1>2. UNCHANGED <<now, procs, holder, netlink, chain, rows, pc, closing>>
  BY DEF Boot, threadVars
<1>3. closing = NoClosing /\ \A w \in Watcher : Len(chain[w]) = 0
  BY DEF ExitInv, DownIsEmpty, ClosingOnly, Boot
<1>4. \A p \in Pid : tree'[p] # None =>
         /\ holder[p] # 0 /\ tree'[p].inc = holder[p] /\ tree'[p].start = now
         /\ tree'[p].exited = None
  BY BootNodes
<1>5. \A p \in Pid, s \in Nat : ~Exited(p, s)'
  BY <1>2, <1>3, <1>4, PidAssumption DEF Exited, NoClosing
<1>6. ASSUME NEW p \in Pid, NEW s \in Nat, NEW i \in Nat, Names(p, s, i)'
      PROVE  Names(p, s, i) \/ (i \in 1 .. Len(procs) /\ procs[i].pid = p)
  BY <1>1, <1>2, <1>4, <1>6, HolderType DEF Names, HolderTrue
<1>7. NodeTimes' /\ LinkExited' /\ ClosedMeansGone'
  BY <1>1, <1>2, <1>4, NoneClosed DEF NodeTimes, LinkExited
<1> QED
  BY <1>2, <1>5, <1>6, <1>7, StepExits

LEMMA CrashExits == ExitInv /\ Crash => ExitParts'
<1> SUFFICES ASSUME ExitInv, Crash PROVE ExitParts'
  OBVIOUS
<1>1. TypeOK /\ HolderTrue /\ NamesTrue /\ LivingLater
  BY DEF ExitInv, ExitParts
<1>2. /\ UNCHANGED <<now, procs, holder, rows>>
      /\ Len(netlink') = 0 /\ closing' = NoClosing
      /\ \A p \in Pid : tree'[p] = None
      /\ \A w \in Watcher : pc'[w] = "off" /\ Len(chain'[w]) = 0
  BY DEF Crash, EmptyTable
<1>3. \A p \in Pid, s \in Nat : ~Exited(p, s)'
  BY <1>2, PidAssumption DEF Exited, NoClosing
<1>4. \A p \in Pid, s \in Nat, i \in Nat : Names(p, s, i)' => Names(p, s, i)
  BY <1>2 DEF Names
<1>5. NamesTrue' /\ ExitsAged' /\ LivingLater'
  BY <1>1, <1>2, <1>3, <1>4, SameLives, NamesAndExits
<1>6. QueueTrue' /\ HolderTrue' /\ NodeTimes' /\ LinkExited'
  BY <1>1, <1>2 DEF QueueTrue, HolderTrue, NodeTimes, LinkExited
<1>7. ClosedMeansGone'
  BY <1>2, NoneClosed
<1> QED
  BY <1>5, <1>6, <1>7 DEF ExitParts

-----------------------------------------------------------------------------
LEMMA ClosingStays == TypeOK /\ ClosingOnly /\ [Next]_vars => ClosingOnly'
<1> SUFFICES ASSUME TypeOK, ClosingOnly, [Next]_vars PROVE ClosingOnly'
  OBVIOUS
<1>1. CASE UNCHANGED <<connector, closing>>
  BY <1>1 DEF ClosingOnly
<1>2. CASE ConnectorStep
  <2>1. CASE CloseRow
    BY <2>1 DEF CloseRow, ClosingOnly
  <2>2. CASE RecvExit
    BY <2>2 DEF RecvExit, ClosingOnly
  <2>3. CASE Listen \/ RecvFork \/ RecvExec \/ RecvOverrun
    BY <2>3 DEF Listen, RecvFork, RecvExec, RecvOverrun, Receives, ClosingOnly
  <2> QED
    BY <1>2, <2>1, <2>2, <2>3 DEF ConnectorStep
<1>3. CASE Crash
  BY <1>3 DEF Crash, ClosingOnly
<1>4. Machine \/ Boot \/ Evict => UNCHANGED <<connector, closing>>
  BY DEF Machine, daemonVars, Boot, Evict
<1>5. ASSUME NEW w \in Watcher, WatcherStep(w) \/ ReadError(w) \/ DropEvent(w)
      PROVE  UNCHANGED <<connector, closing>>
  BY <1>5 DEF WatcherStep, Watch, IgnoreOwn, TakeEvent, InsertRow, WriteExit, Mark, Stamp,
     RecordEvent, AppendLog, ReadError, DropEvent, daemonVars
<1>6. UNCHANGED vars => UNCHANGED <<connector, closing>>
  BY DEF vars, daemonVars
<1> QED
  BY <1>1, <1>2, <1>3, <1>4, <1>5, <1>6 DEF Next

LEMMA InitExitInv == Init => ExitInv
<1> SUFFICES ASSUME Init PROVE ExitInv
  OBVIOUS
<1>1. TypeOK
  BY InitType
<1>2. DownIsEmpty /\ ClosingOnly
  BY DEF Init, KernelInit, DownIsEmpty, ClosingOnly
<1>3. PICK im \in Image : procs = <<[pid |-> InitPid, parent |-> 0, image |-> im]>>
  BY DEF Init, KernelInit
<1>4. Len(procs) = 1 /\ procs[1].pid = InitPid
  BY <1>3
<1>5. \A p \in Pid : holder[p] # 0 => holder[p] = 1 /\ p = InitPid
  BY DEF Init, KernelInit
<1>6. \A p \in Pid : tree[p] = None
  BY DEF Init, EmptyTable
<1>7. /\ rows = {} /\ Len(netlink) = 0 /\ closing.pid = None
      /\ \A w \in Watcher : Len(chain[w]) = 0 /\ pc[w] = "off"
  BY DEF Init, KernelInit, NoClosing
<1>8. \A p, s, i : p \in Pid => ~Names(p, s, i) /\ ~Exited(p, s)
  BY <1>6, <1>7, PidAssumption DEF Names, Exited
<1>9. HolderTrue /\ QueueTrue /\ NodeTimes /\ LinkExited /\ ClosedMeansGone
  BY <1>4, <1>5, <1>6, <1>7 DEF HolderTrue, QueueTrue, NodeTimes, LinkExited, ClosedMeansGone
<1>10. NamesTrue /\ ExitsAged /\ LivingLater
  BY <1>8 DEF NamesTrue, ExitsAged, LivingLater
<1> QED
  BY <1>1, <1>2, <1>9, <1>10 DEF ExitInv, ExitParts

LEMMA StutterExits == ExitInv /\ UNCHANGED vars => ExitParts'
  BY QuietExits DEF vars, kernelVars, daemonVars, threadVars

LEMMA NextExitInv == ExitInv /\ [Next]_vars => ExitInv'
<1> SUFFICES ASSUME ExitInv, [Next]_vars PROVE ExitInv'
  OBVIOUS
<1>1. TypeOK' /\ DownIsEmpty' /\ ClosingOnly'
  BY NextType, DownStays, ClosingStays DEF ExitInv
<1>2. ASSUME NEW w \in Watcher, WatcherStep(w) \/ ReadError(w) \/ DropEvent(w) PROVE ExitParts'
  BY <1>2, QuietWatcher, TakeEventExits, InsertRowExits, WriteExitExits, MarkExits
  DEF WatcherStep
<1>3. ConnectorStep => ExitParts'
  BY QuietConnector, RecvForkExits, RecvExecExits, RecvExitExits, CloseRowExits
  DEF ConnectorStep
<1>4. ExitParts'
  BY <1>2, <1>3, MachineExits, BootExits, CrashExits, EvictExits, StutterExits DEF Next
<1> QED
  BY <1>1, <1>4 DEF ExitInv

(* A row is closed only when its own process is gone: an exit, which names *)
(* a bare pid and is written after the table's lock was given back, never  *)
(* closes another life of that pid (whodidd.rs:890-901, graph.rs:236-242). *)
THEOREM ExitsCloseTheirOwn == Spec => []ClosedMeansGone
<1>1. Init => ExitInv
  BY InitExitInv
<1>2. ExitInv /\ [Next]_vars => ExitInv'
  BY NextExitInv
<1>3. ExitInv => ClosedMeansGone
  BY DEF ExitInv, ExitParts
<1> QED
  BY <1>1, <1>2, <1>3, PTL DEF Spec

-----------------------------------------------------------------------------
(* No step of a running daemon forgets a node before its grace is over. *)
LEMMA ForgottenAfterGrace ==
    ASSUME TypeOK, [Next]_vars, up, up', NEW p \in Pid, tree[p] # None, tree'[p] = None
    PROVE  tree[p].exited # None /\ tree[p].exited + Grace < now
<1>1. tree \in Tables /\ now \in Nat
  BY DEF TypeOK, KernelTypeOK, DaemonTypeOK
<1>2. tree' # tree
  OBVIOUS
<1>3. CASE Evict
  <2>1. tree[p].exited # None /\ tree[p].exited < now - Grace
    BY <1>3 DEF Evict, EvictStale
  <2>2. tree[p].exited \in Nat
    BY <1>1, <2>1 DEF Tables, Option, ProcNode
  <2> QED
    BY <1>1, <2>1, <2>2, GraceAssumption
<1>4. ASSUME NEW w \in Watcher, Mark(w) PROVE FALSE
  <2>1. PICK q \in Pid : tree' = MarkPersisted(tree, q)
    BY <1>4, HeadOfChain DEF Mark, TypeOK, DaemonTypeOK
  <2> QED
    BY <1>1, <2>1, MarkPersistedTable
<1>5. ASSUME RecvFork PROVE FALSE
  <2>1. PICK q \in Pid, x \in Option(Pid), n \in Nat :
           q = Head(netlink).pid /\ x = Head(netlink).parent /\ n = Head(netlink).inc
    BY <1>5, HeadOfNetlink DEF RecvFork
  <2>2. tree' = OnFork(tree, x, q, now, n)
    BY <1>5, <2>1 DEF RecvFork
  <2>3. tree'[q] = NewNode(x, None, now, n) /\ \A y \in Pid \ {q} : tree'[y] = tree[y]
    BY <1>1, <2>2, OnForkTable
  <2>4. NewNode(x, None, now, n) \in ProcNode
    BY <1>1 DEF NewNode, ProcNode, Option
  <2> QED
    BY <2>3, <2>4, NodeAssumption
<1>6. ASSUME RecvExec PROVE FALSE
  <2>1. PICK q \in Pid, n \in Nat : q = Head(netlink).pid /\ n = Head(netlink).inc
    BY <1>6, HeadOfNetlink DEF RecvExec
  <2>2. PICK im \in Option(Image), x \in Option(Pid) : im = ProcImage(q) /\ x = ProcParent(q)
    BY ProcReads
  <2>3. /\ \A y \in Pid \ {q} : tree'[y] = tree[y]
        /\ tree[q] # None => tree'[q] # None
    BY <1>1, <1>6, <2>1, <2>2, OnExecTable DEF RecvExec
  <2> QED
    BY <2>3
<1>7. ASSUME RecvExit PROVE FALSE
  <2>1. PICK q \in Pid : q = Head(netlink).pid
    BY <1>7, HeadOfNetlink DEF RecvExit
  <2> QED
    BY <1>1, <1>7, <2>1, OnExitTable DEF RecvExit
<1>8. ~Machine /\ ~Boot /\ ~Crash /\ ~UNCHANGED vars /\ ~Listen /\ ~CloseRow /\ ~RecvOverrun
  BY <1>2 DEF Machine, Boot, Crash, vars, daemonVars, Listen, CloseRow, RecvOverrun
<1>9. ASSUME NEW w \in Watcher, WatcherStep(w) \/ ReadError(w) \/ DropEvent(w) PROVE Mark(w)
  BY <1>2, <1>9 DEF WatcherStep, Watch, IgnoreOwn, TakeEvent, InsertRow, WriteExit, Stamp,
     RecordEvent, AppendLog, ReadError, DropEvent, daemonVars
<1> QED
  BY <1>3, <1>4, <1>5, <1>6, <1>7, <1>8, <1>9 DEF Next, ConnectorStep

(* "Exit marks, it does not remove" (proctree.rs:19): whatever fails and   *)
(* however the threads stand, a process leaves the table of a running      *)
(* daemon only more than Grace seconds after its exit was received.        *)
THEOREM WritersOutliveGrace == Spec => PendingWriterKept
<1>1. TypeOK /\ [Next]_vars =>
        [\A p \in Pid :
          up /\ up' /\ tree[p] # None /\ tree'[p] = None =>
              tree[p].exited # None /\ tree[p].exited + Grace < now]_vars
  BY ForgottenAfterGrace
<1> QED
  BY <1>1, TypeCorrect, PTL DEF Spec, PendingWriterKept

-----------------------------------------------------------------------------
(* What becomes of the watchers' queues: the daemon's own writes may join, *)
(* and a thread takes the first event of its own.                          *)
LEMMA OwnEchoes ==
    ASSUME TypeOK, NEW w \in Watcher, NEW i \in 1 .. Len(Echoed(fanotify)[w])
    PROVE  \/ Echoed(fanotify)[w][i].pid \notin Pid
           \/ \E k \in 1 .. Len(fanotify[w]) : Echoed(fanotify)[w][i] = fanotify[w][k]
<1>1. fanotify[w] \in Seq(Event)
  BY DEF TypeOK, KernelTypeOK
<1>2. Echoed(fanotify)[w] = Append(fanotify[w], OwnEvent) \/ Echoed(fanotify)[w] = fanotify[w]
  BY DEF Echoed
<1>3. OwnEvent.pid \notin Pid
  BY SelfAssumption DEF OwnEvent
<1> QED
  BY <1>1, <1>2, <1>3

LEMMA TookHead ==
    ASSUME TypeOK, NEW w \in Watcher, fanotify[w] # <<>>,
           fanotify' = [fanotify EXCEPT ![w] = Tail(@)]
    PROVE  /\ \A v \in Watcher : \A i \in 1 .. Len(fanotify'[v]) :
                 \E k \in 1 .. Len(fanotify[v]) : fanotify'[v][i] = fanotify[v][k]
           /\ \E k \in 1 .. Len(fanotify[w]) : Head(fanotify[w]) = fanotify[w][k]
<1>1. fanotify \in [Watcher -> Seq(Event)]
  BY DEF TypeOK, KernelTypeOK
<1>2. fanotify'[w] = Tail(fanotify[w]) /\ \A v \in Watcher \ {w} : fanotify'[v] = fanotify[v]
  BY <1>1
<1>3. /\ \A i \in 1 .. Len(Tail(fanotify[w])) :
            i + 1 \in 1 .. Len(fanotify[w]) /\ Tail(fanotify[w])[i] = fanotify[w][i + 1]
      /\ 1 \in 1 .. Len(fanotify[w]) /\ Head(fanotify[w]) = fanotify[w][1]
  BY <1>1
<1> QED
  BY <1>2, <1>3
=============================================================================
