-------------------------------- MODULE Kernel --------------------------------
(***************************************************************************)
(* What the daemon observes: the processes of the machine, and the two     *)
(* kernel queues that report on them.  None of this is in src/; it is      *)
(* modelled from how src/src/bin/whodidd.rs uses it: /proc reads, a        *)
(* fanotify group per watcher thread, and the netlink proc connector.      *)
(* The two kinds of queue are FIFO, with no order between one and another. *)
(***************************************************************************)
EXTENDS Graph

CONSTANTS
    InitPid,       \* the process every orphan is handed to; it never exits
    Self,          \* the daemon's own pid
    Watcher,       \* the fanotify groups: legacy and fid
    OwnEvents,     \* the watchers the daemon's own log and database show up in
    MaxProcs,      \* bound: processes ever created
    MaxExecs,      \* bound: execs
    MaxWrites,     \* bound: file events
    MaxTime,       \* bound: seconds
    NetlinkCap     \* messages the connector's receive buffer holds

ASSUME InitPidAssumption == InitPid \in Pid
ASSUME SelfAssumption == Self \notin Pid /\ Self # None
ASSUME OwnEventsAssumption == OwnEvents \subseteq Watcher
ASSUME BoundAssumption ==
    /\ MaxProcs \in Nat /\ MaxExecs \in Nat /\ MaxWrites \in Nat
    /\ MaxTime \in Nat /\ NetlinkCap \in Nat

VARIABLES
    now,           \* the clock, in the seconds of now_ts()
    procs,         \* history: every process ever created, in order
    holder,        \* pid -> the number of the process alive under it, 0 if free
    freed,         \* history: pid -> the second it was last freed in, if ever
    execs,         \* execs so far
    written,       \* file events so far
    netlink,       \* messages waiting in the connector's socket
    subscribed,    \* the connector's socket is listening
    missed,        \* history: a message was lost since the daemon started
    watching,      \* the watchers whose fanotify mark is in place
    fanotify       \* watcher -> events waiting in its group

kernelVars == <<now, procs, holder, freed, execs, written, netlink, subscribed,
                missed, watching, fanotify>>

-----------------------------------------------------------------------------
Process == [pid: Pid, parent: Nat, image: Image]

Msg(kind, p, parent, inc) == [kind |-> kind, pid |-> p, parent |-> parent, inc |-> inc]

(* What recv() finds once the buffer has overflowed: ENOBUFS. *)
Overrun == Msg("overrun", None, None, 0)

Message == [kind: {"fork", "exec", "exit"}, pid: Pid, parent: Option(Pid), inc: Nat]
             \cup {Overrun}

Event == [pid: Pid \cup {Self}, n: Nat, inc: Nat]

(* A file event of the daemon's own writes to its log and its database. *)
OwnEvent == [pid |-> Self, n |-> 0, inc |-> 0]

Alive(i) == i # 0 /\ holder[procs[i].pid] = i

(* /proc/<pid>/status and /proc/<pid>/exe, for a pid that may be gone. *)
ProcParent(p) ==
    IF holder[p] = 0 \/ p = InitPid THEN None
    ELSE LET parent == procs[holder[p]].parent
         IN  IF Alive(parent) THEN procs[parent].pid ELSE InitPid

ProcImage(p) == IF holder[p] = 0 THEN None ELSE procs[holder[p]].image

-----------------------------------------------------------------------------
KernelInit ==
    /\ now = 0
    /\ \E im \in Image : procs = <<[pid |-> InitPid, parent |-> 0, image |-> im]>>
    /\ holder = [p \in Pid |-> IF p = InitPid THEN 1 ELSE 0]
    /\ freed = [p \in Pid |-> None]
    /\ execs = 0 /\ written = 0
    /\ netlink = <<>> /\ subscribed = FALSE /\ missed = FALSE
    /\ watching = {} /\ fanotify = [w \in Watcher |-> <<>>]

(* A message is queued, lost for want of a listener, or it overflows the   *)
(* buffer; after that nothing in it is read, since the error comes first.  *)
Overflows == netlink = <<Overrun>> \/ Len(netlink) >= NetlinkCap

Emit(m) ==
    /\ netlink' = IF ~subscribed THEN netlink
                  ELSE IF Overflows THEN <<Overrun>>
                  ELSE Append(netlink, m)
    /\ missed' = (missed \/ ~subscribed \/ Overflows)

Fork(q, p) ==
    /\ holder[q] # 0 /\ holder[p] = 0
    /\ Len(procs) < MaxProcs
    /\ procs' = Append(procs, [pid |-> p, parent |-> holder[q],
                               image |-> procs[holder[q]].image])
    /\ holder' = [holder EXCEPT ![p] = Len(procs) + 1]
    /\ Emit(Msg("fork", p, q, Len(procs) + 1))
    /\ UNCHANGED <<now, freed, execs, written, subscribed, watching, fanotify>>

Exec(p, im) ==
    /\ holder[p] # 0 /\ execs < MaxExecs
    /\ execs' = execs + 1
    /\ procs' = [procs EXCEPT ![holder[p]].image = im]
    /\ Emit(Msg("exec", p, None, holder[p]))
    /\ UNCHANGED <<now, holder, freed, written, subscribed, watching, fanotify>>

Exit(p) ==
    /\ holder[p] # 0 /\ p # InitPid
    /\ holder' = [holder EXCEPT ![p] = 0]
    /\ freed' = [freed EXCEPT ![p] = now]
    /\ Emit(Msg("exit", p, None, holder[p]))
    /\ UNCHANGED <<now, procs, execs, written, subscribed, watching, fanotify>>

(* A change to a file that no blocklist suffix matches, seen by w. *)
Write(w, p) ==
    /\ holder[p] # 0 /\ w \in watching
    /\ written < MaxWrites
    /\ written' = written + 1
    /\ fanotify' = [fanotify EXCEPT
                      ![w] = Append(@, [pid |-> p, n |-> written + 1, inc |-> holder[p]])]
    /\ UNCHANGED <<now, procs, holder, freed, execs, netlink, subscribed, missed, watching>>

Tick ==
    /\ now < MaxTime
    /\ now' = now + 1
    /\ UNCHANGED <<procs, holder, freed, execs, written, netlink, subscribed, missed,
                   watching, fanotify>>

KernelTypeOK ==
    /\ now \in Nat
    /\ procs \in Seq(Process)
    /\ \A i \in 1 .. Len(procs) : procs[i].parent < i
    /\ holder \in [Pid -> 0 .. Len(procs)]
    /\ freed \in [Pid -> Option(Nat)]
    /\ execs \in Nat /\ written \in Nat
    /\ netlink \in Seq(Message)
    /\ subscribed \in BOOLEAN /\ missed \in BOOLEAN
    /\ watching \subseteq Watcher
    /\ fanotify \in [Watcher -> Seq(Event)]
=============================================================================
