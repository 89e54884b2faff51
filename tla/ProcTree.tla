------------------------------- MODULE ProcTree -------------------------------
(***************************************************************************)
(* The in-memory process table, src/src/proctree.rs.                       *)
(*                                                                         *)
(* The HashMap<i32, ProcNode> is a function from every pid to a node or to *)
(* None.  Each method of ProcTree is an operator on such a function; the   *)
(* mutex that wraps the table is in Whodidd, where one operator applied in *)
(* one action is one critical section.                                     *)
(***************************************************************************)
EXTENDS Integers, Sequences, SequencesExt

CONSTANTS
    Pid,        \* the pids the kernel hands out
    Image,      \* what exec can run: one value stands for exe+comm+cmdline+uid
    None,       \* Rust's None, and the empty ProcInfo::default()
    MaxChain    \* MAX_CHAIN

ASSUME PidAssumption == None \notin Pid /\ None \notin Nat
ASSUME ImageAssumption == None \notin Image
ASSUME MaxChainAssumption == MaxChain \in Nat \ {0}

Option(S) == S \cup {None}

(* A node.  "inc" is a history field, absent from the code: the number of  *)
(* the process the node was created for, which no code reads.              *)
ProcNode == [ppid: Option(Pid), start: Nat, info: Option(Image),
             exited: Option(Nat), persisted: BOOLEAN, inc: Nat]

ASSUME NodeAssumption == None \notin ProcNode

Tables == [Pid -> Option(ProcNode)]

EmptyTable == [p \in Pid |-> None]

-----------------------------------------------------------------------------
NewNode(ppid, info, ts, inc) ==
    [ppid |-> ppid, start |-> ts, info |-> info, exited |-> None,
     persisted |-> FALSE, inc |-> inc]

(* insert() of a HashMap: whatever was known of the pid is replaced. *)
OnFork(t, parent, child, ts, inc) ==
    [t EXCEPT ![child] = NewNode(parent, None, ts, inc)]

(* exec updates the image in place; a pid never seen is inserted. *)
OnExec(t, p, info, ppidIfNew, ts, inc) ==
    IF t[p] # None
    THEN [t EXCEPT ![p].info = info]
    ELSE [t EXCEPT ![p] = NewNode(ppidIfNew, info, ts, inc)]

OnExit(t, p, ts) == IF t[p] = None THEN t ELSE [t EXCEPT ![p].exited = ts]

(* What on_exit returns: the start of a node whose row must be closed. *)
ExitWriteThrough(t, p) ==
    IF t[p] # None /\ t[p].persisted THEN t[p].start ELSE None

MarkPersisted(t, p) == IF t[p] = None THEN t ELSE [t EXCEPT ![p].persisted = TRUE]

MutEvictStaleAll(t, cutoff) ==
    [p \in Pid |-> IF t[p] # None /\ t[p].exited # None THEN None ELSE t[p]]

EvictStale(t, cutoff) ==
    [p \in Pid |-> IF /\ t[p] # None
                      /\ t[p].exited # None
                      /\ t[p].exited < cutoff
                   THEN None ELSE t[p]]

-----------------------------------------------------------------------------
Unpersisted(t, p) == t[p] # None /\ ~t[p].persisted

(* The climb goes on from p to its parent: there is one, it is not p       *)
(* itself, and it is tracked and not yet persisted.                        *)
ClimbsOn(t, p) == t[p].ppid \notin {None, p} /\ Unpersisted(t, t[p].ppid)

(* c is the path the loop of unpersisted_chain walks from p: parent after  *)
(* parent, for as long as it climbs on, at most MaxChain of them.          *)
IsClimb(t, p, c) ==
    /\ c = <<>> <=> ~Unpersisted(t, p)
    /\ c # <<>> => c[1] = p
    /\ \A i \in 1 .. Len(c) : Unpersisted(t, c[i])
    /\ \A i \in 1 .. Len(c) - 1 : ClimbsOn(t, c[i]) /\ c[i + 1] = t[c[i]].ppid
    /\ Len(c) \in 1 .. MaxChain - 1 => ~ClimbsOn(t, c[Len(c)])

Climbs(t, p) == {c \in BoundedSeq(Pid, MaxChain) : IsClimb(t, p, c)}

(* chain.reverse(): root first, each pid with a copy of its node. *)
MutChainOf(t, c) == [i \in DOMAIN c |-> [pid |-> c[i], node |-> t[c[i]]]]

ChainOf(t, c) ==
    [i \in 1 .. Len(c) |-> [pid |-> c[Len(c) + 1 - i], node |-> t[c[Len(c) + 1 - i]]]]

ChainItem == [pid: Pid, node: ProcNode]
=============================================================================
