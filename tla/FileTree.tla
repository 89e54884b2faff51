------------------------------- MODULE FileTree -------------------------------
(***************************************************************************)
(* The live tree and what the operating system does to it for std::fs and  *)
(* for cp.  None of this is in src/; it is modelled from the calls that    *)
(* chronicle and snapshot.sh make.                                         *)
(*                                                                         *)
(* A tree gives every path a node or None.  A file knows the snapshots     *)
(* that share its inode (links), so that a write in place reaches them.    *)
(***************************************************************************)
EXTENDS Integers, Sequences, FiniteSets

CONSTANTS
    Path,       \* the paths below the live root
    Above,      \* path -> the directory it is in, None at the top
    Content,    \* what a file can hold
    Blank,      \* what a file just truncated holds
    None

ASSUME AboveAssumption == None \notin Path /\ Above \in [Path -> Path \cup {None}]

(* There are finitely many paths, and no directory is in itself. *)
ASSUME PathAssumption ==
    /\ IsFiniteSet(Path)
    /\ \A S \in SUBSET Path : S # {} => \E p \in S : Above[p] \notin S

ASSUME BlankAssumption == Blank \notin Content

Option(S) == S \cup {None}

Data == Content \cup {Blank}

Node == [kind: {"dir", "file"}, data: Data, links: SUBSET (Nat \X Path)]

(* A snapshot's nodes share nothing they could be asked about. *)
Kept == [kind: {"dir", "file"}, data: Data]

(* None is none of what there can be instead. *)
ASSUME NoneAssumption ==
    /\ None \notin Node /\ None \notin Kept /\ None \notin [Path -> Option(Kept)]
    /\ None \notin Nat

Dir == [kind |-> "dir", data |-> Blank, links |-> {}]
File(v) == [kind |-> "file", data |-> v, links |-> {}]

Copy(n) == IF n = None THEN None ELSE [kind |-> n.kind, data |-> n.data]

-----------------------------------------------------------------------------
(* S has the directory p is in, if any, and the ones its members are in. *)
Climbs(p, S) == \A q \in S \cup {p} : Above[q] \in Option(S)

(* The directories a path lies in, from its own up. *)
Up == [p \in Path |-> {d \in Path : \A S \in SUBSET Path : Climbs(p, S) => d \in S}]

(* components().count(), from the live root down. *)
Depth(p) == Cardinality(Up[p]) + 1

IsDir(T, p) == T[p] # None /\ T[p].kind = "dir"
IsFile(T, p) == T[p] # None /\ T[p].kind = "file"

(* The directory of p is there, so that p may be. *)
Reachable(T, p) == Above[p] # None => IsDir(T, Above[p])

Inside(T, p) == {q \in Path : Above[q] = p /\ T[q] # None}

(* create_dir_all: possible when nothing on the way is a file. *)
CanMakeDirs(T, p) == \A q \in Up[p] : ~IsFile(T, q)
MakeDirs(T, p) == [q \in Path |-> IF q \in Up[p] /\ T[q] = None THEN Dir ELSE T[q]]

(* A write in place keeps the inode, and the links with it. *)
InPlace(T, p, v) ==
    [T EXCEPT ![p] = IF T[p] = None THEN File(v) ELSE [T[p] EXCEPT !.data = v]]

(* What it does to the snapshots that have the inode too. *)
Through(S, n, v) ==
    [s \in DOMAIN S |->
        IF S[s] = None \/ n = None THEN S[s]
        ELSE [p \in Path |-> IF <<s, p>> \in n.links /\ S[s][p] # None
                             THEN [S[s][p] EXCEPT !.data = v] ELSE S[s][p]]]

(* Every node has its directory. *)
IsTree(T) == \A p \in Path : T[p] # None => Reachable(T, p)
=============================================================================
