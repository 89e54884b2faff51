-------------------------------- MODULE WhenFs --------------------------------
(***************************************************************************)
(* The file system, src/src/main.rs: one loop that answers the kernel's    *)
(* requests one after another, over a SNAP_ROOT that grows meanwhile.  A   *)
(* request is an action; getattr, setattr, read, opendir and the requests  *)
(* refused with EROFS change nothing and are left out.                     *)
(***************************************************************************)
EXTENDS SnapRoot, SequencesExt

CONSTANTS
    Asked,         \* the expressions looked up
    TTL,           \* how long the kernel may keep an answer
    MaxInodes      \* bound: inodes handed out

ASSUME WhenFsAssumption == TTL \in Nat /\ MaxInodes \in Nat
ASSUME AskedAssumption ==
    /\ Asked \subseteq [kind: {"name", "date", "span", "eve", "weekday", "months", "other"}, n: Int]
    /\ \A e \in Asked : e.kind = "weekday" => e.n \in 0 .. Week - 1
ASSUME FileAssumption == IsFiniteSet(File) /\ None \notin File

VARIABLES
    next_ino, path_of, ino_of,
    cached,        \* the kernel's entry for a name in the root, if it keeps one
    listing        \* an ls of the root, and the readdir of it under way

tables == <<next_ino, path_of, ino_of>>
fsVars == <<mounted, tables, cached, listing>>
vars == <<snapVars, fsVars>>

ROOT_INO == 1

(* SNAP_ROOT, a directory in it, a file in one of those. *)
RootPath == [dir |-> None, file |-> None]
DirPath(d) == [dir |-> d.name, file |-> None]
FilePath(dir, f) == [dir |-> dir, file |-> f]

(* symlink_metadata: the files there are under a directory of that name. *)
FilesIn(dir) == UNION {d.files : d \in {x \in dirs : x.name = dir}}

Init ==
    /\ SnapInit
    /\ next_ino = 2 /\ path_of = <<>> /\ ino_of = <<>>
    /\ cached = None /\ listing = None

-----------------------------------------------------------------------------
(* ino_for_path for each of a set of paths, in the order read_dir gives:   *)
(* one that has an inode keeps it, each other gets the next.               *)
MutAssign(paths) ==
    /\ next_ino' = next_ino + Cardinality(paths)
    /\ \E ids \in Bijection(next_ino .. next_ino' - 1, paths) :
          /\ path_of' = ids @@ path_of
          /\ ino_of' = AntiFunction(ids) @@ ino_of

Assign(paths) ==
    LET new == paths \ DOMAIN ino_of
        ids == next_ino .. next_ino + Cardinality(new) - 1
    IN  /\ next_ino + Cardinality(new) <= MaxInodes + 2
        /\ next_ino' = next_ino + Cardinality(new)
        /\ \E path \in Bijection(ids, new) :
              /\ path_of' = [i \in DOMAIN path_of \cup ids |->
                                IF i \in ids THEN path[i] ELSE path_of[i]]
              /\ ino_of' = [p \in DOMAIN ino_of \cup new |->
                                IF p \in new THEN CHOOSE i \in ids : path[i] = p ELSE ino_of[p]]

(* lookup in the root; an error is not cached, a panic ends the process. *)
Lookup(e) ==
    /\ mounted /\ cached = None /\ listing = None
    /\ LET d == Resolve(dirs, e, now)
       IN  \/ /\ d \in dirs
              /\ Assign({DirPath(d)})
              /\ cached' = [expr |-> e, ino |-> ino_of'[DirPath(d)], since |-> now]
              /\ UNCHANGED mounted
           \/ /\ d = Panic
              /\ mounted' = FALSE
              /\ UNCHANGED <<tables, cached>>
    /\ UNCHANGED <<snapVars, listing>>

(* The loop is at a readdir of the root, and answers nothing else. *)
Busy == listing # None /\ listing.next > 1

(* lookup below a directory *)
LookupFile(ino, f) ==
    /\ mounted /\ ~Busy /\ path_of[ino].file = None /\ f \in FilesIn(path_of[ino].dir)
    /\ Assign({FilePath(path_of[ino].dir, f)})
    /\ UNCHANGED <<snapVars, mounted, cached, listing>>

(* readdir below the root *)
ReadDir(ino) ==
    /\ mounted /\ ~Busy /\ path_of[ino].dir # None /\ path_of[ino].file = None
    /\ Assign({FilePath(path_of[ino].dir, f) : f \in FilesIn(path_of[ino].dir)})
    /\ UNCHANGED <<snapVars, mounted, cached, listing>>

-----------------------------------------------------------------------------
(* The shortcuts, as indices of Shortcuts, that lead to a snapshot now.    *)
Leads(i) == Resolve(dirs, Shortcuts[i], now) \notin {None, Panic}

Leading == {i \in DOMAIN Shortcuts : Leads(i)}

(* opendir; due is history, what there was to list then. *)
ListBegin ==
    /\ mounted /\ cached = None /\ listing = None
    /\ listing' = [offset |-> 0, seen |-> <<>>, next |-> 1, found |-> {},
                   due |-> Leading, met |-> {}, done |-> FALSE]
    /\ UNCHANGED <<snapVars, mounted, tables, cached>>

(* readdir of the root makes its list anew at each call.  Every shortcut   *)
(* is resolved by itself, at what the clock and SNAP_ROOT are by then.     *)
ListResolve ==
    /\ mounted /\ listing # None /\ ~listing.done /\ listing.next \in DOMAIN Shortcuts
    /\ LET d == Resolve(dirs, Shortcuts[listing.next], now)
       IN  \/ /\ d = Panic
              /\ mounted' = FALSE
              /\ UNCHANGED <<tables, listing>>
           \/ /\ d = None
              /\ listing' = [listing EXCEPT !.next = @ + 1]
              /\ UNCHANGED <<mounted, tables>>
           \/ /\ d \in dirs
              /\ Assign({RootPath})
              /\ listing' = [listing EXCEPT !.next = @ + 1, !.found = @ \cup {listing.next}]
              /\ UNCHANGED mounted
    /\ UNCHANGED <<snapVars, cached>>

(* The entries pushed, in that order. *)
InOrder(found) ==
    [k \in 1 .. Cardinality(found) |->
        CHOOSE i \in found : Cardinality({j \in found : j <= i}) = k]

DotAndDotDot == <<-1, 0>>

(* What reply.add is told to go on from after entry i, of those from 0.    *)
MutOffsetAfter(i) == i

OffsetAfter(i) == i + 1

(* The reply skips what the offset says and takes as many entries as it    *)
(* has room for; met is history, what was ever pushed.                     *)
ListReply ==
    /\ mounted /\ listing # None /\ listing.next > Len(Shortcuts)
    /\ LET entries == DotAndDotDot \o InOrder(listing.found)
           left == Len(entries) - listing.offset
           answered == [listing EXCEPT !.next = 1, !.found = {}, !.met = @ \cup listing.found]
       IN  \/ left <= 0 /\ listing' = [answered EXCEPT !.done = TRUE]
           \/ \E n \in 1 .. left :
                 listing' = [answered EXCEPT
                    !.offset = OffsetAfter(@ + n - 1),
                    !.seen = @ \o SubSeq(entries, listing.offset + 1, listing.offset + n)]
    /\ UNCHANGED <<snapVars, mounted, tables, cached>>

-----------------------------------------------------------------------------
(* The kernel drops an answer when its TTL is over, or before. *)
Valid(c, i) == c # None => i <= c.since + TTL

Forget ==
    /\ cached # None /\ cached' = None
    /\ UNCHANGED <<snapVars, mounted, tables, listing>>

Meanwhile ==
    /\ SnapNext
    /\ cached' = IF Valid(cached, now') THEN cached ELSE None
    /\ UNCHANGED <<mounted, tables, listing>>

Next ==
    \/ Meanwhile \/ Forget
    \/ \E e \in Asked : Lookup(e)
    \/ \E ino \in DOMAIN path_of :
          ReadDir(ino) \/ \E f \in File : LookupFile(ino, f)
    \/ ListBegin \/ ListResolve \/ ListReply

Spec == Init /\ [][Next]_vars
===============================================================================
