------------------------------ MODULE WhenProps ------------------------------
(***************************************************************************)
(* What /when, and whodid diff through it, promise of the past they show.  *)
(***************************************************************************)
EXTENDS WhenFs

(* The labels that name one instant, and the snapshots that bear one.      *)
Clear(l) == Cardinality(InstantsOf(l)) = 1

Clearly(D) == {d \in D : d.name.kind = "name" /\ Clear(d.name.n)}

(* The instant an expression means when asked at i, by the clock alone:    *)
(* of a day, its last one.                                                 *)
LastOf(d) == Max({j \in -Day .. MaxTime + Day : DayOf(j) <= d})

Meant(e, i) ==
    CASE e.kind = "name" -> Max(InstantsOf(e.n))
      [] e.kind = "date" -> LastOf(e.n)
      [] e.kind = "span" -> i - e.n
      [] e.kind = "eve" -> LastOf(DayOf(i) - e.n)
      [] e.kind = "weekday" ->
            LastOf(CHOOSE d \in DayOf(i) - Week .. DayOf(i) - 1 : d % Week = e.n)
      [] OTHER -> None

-----------------------------------------------------------------------------
Paths ==
    {RootPath} \cup {FilePath(d.name, f) : d \in dirs, f \in File \cup {None}}

TakerState == [at: {"idle", "check", "sleep", "copy", "fill"},
               ts: Int, asked: Nat, tries: 0 .. MaxRetries, looked: SUBSET SnapName]

(* The two inode tables are inverses, with nothing but what exists in them. *)
TablesInverse ==
    /\ next_ino \in Nat \ {0, 1}
    /\ DOMAIN path_of = 2 .. next_ino - 1
    /\ \A i \in DOMAIN path_of :
          path_of[i] \in Paths /\ path_of[i] \in DOMAIN ino_of /\ ino_of[path_of[i]] = i
    /\ \A p \in DOMAIN ino_of : ino_of[p] \in DOMAIN path_of /\ path_of[ino_of[p]] = p

(* The shape of the variables. *)
TypeOK ==
    /\ now \in Nat /\ mounted \in BOOLEAN
    /\ dirs \subseteq SnapDir
    /\ taker \in [DOMAIN taker -> TakerState]
    /\ TablesInverse /\ (cached # None => cached.ino \in DOMAIN path_of)

(* A number the kernel was given goes on naming the path it was given for, *)
(* and a path keeps its number (main.rs:42-52): a process that stands in a *)
(* snapshot, or has a name cached, is never moved to another one.          *)
InodesKeepTheirPath ==
    [][/\ \A i \in DOMAIN path_of : i \in DOMAIN path_of' /\ path_of'[i] = path_of[i]
       /\ \A p \in DOMAIN ino_of : p \in DOMAIN ino_of' /\ ino_of'[p] = ino_of[p]]_vars

(* A name the kernel answers for itself led, at most TTL ago, to what it   *)
(* meant then: the newest snapshot not after the instant it stands for, of *)
(* those whose label is not repeated (main.rs:110, time_expr.rs:122).      *)
CachedNameIsRecent ==
    cached # None /\ cached.expr.kind \notin {"other", "months"} =>
        LET i == Meant(cached.expr, cached.since)
            shown == {d \in dirs : DirPath(d) = path_of[cached.ino]}
        IN  /\ now <= cached.since + TTL
            /\ \A d \in shown :
                  /\ d.taken <= i
                  /\ \A x \in Clearly(dirs) :
                        x.made < cached.since /\ x.taken <= i => x.taken <= d.taken

(* An expression that stands for one instant shows the same snapshot for   *)
(* ever, once that instant is past and no run of snapshot.sh is about to   *)
(* make a directory with a name up to it (time_expr.rs:120-134).           *)
Absolute == {e \in Asked : e.kind \in {"name", "date"}}

Shown(D, e, i) ==
    LET d == Resolve(D, e, i) IN IF d \in {None, Panic} THEN d ELSE d.name

PastStaysPut ==
    [][\A e \in Absolute :
          /\ Meant(e, now) < now
          /\ \A t \in DOMAIN taker : taker[t].at \in {"check", "copy"} => taker[t].asked > Meant(e, now)
          => Shown(dirs', e, now') = Shown(dirs, e, now)]_vars

(* Each directory is found under its own name, which is how whodid diff    *)
(* asks for it (whodid.rs:163): by its instant or, when its label names    *)
(* two or none, literally.                                                 *)
EverySnapshotFound ==
    ~Garbled(dirs) =>
        \A d \in dirs : Shown(dirs, d.name, now) = d.name

(* ls of the root shows each shortcut that led somewhere when it began,    *)
(* though every readdir makes the list anew, shortcut by shortcut, while   *)
(* the clock and SNAP_ROOT move on (main.rs:162-199).  It shows one twice  *)
(* only if one that comes before it has turned up since, as "now" does     *)
(* when the first snapshot is made between its turn and that of "today".   *)
ListingWhole ==
    listing # None =>
        /\ listing.done => listing.due \subseteq ToSet(listing.seen)
        /\ \A a, b \in DOMAIN listing.seen :
              a < b /\ listing.seen[a] = listing.seen[b] =>
                  \E i \in listing.met \ listing.due : i < listing.seen[a]

(* whodid diff brackets an event of instant i: a timestamp before it was   *)
(* taken by then, a timestamp after it was taken later, and none falls     *)
(* between, for an event and snapshots whose labels are not repeated       *)
(* (whodid.rs:112-125).  A snapshot of any other name stands where its     *)
(* name falls as text, and may be before or after whenever it was taken.   *)
BracketTight ==
    \A i \in {j \in 0 .. now : Clear(Label(j))} :
        LET before == Before(dirs, Label(i))
            after == After(dirs, Label(i))
        IN  /\ \A d \in before : d.name.kind = "name" => d.taken <= i
            /\ \A d \in after : d.name.kind = "name" => i < d.taken
            /\ \A x \in Clearly(dirs) :
                  /\ x.taken <= i => \E d \in before : TextOf(x.name) <= TextOf(d.name)
                  /\ x.taken > i => \E d \in after : TextOf(d.name) <= TextOf(x.name)

(* "Wait out the collision" (snapshot.sh:39): a run copies into a          *)
(* directory only if that was not there yet when it looked, so that two    *)
(* runs nest only if both looked before either copied, be it in the same   *)
(* second; whatever was there from the start is never copied into.         *)
CollisionWaitedOut ==
    \A d \in dirs : d.name \notin d.nested
===============================================================================
