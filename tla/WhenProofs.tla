----------------------------- MODULE WhenProofs -----------------------------
(***************************************************************************)
(* For every calendar, fold of the clock, set of takers and way to start:  *)
(* all of WhenProps, an ls of the root in a PlainCalendar.                 *)
(***************************************************************************)
EXTENDS WhenProps, FiniteSetTheorems, SequenceTheorems, WellFoundedInduction, TLAPS

-----------------------------------------------------------------------------
(* The takers of snapshots.                                                *)

(* What the takers do to a directory already there: its name and the       *)
(* instants it was taken and made at stay. *)
Same(d, e) == d.name = e.name /\ d.taken = e.taken /\ d.made = e.made

SnapType == now \in Nat /\ dirs \subseteq SnapDir /\ taker \in [DOMAIN taker -> TakerState]

LEMMA LabelType == ASSUME NEW i \in Int PROVE Label(i) \in Int
  BY CalendarAssumption DEF Label

LEMMA SnapDirType ==
    ASSUME NEW n \in Int, NEW taken \in Int, NEW made \in Nat, NEW files \in SUBSET File
    PROVE  Snap(Expr("name", n), taken, made, files) \in SnapDir
  BY DEF Snap, Expr, SnapDir, SnapName

LEMMA NestType ==
    ASSUME NEW d \in SnapDir, NEW names \in SUBSET SnapName
    PROVE  [d EXCEPT !.nested = names] \in SnapDir /\ Same([d EXCEPT !.nested = names], d)
  BY DEF SnapDir, SnapName, Same

LEMMA FillType ==
    ASSUME NEW d \in SnapDir, NEW f \in File
    PROVE  /\ [d EXCEPT !.files = @ \cup {f}] \in SnapDir
           /\ Same([d EXCEPT !.files = @ \cup {f}], d)
  BY DEF SnapDir, SnapName, Same

LEMMA IdleType == Idle \in TakerState
  BY SnapRootAssumption DEF Idle, TakerState

LEMMA AsleepType ==
    ASSUME NEW run \in TakerState
    PROVE  /\ Asleep(run).at = "sleep" /\ Asleep(run).asked = run.asked
           /\ run.tries # MaxRetries => Asleep(run) \in TakerState
<1>1. run.tries # MaxRetries => run.tries + 1 \in 0 .. MaxRetries
  BY SnapRootAssumption DEF TakerState
<1> QED
  BY <1>1 DEF Asleep, TakerState

(* A run that reads its name off the clock. *)
LEMMA DatesType ==
    ASSUME SnapType, NEW t \in DOMAIN taker, NEW n \in 0 .. MaxRetries, Dates(t, n)
    PROVE  /\ taker' \in [DOMAIN taker -> TakerState]
           /\ DOMAIN taker' = DOMAIN taker
           /\ taker'[t].at = "check"
           /\ \A s \in DOMAIN taker : s # t => taker'[s] = taker[s]
<1>1. [at |-> "check", ts |-> Label(now), asked |-> now, tries |-> n, looked |-> {}] \in TakerState
  BY LabelType DEF TakerState, SnapType
<1> QED
  BY <1>1 DEF Dates, SnapType

(* What a step of a taker does to the directories: each is kept, and one   *)
(* that was not there is made now, under the taker's name.                 *)
DirsKept(t) ==
    /\ \A d \in dirs : \E e \in dirs' : Same(e, d)
    /\ \A e \in dirs' : \/ \E d \in dirs : Same(e, d)
                        \/ /\ taker[t].at = "copy" /\ e.made = now
                           /\ e.name = Expr("name", taker[t].ts) /\ e.taken = taker[t].asked

LEMMA SameDirs ==
    ASSUME dirs' = dirs, NEW t
    PROVE  DirsKept(t)
  BY DEF DirsKept, Same

LEMMA TakerStepDirs ==
    ASSUME SnapType, NEW t \in DOMAIN taker, TakerStep(t)
    PROVE  dirs' \subseteq SnapDir /\ DirsKept(t)
<1> USE DEF SnapType
<1>1. CASE Begin(t) \/ Check(t) \/ Wake(t) \/ Ends(t)
  BY <1>1, SameDirs DEF Begin, Check, Wake, Ends
<1>2. CASE MakeTarget(t)
  <2>1. /\ taker[t].ts \in Int /\ taker[t].asked \in Int /\ taker[t].at = "copy"
        /\ taker[t].looked \in SUBSET SnapName
    BY <1>2 DEF MakeTarget, TakerState
  <2>2. CASE Named(taker[t].ts) = {}
    <3> DEFINE new == Snap(Expr("name", taker[t].ts), taker[t].asked, now, {})
    <3>1. dirs' = dirs \cup {new}
      BY <1>2, <2>2 DEF MakeTarget
    <3>2. new \in SnapDir
      BY <2>1, SnapDirType
    <3>3. new.made = now /\ new.name = Expr("name", taker[t].ts) /\ new.taken = taker[t].asked
      BY DEF Snap
    <3> HIDE DEF new
    <3> QED
      BY <2>1, <3>1, <3>2, <3>3 DEF DirsKept, Same
  <2>3. CASE Named(taker[t].ts) # {}
    <3> DEFINE N(d) == IF d \in Named(taker[t].ts) THEN [d EXCEPT !.nested = taker[t].looked]
                       ELSE d
    <3>1. dirs' = {N(d) : d \in dirs}
      BY <1>2, <2>3 DEF MakeTarget
    <3>2. \A d \in dirs : N(d) \in SnapDir /\ Same(N(d), d)
      BY <2>1, NestType DEF Same
    <3> HIDE DEF N
    <3> QED
      BY <3>1, <3>2 DEF DirsKept
  <2> QED
    BY <2>2, <2>3
<1>3. CASE CopyFile(t)
  <2>1. PICK d \in dirs, f \in File :
           dirs' = (dirs \ {d}) \cup {[d EXCEPT !.files = @ \cup {f}]}
    BY <1>3 DEF CopyFile, Named
  <2> DEFINE filled == [d EXCEPT !.files = @ \cup {f}]
  <2>2. filled \in SnapDir /\ Same(filled, d)
    BY <2>1, FillType
  <2>3. dirs' = (dirs \ {d}) \cup {filled}
    BY <2>1
  <2> HIDE DEF filled
  <2>4. \A e \in dirs : \E x \in dirs' : Same(x, e)
    BY <2>2, <2>3 DEF Same
  <2>5. \A x \in dirs' : \E e \in dirs : Same(x, e)
    BY <2>1, <2>2, <2>3 DEF Same
  <2> QED
    BY <2>2, <2>3, <2>4, <2>5 DEF DirsKept
<1> QED
  BY <1>1, <1>2, <1>3 DEF TakerStep

(* A taker's step leaves the clock and the other takers alone.             *)
LEMMA TakerStepType ==
    ASSUME SnapType, NEW t \in DOMAIN taker, TakerStep(t)
    PROVE  /\ now' = now
           /\ taker' \in [DOMAIN taker -> TakerState] /\ DOMAIN taker' = DOMAIN taker
           /\ \A s \in DOMAIN taker : s # t => taker'[s] = taker[s]
           /\ taker'[t].at = "copy" =>
                 /\ taker[t].at = "check" /\ Named(taker[t].ts) = {} /\ dirs' = dirs
                 /\ taker'[t] = [taker[t] EXCEPT !.at = "copy", !.looked = Taken]
<1> USE DEF SnapType
<1>0. taker[t] \in TakerState /\ MaxRetries \in Nat /\ Idle.at = "idle"
  BY SnapRootAssumption DEF Idle
<1>1. CASE Begin(t)
  BY <1>0, <1>1, DatesType DEF Begin
<1>2. CASE Wake(t)
  BY <1>0, <1>2, DatesType DEF Wake, TakerState
<1>3. CASE Check(t)
  <2>1. CASE Named(taker[t].ts) = {}
    <3> DEFINE new == [taker[t] EXCEPT !.at = "copy", !.looked = Taken]
    <3>1. taker' = [taker EXCEPT ![t] = new] /\ dirs' = dirs /\ now' = now
      BY <1>3, <2>1 DEF Check
    <3>2. new \in TakerState
      <4>1. Taken \in SUBSET SnapName
        BY DEF Taken, SnapDir
      <4> QED
        BY <1>0, <4>1 DEF TakerState
    <3> HIDE DEF new
    <3>3. /\ taker' \in [DOMAIN taker -> TakerState] /\ DOMAIN taker' = DOMAIN taker
          /\ taker'[t] = new /\ \A s \in DOMAIN taker : s # t => taker'[s] = taker[s]
      BY <3>1, <3>2
    <3> QED
      BY <1>3, <2>1, <3>1, <3>3 DEF Check, new
  <2>2. CASE Named(taker[t].ts) # {}
    <3> DEFINE new == IF taker[t].tries = MaxRetries THEN Idle ELSE Asleep(taker[t])
    <3>1. taker' = [taker EXCEPT ![t] = new] /\ now' = now
      BY <1>3, <2>2 DEF Check
    <3>2. new \in TakerState /\ new.at # "copy"
      <4>1. /\ Asleep(taker[t]).at = "sleep"
            /\ taker[t].tries # MaxRetries => Asleep(taker[t]) \in TakerState
        BY <1>0, AsleepType
      <4> QED
        BY <1>0, <4>1, IdleType
    <3> HIDE DEF new
    <3> QED
      BY <3>1, <3>2
  <2> QED
    BY <2>1, <2>2
<1>4. CASE MakeTarget(t)
  <2>1. PICK new \in {[Idle EXCEPT !.at = "fill", !.ts = taker[t].ts], Idle} :
           taker' = [taker EXCEPT ![t] = new] /\ now' = now
    BY <1>4 DEF MakeTarget
  <2>2. new \in TakerState /\ new.at # "copy"
    BY <1>0, <2>1, IdleType DEF TakerState
  <2> QED
    BY <2>1, <2>2
<1>5. CASE CopyFile(t)
  BY <1>5 DEF CopyFile
<1>6. CASE Ends(t)
  BY <1>0, <1>6, IdleType DEF Ends
<1> QED
  BY <1>1, <1>2, <1>3, <1>4, <1>5, <1>6 DEF TakerStep

-----------------------------------------------------------------------------
(* The inode tables.                                                       *)

(* A number keeps its path, a path its number. *)
Grows ==
    /\ \A i \in DOMAIN path_of : i \in DOMAIN path_of' /\ path_of'[i] = path_of[i]
    /\ \A p \in DOMAIN ino_of : p \in DOMAIN ino_of' /\ ino_of'[p] = ino_of[p]

LEMMA PathsSame == ASSUME dirs' = dirs PROVE Paths' = Paths
  BY DEF Paths

LEMMA PathsGrow ==
    ASSUME \A d \in dirs : \E e \in dirs' : Same(e, d)
    PROVE  Paths \subseteq Paths'
  BY DEF Paths, Same, FilePath, RootPath

LEMMA AssignTables ==
    ASSUME TablesInverse, dirs' = dirs,
           NEW paths \in SUBSET Paths, IsFiniteSet(paths), Assign(paths)
    PROVE  TablesInverse' /\ Grows /\ paths \subseteq DOMAIN ino_of'
<1> DEFINE new == paths \ DOMAIN ino_of
           k == Cardinality(new)
           ids == next_ino .. next_ino + k - 1
<1>1. k \in Nat /\ next_ino \in Nat /\ next_ino > 1
  BY FS_Subset, FS_CardinalityType DEF TablesInverse
<1>2. next_ino' = next_ino + k
  BY DEF Assign
<1>3. PICK path \in Bijection(ids, new) :
        /\ path_of' = [i \in DOMAIN path_of \cup ids |-> IF i \in ids THEN path[i] ELSE path_of[i]]
        /\ ino_of' = [p \in DOMAIN ino_of \cup new |->
                         IF p \in new THEN CHOOSE i \in ids : path[i] = p ELSE ino_of[p]]
  BY DEF Assign
<1>4. /\ path \in [ids -> new]
      /\ \A i, j \in ids : path[i] = path[j] => i = j
      /\ \A p \in new : \E i \in ids : path[i] = p
  BY <1>3 DEF Bijection, Injection, Surjection, IsInjective
<1>5. new \subseteq Paths /\ new \cap DOMAIN ino_of = {} /\ paths \subseteq DOMAIN ino_of \cup new
  OBVIOUS
<1>6. ids \cap DOMAIN path_of = {} /\ DOMAIN path_of \cup ids = 2 .. next_ino' - 1
  <2>1. DOMAIN path_of = 2 .. next_ino - 1
    BY DEF TablesInverse
  <2> HIDE DEF k
  <2> QED
    BY <1>1, <1>2, <2>1
<1>7. DOMAIN path_of' = DOMAIN path_of \cup ids /\ DOMAIN ino_of' = DOMAIN ino_of \cup new
  BY <1>3
<1> HIDE DEF new, ids
<1>8. \A i \in ids : path_of'[i] = path[i] /\ path[i] \in new /\ ino_of'[path[i]] = i
  <2> SUFFICES ASSUME NEW i \in ids PROVE path_of'[i] = path[i] /\ path[i] \in new /\ ino_of'[path[i]] = i
    OBVIOUS
  <2>1. path_of'[i] = path[i] /\ path[i] \in new
    BY <1>3, <1>4
  <2>2. ino_of'[path[i]] = CHOOSE j \in ids : path[j] = path[i]
    BY <1>3, <2>1
  <2> QED
    BY <1>4, <2>1, <2>2
<1>9. \A p \in new : ino_of'[p] \in ids /\ path_of'[ino_of'[p]] = p
  BY <1>4, <1>8
<1>10. Grows
  BY <1>3, <1>5, <1>6, <1>7 DEF Grows
<1>11. TablesInverse'
  <2>1. \A i \in DOMAIN path_of : path_of'[i] \in Paths /\ path_of'[i] \in DOMAIN ino_of'
                                    /\ ino_of'[path_of'[i]] = i
    BY <1>7, <1>10 DEF Grows, TablesInverse
  <2>2. \A p \in DOMAIN ino_of : ino_of'[p] \in DOMAIN path_of' /\ path_of'[ino_of'[p]] = p
    BY <1>7, <1>10 DEF Grows, TablesInverse
  <2>3. next_ino' \in Nat \ {0, 1}
    BY <1>1, <1>2
  <2> QED
    BY <1>5, <1>6, <1>7, <1>8, <1>9, <2>1, <2>2, <2>3, PathsSame DEF TablesInverse
<1> QED
  BY <1>5, <1>7, <1>10, <1>11

(* The paths a request can ask numbers for exist, and are finitely many.   *)
LEMMA DirectoryPath == ASSUME NEW d \in dirs PROVE {DirPath(d)} \subseteq Paths
  BY DEF Paths, DirPath, FilePath

LEMMA FilePaths ==
    ASSUME SnapType, NEW dir, NEW S \in SUBSET FilesIn(dir)
    PROVE  {FilePath(dir, f) : f \in S} \subseteq Paths /\ IsFiniteSet({FilePath(dir, f) : f \in S})
<1>1. \A f \in S : f \in File /\ \E d \in dirs : d.name = dir
  BY DEF FilesIn, SnapType, SnapDir, SnapName
<1>2. IsFiniteSet(S)
  BY <1>1, FS_Subset, FileAssumption
<1>3. [f \in S |-> FilePath(dir, f)] \in Surjection(S, {FilePath(dir, f) : f \in S})
  BY DEF Surjection
<1>4. IsFiniteSet({FilePath(dir, f) : f \in S})
  BY <1>2, <1>3, FS_Surjection
<1> QED
  BY <1>1, <1>4 DEF Paths

LEMMA TypeIs == TypeOK <=> /\ SnapType /\ mounted \in BOOLEAN /\ TablesInverse
                           /\ cached # None => cached.ino \in DOMAIN path_of
  BY DEF TypeOK, SnapType

LEMMA TypeIsNext ==
    ASSUME SnapType', mounted' \in BOOLEAN, TablesInverse',
           cached' # None => cached'.ino \in DOMAIN path_of'
    PROVE  TypeOK'
  BY DEF TypeOK, SnapType

LEMMA InitType == Init => TypeOK
<1> SUFFICES ASSUME Init PROVE TypeOK
  OBVIOUS
<1>1. PICK s \in Setups : now = s.start /\ dirs = s.dirs /\ mounted = s.mounted
                          /\ taker = [t \in s.takers |-> Idle]
  BY DEF Init, SnapInit
<1>2. SnapType /\ mounted \in BOOLEAN
  BY <1>1, IdleType, SnapRootAssumption DEF SnapType
<1>3. next_ino = 2 /\ path_of = <<>> /\ ino_of = <<>> /\ cached = None
  BY DEF Init
<1>4. TablesInverse
  BY <1>3 DEF TablesInverse
<1> QED
  BY <1>2, <1>3, <1>4, TypeIs

(* A request of the kernel: SNAP_ROOT stays, the tables grow. *)
Request ==
    \/ Forget \/ ListBegin \/ ListResolve \/ ListReply
    \/ \E e \in Asked : Lookup(e)
    \/ \E ino \in DOMAIN path_of : ReadDir(ino) \/ \E f \in File : LookupFile(ino, f)

LEMMA NextSplit == Next <=> Meanwhile \/ Request
  BY DEF Next, Request

(* An answer that gives numbers to some paths. *)
LEMMA AnswerType ==
    ASSUME TypeOK, UNCHANGED snapVars, mounted' \in BOOLEAN, cached' = cached,
           NEW paths \in SUBSET Paths, IsFiniteSet(paths), Assign(paths)
    PROVE  TypeOK' /\ Grows
<1>1. TablesInverse' /\ Grows
  BY AssignTables, TypeIs DEF snapVars
<1>2. SnapType'
  BY TypeIs DEF snapVars, SnapType
<1>3. cached' # None => cached'.ino \in DOMAIN path_of'
  BY <1>1, TypeIs DEF Grows
<1> QED
  BY <1>1, <1>2, <1>3, TypeIsNext

LEMMA StillType ==
    ASSUME TypeOK, UNCHANGED <<snapVars, tables>>, mounted' \in BOOLEAN, cached' \in {cached, None}
    PROVE  TypeOK' /\ Grows
<1>1. SnapType' /\ Grows /\ TablesInverse'
  BY TypeIs, PathsSame DEF snapVars, tables, SnapType, Grows, TablesInverse
<1>2. cached' # None => cached'.ino \in DOMAIN path_of'
  BY TypeIs DEF tables
<1> QED
  BY <1>1, <1>2, TypeIsNext

LEMMA RequestType == ASSUME TypeOK, Request PROVE TypeOK' /\ Grows
<1>0. SnapType /\ TablesInverse /\ mounted \in BOOLEAN
  BY TypeIs
<1>1. CASE Forget \/ ListBegin \/ ListReply
  BY <1>0, <1>1, StillType DEF Forget, ListBegin, ListReply
<1>2. ASSUME NEW e \in Asked, Lookup(e) PROVE TypeOK' /\ Grows
  <2>1. CASE mounted' = FALSE /\ UNCHANGED <<tables, cached>>
    BY <1>2, <2>1, StillType DEF Lookup
  <2>2. CASE /\ Resolve(dirs, e, now) \in dirs
             /\ Assign({DirPath(Resolve(dirs, e, now))})
             /\ cached' = [expr |-> e, ino |-> ino_of'[DirPath(Resolve(dirs, e, now))], since |-> now]
             /\ UNCHANGED mounted
    <3> DEFINE p == DirPath(Resolve(dirs, e, now))
    <3>1. {p} \subseteq Paths /\ IsFiniteSet({p})
      BY <2>2, DirectoryPath, FS_Singleton
    <3>2. UNCHANGED snapVars /\ Assign({p})
      BY <1>2, <2>2 DEF Lookup
    <3> HIDE DEF p
    <3>3. TablesInverse' /\ Grows /\ {p} \subseteq DOMAIN ino_of'
      BY <1>0, <3>1, <3>2, AssignTables DEF snapVars
    <3>4. SnapType'
      BY <1>0, <3>2 DEF snapVars, SnapType
    <3>5. cached'.ino = ino_of'[p] /\ ino_of'[p] \in DOMAIN path_of'
      BY <2>2, <3>3 DEF TablesInverse, p
    <3> QED
      BY <1>0, <2>2, <3>3, <3>4, <3>5, TypeIsNext
  <2> QED
    BY <1>2, <2>1, <2>2 DEF Lookup
<1>3. ASSUME NEW ino \in DOMAIN path_of, NEW f \in File, LookupFile(ino, f) PROVE TypeOK' /\ Grows
  <2> DEFINE dir == path_of[ino].dir
  <2>1. f \in FilesIn(dir) /\ Assign({FilePath(dir, f)})
    BY <1>3 DEF LookupFile
  <2> HIDE DEF dir
  <2>2. {FilePath(dir, x) : x \in {f}} \subseteq Paths /\ IsFiniteSet({FilePath(dir, x) : x \in {f}})
    BY <1>0, <2>1, FilePaths
  <2>3. {FilePath(dir, f)} = {FilePath(dir, x) : x \in {f}}
    OBVIOUS
  <2> QED
    BY <1>0, <1>3, <2>1, <2>2, <2>3, AnswerType DEF LookupFile
<1>4. ASSUME NEW ino \in DOMAIN path_of, ReadDir(ino) PROVE TypeOK' /\ Grows
  <2> DEFINE dir == path_of[ino].dir
             paths == {FilePath(dir, f) : f \in FilesIn(dir)}
  <2>1. paths \subseteq Paths /\ IsFiniteSet(paths)
    BY <1>0, FilePaths
  <2>2. Assign(paths)
    BY <1>4 DEF ReadDir
  <2> HIDE DEF paths
  <2> QED
    BY <1>0, <1>4, <2>1, <2>2, AnswerType DEF ReadDir
<1>5. CASE ListResolve
  <2>1. CASE UNCHANGED tables /\ mounted' \in BOOLEAN
    BY <1>5, <2>1, StillType DEF ListResolve
  <2>2. CASE Assign({RootPath}) /\ UNCHANGED mounted
    <3>1. {RootPath} \subseteq Paths /\ IsFiniteSet({RootPath})
      BY FS_Singleton DEF Paths
    <3> QED
      BY <1>0, <1>5, <2>2, <3>1, AnswerType DEF ListResolve
  <2> QED
    BY <1>0, <1>5, <2>1, <2>2 DEF ListResolve
<1> QED
  BY <1>1, <1>2, <1>3, <1>4, <1>5 DEF Request

LEMMA MeanwhileType == ASSUME TypeOK, Meanwhile PROVE TypeOK' /\ Grows
<1>0. SnapType /\ TablesInverse /\ UNCHANGED <<mounted, tables>> /\ cached' \in {cached, None}
  BY TypeIs DEF Meanwhile
<1>1. SnapType' /\ (\A d \in dirs : \E e \in dirs' : Same(e, d))
  <2>1. CASE Tick
    BY <1>0, <2>1 DEF Tick, SnapType, Same
  <2>2. ASSUME NEW t \in DOMAIN taker, TakerStep(t)
        PROVE SnapType' /\ (\A d \in dirs : \E e \in dirs' : Same(e, d))
    <3>1. dirs' \subseteq SnapDir /\ DirsKept(t)
      BY <1>0, <2>2, TakerStepDirs
    <3>2. now' = now /\ taker' \in [DOMAIN taker' -> TakerState]
      BY <1>0, <2>2, TakerStepType
    <3> QED
      BY <1>0, <3>1, <3>2 DEF SnapType, DirsKept
  <2> QED
    BY <2>1, <2>2 DEF Meanwhile, SnapNext
<1>2. Paths \subseteq Paths'
  BY <1>1, PathsGrow
<1>3. TablesInverse' /\ Grows
  BY <1>0, <1>2 DEF TablesInverse, Grows, tables
<1>4. cached' # None => cached'.ino \in DOMAIN path_of'
  BY <1>0, TypeIs DEF tables
<1>5. mounted' \in BOOLEAN
  BY <1>0, TypeIs
<1> QED
  BY <1>1, <1>3, <1>4, <1>5, TypeIsNext

LEMMA NextType == ASSUME TypeOK, [Next]_vars PROVE TypeOK' /\ Grows
<1>1. CASE UNCHANGED vars
  BY <1>1, StillType, TypeIs DEF vars, fsVars, snapVars, tables
<1> QED
  BY <1>1, NextSplit, RequestType, MeanwhileType

(* The variables keep their shape and the two tables are inverses of each  *)
(* other, whatever is asked while SNAP_ROOT grows (main.rs:42-56).         *)
THEOREM TypeCorrect == Spec => []TypeOK
<1>1. TypeOK /\ [Next]_vars => TypeOK'
  BY NextType
<1> QED
  BY <1>1, InitType, PTL DEF Spec

(* No request ever moves a number to another path or a path to another     *)
(* number: what stands in a snapshot stays there (main.rs:42-52).          *)
THEOREM InodesStay == Spec => InodesKeepTheirPath
<1>1. TypeOK /\ [Next]_vars => [Grows]_vars
  BY NextType
<1>2. [Grows]_vars <=> [/\ \A i \in DOMAIN path_of : i \in DOMAIN path_of' /\ path_of'[i] = path_of[i]
                        /\ \A p \in DOMAIN ino_of : p \in DOMAIN ino_of' /\ ino_of'[p] = ino_of[p]]_vars
  BY DEF Grows
<1> QED
  BY <1>1, <1>2, TypeCorrect, PTL DEF Spec, InodesKeepTheirPath

-----------------------------------------------------------------------------
(* Snapshots under their own names.                                        *)

LEMMA SingleType ==
    ASSUME NEW l \in Int, Single(l) # None
    PROVE  Single(l) \in Int /\ Label(Single(l)) = l
<1>1. \A i \in InstantsOf(l) : i \in Int /\ Label(i) = l
  BY CalendarAssumption DEF InstantsOf
<1>2. Single(l) \in InstantsOf(l)
  BY DEF Single
<1> QED
  BY <1>1, <1>2

(* The newest snapshot up to the instant of a snapshot is that one, or one *)
(* with the same name.                                                     *)
LEMMA NearestToItself ==
    ASSUME NEW D \in SUBSET SnapDir, ~Garbled(D), NEW d \in D,
           d.name.kind = "name", Single(d.name.n) # None
    PROVE  FindNearest(D, Single(d.name.n)) \in D /\ FindNearest(D, Single(d.name.n)).name = d.name
<1> DEFINE target == Single(d.name.n)
           near == Dated(D, target)
<1>1. \A x \in D : x.name = [kind |-> x.name.kind, n |-> x.name.n] /\ x.name.n \in Int
  BY DEF SnapDir, SnapName
<1>2. \A x \in near : /\ x \in D /\ x.name.kind = "name" /\ Single(x.name.n) # None
                       /\ Single(x.name.n) <= target
  BY DEF Dated
<1>3. \A x \in near : Single(x.name.n) \in Int /\ Label(Single(x.name.n)) = x.name.n
  BY <1>1, <1>2, SingleType
<1>4. d \in near
  <2>1. target \in Int
    BY <1>1, SingleType
  <2>2. target <= target
    BY <2>1
  <2> QED
    BY <2>2 DEF Dated
<1> DEFINE found == CHOOSE c \in near : \A x \in near : Single(x.name.n) <= Single(c.name.n)
<1>5. found \in near /\ \A x \in near : Single(x.name.n) <= Single(found.name.n)
  BY <1>2, <1>4
<1>6. FindNearest(D, target) = found
  BY <1>4 DEF FindNearest
<1> HIDE DEF found, near
<1>7. Single(found.name.n) = target
  BY <1>2, <1>3, <1>4, <1>5
<1>8. found.name.n = d.name.n
  BY <1>3, <1>4, <1>5, <1>7
<1> QED
  BY <1>1, <1>2, <1>5, <1>6, <1>8

LEMMA FoundByName ==
    ASSUME NEW D \in SUBSET SnapDir, ~Garbled(D), NEW d \in D, NEW i
    PROVE  Shown(D, d.name, i) = d.name
<1>1. d.name.n \in Int /\ d.name.kind \in {"name", "other"}
  BY DEF SnapDir, SnapName, Garbled
<1>2. CASE d.name.kind = "name" /\ Single(d.name.n) # None
  <2>1. ResolveTarget(d.name, i) = Single(d.name.n)
    BY <1>2 DEF ResolveTarget
  <2>2. Single(d.name.n) # Panic
    BY <1>1, <1>2, SingleType, SentinelAssumption
  <2>3. Resolve(D, d.name, i) = FindNearest(D, Single(d.name.n))
    BY <1>2, <2>1, <2>2 DEF Resolve
  <2> QED
    BY <1>2, <2>3, NearestToItself, SnapRootAssumption DEF Shown
<1>3. CASE d.name.kind = "other" \/ Single(d.name.n) = None
  <2>1. ResolveTarget(d.name, i) = None
    BY <1>1, <1>3 DEF ResolveTarget
  <2>2. Resolve(D, d.name, i) = FindExact(D, d.name)
    BY <2>1, SentinelAssumption DEF Resolve
  <2>3. FindExact(D, d.name) \in D /\ FindExact(D, d.name).name = d.name
    BY DEF FindExact
  <2> QED
    BY <2>2, <2>3, SnapRootAssumption DEF Shown
<1> QED
  BY <1>1, <1>2, <1>3

(* Whatever the calendar and the fold, a snapshot is found under its name  *)
(* as long as every name in SNAP_ROOT can be read (time_expr.rs:120-148).  *)
THEOREM SnapshotsFound == Spec => []EverySnapshotFound
<1>1. TypeOK => EverySnapshotFound
  BY FoundByName DEF TypeOK, EverySnapshotFound
<1> QED
  BY <1>1, TypeCorrect, PTL

-----------------------------------------------------------------------------
(* The collision of two runs of snapshot.sh.                               *)

(* Nobody holds a name read off the clock later than now. *)
AskedBefore == \A t \in DOMAIN taker : taker[t].asked <= now

(* A run about to copy under a name did not see it among those there were. *)
LookedFree ==
    \A t \in DOMAIN taker : taker[t].at = "copy" => Expr("name", taker[t].ts) \notin taker[t].looked

CollInv == TypeOK /\ AskedBefore /\ LookedFree /\ CollisionWaitedOut

LEMMA CollInit == Init => CollInv
<1> SUFFICES ASSUME Init PROVE CollInv
  OBVIOUS
<1>1. TypeOK /\ now \in Nat
  BY InitType DEF TypeOK
<1>2. \A t \in DOMAIN taker : taker[t] = Idle
  BY DEF Init, SnapInit
<1>3. CollisionWaitedOut
  BY SnapRootAssumption DEF Init, SnapInit, CollisionWaitedOut
<1> QED
  BY <1>1, <1>2, <1>3 DEF CollInv, AskedBefore, LookedFree, Idle

LEMMA AskedStep ==
    ASSUME SnapType, AskedBefore, NEW t \in DOMAIN taker, TakerStep(t)
    PROVE  AskedBefore'
<1>1. \A s \in DOMAIN taker : taker[s] \in TakerState
  BY DEF SnapType
<1>2. taker'[t].asked \in {0, now, taker[t].asked}
  <2>1. CASE Begin(t) \/ Wake(t)
    BY <2>1 DEF Begin, Wake, Dates, Idle, SnapType
  <2>2. CASE Check(t)
    <3>1. PICK new \in {[taker[t] EXCEPT !.at = "copy", !.looked = Taken], Idle, Asleep(taker[t])} :
             taker' = [taker EXCEPT ![t] = new]
      <4>1. CASE Named(taker[t].ts) = {}
        BY <2>2, <4>1 DEF Check
      <4>2. CASE Named(taker[t].ts) # {}
        BY <2>2, <4>2 DEF Check
      <4> QED
        BY <4>1, <4>2
    <3>2. new.asked \in {0, taker[t].asked}
      <4>1. [taker[t] EXCEPT !.at = "copy", !.looked = Taken].asked = taker[t].asked
        BY <1>1 DEF TakerState
      <4>2. Idle.asked = 0
        BY DEF Idle
      <4>3. Asleep(taker[t]).asked = taker[t].asked
        BY <1>1, AsleepType
      <4> QED
        BY <3>1, <4>1, <4>2, <4>3
    <3> QED
      BY <3>1, <3>2 DEF SnapType
  <2>3. CASE MakeTarget(t)
    <3>1. PICK new \in {[Idle EXCEPT !.at = "fill", !.ts = taker[t].ts], Idle} :
             taker' = [taker EXCEPT ![t] = new]
      BY <2>3 DEF MakeTarget
    <3>2. new.asked = 0
      <4>1. [Idle EXCEPT !.at = "fill", !.ts = taker[t].ts].asked = 0
        BY DEF Idle
      <4>2. Idle.asked = 0
        BY DEF Idle
      <4> QED
        BY <3>1, <4>1, <4>2
    <3> QED
      BY <3>1, <3>2 DEF SnapType
  <2>4. CASE CopyFile(t)
    BY <2>4 DEF CopyFile
  <2>5. CASE Ends(t)
    BY <2>5 DEF Ends, Idle, SnapType
  <2> QED
    BY <2>1, <2>2, <2>3, <2>4, <2>5 DEF TakerStep
<1>3. now' = now /\ DOMAIN taker' = DOMAIN taker /\ \A s \in DOMAIN taker : s # t => taker'[s] = taker[s]
  BY TakerStepType
<1>4. now \in Nat
  BY DEF SnapType
<1> QED
  BY <1>1, <1>2, <1>3, <1>4 DEF AskedBefore, TakerState

LEMMA LookedStep ==
    ASSUME SnapType, LookedFree, NEW t \in DOMAIN taker, TakerStep(t)
    PROVE  LookedFree'
<1> SUFFICES ASSUME NEW s \in DOMAIN taker', taker'[s].at = "copy"
             PROVE  Expr("name", taker'[s].ts) \notin taker'[s].looked
  BY DEF LookedFree
<1>0. s \in DOMAIN taker /\ taker[s] \in TakerState
  BY TakerStepType DEF SnapType
<1>1. CASE s = t
  <2>1. Named(taker[t].ts) = {} /\ taker'[t] = [taker[t] EXCEPT !.at = "copy", !.looked = Taken]
    BY <1>1, TakerStepType
  <2>2. taker'[t].ts = taker[t].ts /\ taker'[t].looked = Taken
    BY <1>0, <1>1, <2>1 DEF TakerState
  <2>3. Expr("name", taker[t].ts) \notin Taken
    BY <2>1 DEF Named, Taken
  <2> QED
    BY <1>1, <2>2, <2>3
<1>2. CASE s # t
  BY <1>0, <1>2, TakerStepType DEF LookedFree
<1> QED
  BY <1>1, <1>2

LEMMA CollStep ==
    ASSUME SnapType, LookedFree, CollisionWaitedOut, NEW t \in DOMAIN taker, TakerStep(t)
    PROVE  CollisionWaitedOut'
<1> USE DEF SnapType
<1>1. CASE dirs' = dirs
  BY <1>1 DEF CollisionWaitedOut
<1>2. CASE MakeTarget(t) /\ Named(taker[t].ts) = {}
  <2>1. dirs' = dirs \cup {Snap(Expr("name", taker[t].ts), taker[t].asked, now, {})}
    BY <1>2 DEF MakeTarget
  <2> QED
    BY <2>1 DEF CollisionWaitedOut, Snap
<1>3. CASE MakeTarget(t) /\ Named(taker[t].ts) # {}
  <2>1. taker[t].at = "copy" /\ Expr("name", taker[t].ts) \notin taker[t].looked
    BY <1>3 DEF MakeTarget, LookedFree
  <2>2. dirs' = {IF d \in Named(taker[t].ts) THEN [d EXCEPT !.nested = taker[t].looked] ELSE d
                    : d \in dirs}
    BY <1>3 DEF MakeTarget
  <2> QED
    BY <2>1, <2>2 DEF CollisionWaitedOut, Named, SnapDir, SnapName
<1>4. CASE CopyFile(t)
  <2>1. PICK d \in dirs, f \in File :
           dirs' = (dirs \ {d}) \cup {[d EXCEPT !.files = @ \cup {f}]}
    BY <1>4 DEF CopyFile, Named
  <2> QED
    BY <2>1 DEF CollisionWaitedOut, SnapDir, SnapName
<1> QED
  BY <1>1, <1>2, <1>3, <1>4 DEF TakerStep, Begin, Check, Wake, Ends

LEMMA CollNext == ASSUME CollInv, [Next]_vars PROVE CollInv'
<1>0. TypeOK' /\ SnapType /\ AskedBefore /\ LookedFree /\ CollisionWaitedOut
  BY NextType, TypeIs DEF CollInv
<1>1. CASE UNCHANGED snapVars
  BY <1>0, <1>1 DEF CollInv, AskedBefore, LookedFree, CollisionWaitedOut, snapVars
<1>2. CASE Tick
  <2>1. AskedBefore'
    BY <1>0, <1>2 DEF Tick, AskedBefore, SnapType, TakerState
  <2>2. LookedFree' /\ CollisionWaitedOut'
    BY <1>0, <1>2 DEF Tick, LookedFree, CollisionWaitedOut
  <2> QED
    BY <1>0, <2>1, <2>2 DEF CollInv
<1>3. ASSUME NEW t \in DOMAIN taker, TakerStep(t) PROVE CollInv'
  BY <1>0, <1>3, AskedStep, LookedStep, CollStep DEF CollInv
<1>4. CASE Request
  BY <1>1, <1>4 DEF Request, Forget, ListBegin, ListResolve, ListReply, Lookup, ReadDir, LookupFile
<1> QED
  BY <1>1, <1>2, <1>3, <1>4, NextSplit DEF Meanwhile, SnapNext, vars

(* A directory that a run copied into had not been there when that run     *)
(* looked: it never goes on under a name it saw taken, with any number of  *)
(* runs at once, in one second or in several (snapshot.sh:43-52).          *)
THEOREM CollisionsWaitedOut == Spec => []CollisionWaitedOut
<1>1. CollInv /\ [Next]_vars => CollInv'
  BY CollNext
<1>2. CollInv => CollisionWaitedOut
  BY DEF CollInv
<1> QED
  BY <1>1, <1>2, CollInit, PTL DEF Spec
-----------------------------------------------------------------------------
(* Labels, days and ends of days.                                          *)

(* The instants of a label, of which there are at most two. *)
LEMMA InstantsType ==
    ASSUME NEW l \in Int
    PROVE  /\ InstantsOf(l) \in SUBSET Int /\ IsFiniteSet(InstantsOf(l))
           /\ \A i \in Int : i \in InstantsOf(l) <=> Label(i) = l
<1>1. l + FoldBy \in Int
  BY CalendarAssumption
<1>2. IsFiniteSet({l, l + FoldBy})
  <2>1. IsFiniteSet({l})
    BY FS_Singleton
  <2>2. {l, l + FoldBy} = {l} \cup {l + FoldBy}
    OBVIOUS
  <2> QED
    BY <2>1, <2>2, FS_AddElement
<1>3. \A i \in Int : Label(i) = l => i \in {l, l + FoldBy}
  BY CalendarAssumption DEF Label
<1> QED
  BY <1>1, <1>2, <1>3, FS_Subset DEF InstantsOf

(* A label that names one instant parts the instants as it parts the       *)
(* labels, though labels jump back at the fold.                            *)
LEMMA SingleParts ==
    ASSUME NEW l \in Int, Single(l) # None, NEW j \in Int
    PROVE  j <= Single(l) <=> Label(j) <= l
<1> DEFINE s == Single(l)
<1>1. s \in Int /\ Label(s) = l
  BY SingleType
<1>2. InstantsOf(l) = {s}
  BY DEF Single
<1>3. \A i \in Int : Label(i) = l => i = s
  BY <1>2, InstantsType
<1> HIDE DEF s
<1>4. l + FoldBy \in Int /\ FoldAt \in Int /\ FoldBy \in Int
  BY CalendarAssumption
<1>5. Label(l) = l => l = s
  BY <1>3
<1>6. Label(l + FoldBy) = l => l + FoldBy = s
  BY <1>3, <1>4
<1> QED
  BY <1>1, <1>4, <1>5, <1>6 DEF Label, s

(* Such a label is Clear, and its Single is its instant. *)
LEMMA ClearSingle ==
    ASSUME NEW l \in Int, Clear(l), NEW i \in Int, Label(i) = l
    PROVE  Single(l) = i
<1>1. PICK x : InstantsOf(l) = {x}
  BY InstantsType, FS_Singleton DEF Clear
<1>2. i = x
  BY <1>1, InstantsType
<1> QED
  BY <1>1, <1>2, SentinelAssumption DEF Single

LEMMA SingleClear ==
    ASSUME NEW l \in Int, Single(l) # None
    PROVE  Clear(l) /\ InstantsOf(l) = {Single(l)}
<1>1. InstantsOf(l) = {Single(l)}
  BY DEF Single
<1> QED
  BY <1>1, FS_Singleton DEF Clear

(* Up to the end of day d: on a day up to d. *)
LEMMA DayBound ==
    ASSUME NEW x \in Int, NEW d \in Int
    PROVE  x \div Day <= d <=> x <= d * Day + Day - 1
<1> DEFINE q == x \div Day  r == x % Day
<1>1. Day \in Nat \ {0}
  BY CalendarAssumption
<1>2. q \in Int /\ r \in 0 .. Day - 1 /\ x = Day * q + r
  BY <1>1
<1> HIDE DEF q, r
<1>3. CASE q <= d
  <2>1. Day * q <= Day * d
    BY <1>1, <1>2, <1>3
  <2> QED
    BY <1>1, <1>2, <1>3, <2>1 DEF q
<1>4. CASE q > d
  <2>1. Day * q >= Day * (d + 1)
    BY <1>1, <1>2, <1>4
  <2>2. Day * (d + 1) = d * Day + Day
    BY <1>1
  <2> QED
    BY <1>1, <1>2, <1>4, <2>1, <2>2 DEF q
<1> QED
  BY <1>2, <1>3, <1>4

(* A set of integers with a bound has a greatest, or a least, element.     *)
LEMMA GreatestExists ==
    ASSUME NEW S \in SUBSET Int, S # {}, NEW b \in Int, \A x \in S : x <= b
    PROVE  \E m \in S : \A x \in S : x <= m
<1> DEFINE U == {n \in Nat : b - n \in S}
<1>1. U # {}
  <2>1. PICK x \in S : x \in Int /\ x <= b
    OBVIOUS
  <2>2. b - x \in Nat /\ b - (b - x) = x
    BY <2>1
  <2> QED
    BY <2>1, <2>2
<1>2. PICK m \in U : \A y \in U : <<y, m>> \notin OpToRel(<, Nat)
  <2>1. U \subseteq Nat
    OBVIOUS
  <2> HIDE DEF U
  <2> QED
    BY <1>1, <2>1, NatLessThanWellFounded, WFMin, Zenon
<1>3. m \in Nat /\ b - m \in S /\ \A y \in U : ~(y < m)
  BY <1>2 DEF OpToRel
<1>4. ASSUME NEW x \in S PROVE x <= b - m
  <2>1. x \in Int /\ b - x \in Nat /\ b - (b - x) = x
    OBVIOUS
  <2>2. b - x \in U
    BY <2>1
  <2>3. ~(b - x < m)
    BY <1>3, <2>2
  <2> QED
    BY <1>3, <2>1, <2>3
<1> QED
  BY <1>3, <1>4

LEMMA LeastExists ==
    ASSUME NEW S \in SUBSET Int, S # {}, NEW b \in Int, \A x \in S : b <= x
    PROVE  \E m \in S : \A x \in S : m <= x
<1> DEFINE T == {n \in Int : -n \in S}
<1>1. \A x \in S : -x \in T /\ -(-x) = x
  OBVIOUS
<1>2. T \in SUBSET Int /\ T # {} /\ -b \in Int
  <2>1. PICK x \in S : -x \in T
    BY <1>1
  <2> QED
    BY <2>1
<1>6. \A n \in T : n <= -b
  <2> SUFFICES ASSUME NEW n \in Int, -n \in S PROVE n <= -b
    OBVIOUS
  <2>1. b <= -n
    OBVIOUS
  <2> QED
    BY <2>1
<1> HIDE DEF T
<1>3. PICK m \in T : \A n \in T : n <= m
  BY <1>2, <1>6, GreatestExists
<1>4. -m \in S /\ m \in Int
  BY <1>3 DEF T
<1>5. \A x \in S : -m <= x
  BY <1>1, <1>3, <1>4
<1> QED
  BY <1>4, <1>5

(* Week days on end: one of each residue, not two. *)
LEMMA SameResidue ==
    ASSUME NEW a \in Int, NEW b \in Int, a % Week = b % Week, a < b
    PROVE  a + Week <= b
<1> DEFINE qa == a \div Week  qb == b \div Week
<1>1. Week \in Nat \ {0}
  BY CalendarAssumption
<1>2. qa \in Int /\ qb \in Int /\ a = Week * qa + (a % Week) /\ b = Week * qb + (b % Week)
  BY <1>1
<1>3. a % Week \in Int
  BY <1>1
<1> HIDE DEF qa, qb
<1>4. Week * qa < Week * qb
  <2> DEFINE r == a % Week  u == Week * qa  v == Week * qb
  <2>1. a = u + r /\ b = v + r /\ r \in Int /\ u \in Int /\ v \in Int
    BY <1>1, <1>2, <1>3
  <2> HIDE DEF r, u, v
  <2>2. u < v
    BY <2>1
  <2> QED
    BY <2>2 DEF u, v
<1>5. qa < qb
  <2> SUFFICES ASSUME qb <= qa PROVE FALSE
    BY <1>2
  <2>1. Week * qb <= Week * qa
    BY <1>1, <1>2
  <2> QED
    BY <1>1, <1>2, <1>4, <2>1
<1>6. Week * (qa + 1) <= Week * qb
  BY <1>1, <1>2, <1>5
<1>7. Week * (qa + 1) = Week * qa + Week
  BY <1>1, <1>2
<1> DEFINE r == a % Week  u == Week * qa  v == Week * qb
<1>8. a = u + r /\ b = v + r /\ r \in Int /\ u \in Int /\ v \in Int /\ u + Week <= v
  BY <1>1, <1>2, <1>3, <1>6, <1>7
<1> HIDE DEF r, u, v
<1> QED
  BY <1>1, <1>8

LEMMA ResidueInWeek ==
    ASSUME NEW d \in Int, NEW w \in 0 .. Week - 1
    PROVE  \E e \in d - Week .. d - 1 : e % Week = w
<1> DEFINE Q == d \div Week  r == d % Week
<1>1. Week \in Nat \ {0} /\ w \in Int
  BY CalendarAssumption
<1>2. Q \in Int /\ r \in 0 .. Week - 1 /\ d = Week * Q + r
  BY <1>1
<1> HIDE DEF Q, r
<1>3. Week * (Q - 1) = Week * Q - Week /\ Week * Q \in Int
  BY <1>1, <1>2
<1>4. \A k \in Int : (Week * k + w) % Week = w
  BY <1>1
<1>5. CASE w < r
  <2>1. Week * Q + w \in d - Week .. d - 1
    BY <1>1, <1>2, <1>3, <1>5
  <2> QED
    BY <1>2, <1>4, <2>1
<1>6. CASE w >= r
  <2>1. Week * (Q - 1) + w \in d - Week .. d - 1
    BY <1>1, <1>2, <1>3, <1>6
  <2> QED
    BY <1>2, <1>4, <2>1
<1> QED
  BY <1>1, <1>2, <1>5, <1>6

(* The day parse_weekday means is the one of the last Week with its name. *)
LEMMA WeekdayBack ==
    ASSUME NEW d \in Int, NEW w \in 0 .. Week - 1
    PROVE  /\ MostRecentPast(w, d) \in Int
           /\ MostRecentPast(w, d) = CHOOSE e \in d - Week .. d - 1 : e % Week = w
<1> DEFINE S == {e \in d - Week .. d - 1 : e % Week = w}
<1>0. Week \in Nat \ {0}
  BY CalendarAssumption
<1>1. PICK m \in S : TRUE
  BY ResidueInWeek
<1>2. \A x, y \in S : x = y
  <2>0. \A x \in S : x \in Int
    BY <1>0
  <2> HIDE DEF S
  <2> SUFFICES ASSUME NEW x \in S, NEW y \in S, x < y PROVE FALSE
    BY <2>0
  <2> USE DEF S
  <2>1. x \in Int /\ y \in Int /\ x % Week = y % Week /\ y < x + Week
    BY <1>0
  <2>2. x + Week <= y
    BY <2>1, SameResidue
  <2> QED
    BY <1>0, <2>1, <2>2
<1>3. m \in d - Week .. d - 1 /\ m % Week = w /\ m \in Int
  BY <1>0, <1>1
<1>4. \A e \in d - Week .. d - 1 : e % Week = w => e = m
  BY <1>1, <1>2
<1>5. (CHOOSE e \in d - Week .. d - 1 : e % Week = w) = m
  BY <1>3, <1>4
<1>6. S = {m}
  BY <1>1, <1>2
<1> HIDE DEF S
<1>7. Max(S) = m
  BY <1>3, <1>6 DEF Max
<1> QED
  BY <1>3, <1>5, <1>7 DEF MostRecentPast, S

-----------------------------------------------------------------------------
(* Names that say when their snapshot was taken.                           *)

(* A directory bears the label of the instant its name was read off the    *)
(* clock, as does a run that is about to make one. *)
NameRight(d) ==
    d.name.kind = "name" =>
        /\ d.name.n = Label(d.taken)
        /\ 0 <= d.taken /\ d.taken <= d.made /\ d.made <= now

NamesRight ==
    /\ now <= MaxTime
    /\ \A d \in dirs : NameRight(d)
    /\ \A t \in DOMAIN taker : taker[t].at \in {"check", "copy"} => taker[t].ts = Label(taker[t].asked)

NameInv == CollInv /\ NamesRight

LEMMA NameInit == Init => NameInv
<1> SUFFICES ASSUME Init PROVE NameInv
  OBVIOUS
<1>1. PICK s \in Setups : now = s.start /\ dirs = s.dirs
  BY DEF Init, SnapInit
<1>2. \A t \in DOMAIN taker : taker[t] = Idle
  BY DEF Init, SnapInit
<1>3. now <= MaxTime /\ \A d \in dirs : NameRight(d)
  BY <1>1, SnapRootAssumption DEF NameRight
<1>4. Idle.at = "idle"
  BY DEF Idle
<1> QED
  BY <1>2, <1>3, <1>4, CollInit DEF NameInv, NamesRight

LEMMA TakerNames ==
    ASSUME SnapType, NamesRight, NEW t \in DOMAIN taker, TakerStep(t),
           taker'[t].at \in {"check", "copy"}
    PROVE  taker'[t].ts = Label(taker'[t].asked)
<1> USE DEF SnapType
<1>0. taker[t] \in TakerState /\ Idle.at = "idle"
  BY DEF Idle
<1>1. CASE Begin(t) \/ Wake(t)
  BY <1>1 DEF Begin, Wake, Dates, Idle
<1>2. CASE Check(t)
  <2>1. CASE Named(taker[t].ts) = {}
    <3>1. /\ taker'[t] = [taker[t] EXCEPT !.at = "copy", !.looked = Taken]
          /\ taker[t].ts = Label(taker[t].asked)
      BY <1>2, <2>1 DEF Check, NamesRight
    <3> QED
      BY <1>0, <3>1 DEF TakerState
  <2>2. CASE Named(taker[t].ts) # {}
    <3>1. taker'[t] \in {Idle, Asleep(taker[t])}
      BY <1>2, <2>2 DEF Check
    <3> QED
      BY <1>0, <3>1 DEF Asleep, Idle
  <2> QED
    BY <2>1, <2>2
<1>3. CASE MakeTarget(t)
  <2>1. taker'[t] \in {[Idle EXCEPT !.at = "fill", !.ts = taker[t].ts], Idle}
    BY <1>3 DEF MakeTarget
  <2> QED
    BY <1>0, <2>1 DEF Idle
<1>4. CASE CopyFile(t)
  BY <1>4 DEF CopyFile, NamesRight
<1>5. CASE Ends(t)
  BY <1>0, <1>5 DEF Ends
<1> QED
  BY <1>1, <1>2, <1>3, <1>4, <1>5 DEF TakerStep

LEMMA NameNext == ASSUME NameInv, [Next]_vars PROVE NameInv'
<1>0. CollInv' /\ SnapType /\ NamesRight /\ AskedBefore
  BY CollNext, TypeIs DEF NameInv, CollInv
<1>1. CASE UNCHANGED snapVars
  BY <1>0, <1>1 DEF NameInv, NamesRight, NameRight, snapVars
<1>2. CASE Tick
  <2>1. now' <= MaxTime
    BY <1>0, <1>2, SnapRootAssumption DEF Tick, SnapType
  <2>2. ASSUME NEW d \in dirs PROVE NameRight(d)'
    <3>1. d.made \in Nat /\ NameRight(d) /\ now' = now + 1 /\ now \in Nat
      BY <1>0, <1>2 DEF Tick, NamesRight, SnapType, SnapDir, SnapName
    <3> QED
      BY <3>1 DEF NameRight
  <2> QED
    BY <1>0, <1>2, <2>1, <2>2 DEF Tick, NameInv, NamesRight
<1>3. ASSUME NEW t \in DOMAIN taker, TakerStep(t) PROVE NameInv'
  <2>0. now' = now /\ now \in Nat /\ taker[t] \in TakerState
    BY <1>0, <1>3, TakerStepType DEF SnapType
  <2>1. ASSUME NEW e \in dirs' PROVE NameRight(e)'
    <3>1. CASE \E d \in dirs : Same(e, d)
      BY <1>0, <2>0, <3>1 DEF Same, NameRight, NamesRight
    <3>2. CASE /\ taker[t].at = "copy" /\ e.made = now
               /\ e.name = Expr("name", taker[t].ts) /\ e.taken = taker[t].asked
      <4>1. taker[t].ts = Label(taker[t].asked) /\ taker[t].asked \in Nat /\ taker[t].asked <= now
        BY <1>0, <2>0, <3>2 DEF NamesRight, AskedBefore, TakerState
      <4>2. e.name.n = taker[t].ts
        BY <3>2 DEF Expr
      <4> QED
        BY <2>0, <3>2, <4>1, <4>2 DEF NameRight
    <3> QED
      BY <1>0, <1>3, <3>1, <3>2, TakerStepDirs DEF DirsKept
  <2>2. ASSUME NEW s \in DOMAIN taker', taker'[s].at \in {"check", "copy"}
        PROVE  taker'[s].ts = Label(taker'[s].asked)
    <3>1. CASE s = t
      BY <1>0, <1>3, <2>2, <3>1, TakerNames
    <3>2. CASE s # t
      <4>1. s \in DOMAIN taker /\ taker'[s] = taker[s]
        BY <1>0, <1>3, <3>2, TakerStepType
      <4> QED
        BY <1>0, <2>2, <4>1 DEF NamesRight
    <3> QED
      BY <3>1, <3>2
  <2> QED
    BY <1>0, <2>0, <2>1, <2>2 DEF NameInv, NamesRight
<1>4. CASE Request
  BY <1>1, <1>4 DEF Request, Forget, ListBegin, ListResolve, ListReply, Lookup, ReadDir, LookupFile
<1> QED
  BY <1>1, <1>2, <1>3, <1>4, NextSplit DEF Meanwhile, SnapNext, vars

LEMMA NamesStayRight == Spec => []NameInv
<1>1. NameInv /\ [Next]_vars => NameInv'
  BY NameNext
<1> QED
  BY <1>1, NameInit, PTL DEF Spec

(* A named directory, and one whose label names one instant. *)
LEMMA NamedOne ==
    ASSUME SnapType, NamesRight, NEW d \in dirs, d.name.kind = "name"
    PROVE  /\ d.taken \in 0 .. now /\ d.name.n \in Int /\ d.name.n = Label(d.taken)
           /\ d.taken \in InstantsOf(d.name.n)
           /\ d \in Clearly(dirs) => Single(d.name.n) = d.taken
<1>1. d.taken \in 0 .. now /\ d.name.n \in Int /\ d.name.n = Label(d.taken)
  BY DEF SnapType, SnapDir, SnapName, NamesRight, NameRight
<1>2. d.taken \in InstantsOf(d.name.n)
  BY <1>1, InstantsType
<1> QED
  BY <1>1, <1>2, ClearSingle DEF Clearly

(* Names that can be read, as text. *)
LEMMA TextType ==
    ASSUME NEW d \in SnapDir
    PROVE  /\ TextOf(d.name) \in Int
           /\ d.name.kind = "name" => d.name.n \in Int /\ TextOf(d.name) = 2 * d.name.n + 1
  BY DEF SnapDir, SnapName, TextOf

(* The bracket around an instant whose label is not repeated. *)
LEMMA Brackets ==
    ASSUME SnapType, NamesRight, NEW i \in 0 .. now, Clear(Label(i))
    PROVE  /\ \A d \in Before(dirs, Label(i)) : d.name.kind = "name" => d.taken <= i
           /\ \A d \in After(dirs, Label(i)) : d.name.kind = "name" => i < d.taken
           /\ \A x \in Clearly(dirs) :
                 /\ x.taken <= i =>
                       \E d \in Before(dirs, Label(i)) : TextOf(x.name) <= TextOf(d.name)
                 /\ x.taken > i =>
                       \E d \in After(dirs, Label(i)) : TextOf(d.name) <= TextOf(x.name)
<1> DEFINE l == Label(i)
           T == TextOf(Expr("name", l))
<1>1. l \in Int /\ Single(l) = i /\ i \in Int /\ i # None
  BY LabelType, ClearSingle, SentinelAssumption DEF SnapType
<1>2. T \in Int /\ T = 2 * l + 1
  BY <1>1 DEF TextOf, Expr
<1>3. ASSUME NEW d \in dirs
      PROVE  /\ TextOf(d.name) \in Int
             /\ d.name.kind = "name" => d.taken \in Int /\ (d.taken <= i <=> TextOf(d.name) <= T)
  <2>1. d \in SnapDir
    BY DEF SnapType
  <2>2. ASSUME d.name.kind = "name" PROVE d.taken \in Int /\ (d.taken <= i <=> d.name.n <= l)
    BY <1>1, <2>2, NamedOne, SingleParts DEF SnapType
  <2> HIDE DEF T
  <2> QED
    BY <1>1, <1>2, <2>1, <2>2, TextType
<1>4. Before(dirs, l) = {d \in UpTo(dirs, T) : \A x \in UpTo(dirs, T) : TextOf(x.name) <= TextOf(d.name)}
  BY DEF Before
<1>5. After(dirs, l) = {d \in Past(dirs, T) : \A x \in Past(dirs, T) : TextOf(d.name) <= TextOf(x.name)}
  BY DEF After
<1> HIDE DEF l, T
<1>6. \A d \in Before(dirs, l) : d.name.kind = "name" => d.taken <= i
  BY <1>3, <1>4 DEF UpTo
<1>7. ASSUME NEW d \in After(dirs, l), d.name.kind = "name" PROVE i < d.taken
  <2>1. d \in dirs /\ TextOf(d.name) > T
    BY <1>5, <1>7 DEF Past
  <2> QED
    BY <1>1, <1>2, <1>3, <1>7, <2>1
<1>8. ASSUME NEW x \in Clearly(dirs), x.taken <= i
      PROVE  \E d \in Before(dirs, l) : TextOf(x.name) <= TextOf(d.name)
  <2>1. x \in UpTo(dirs, T)
    BY <1>3, <1>8 DEF Clearly, UpTo
  <2> DEFINE N == {TextOf(d.name) : d \in UpTo(dirs, T)}
  <2>2. N \in SUBSET Int /\ N # {} /\ \A n \in N : n <= T
    BY <1>3, <2>1 DEF UpTo
  <2> HIDE DEF N
  <2>3. PICK m \in N : \A n \in N : n <= m
    BY <1>2, <2>2, GreatestExists
  <2> QED
    BY <1>4, <2>1, <2>3 DEF N
<1>9. ASSUME NEW x \in Clearly(dirs), x.taken > i
      PROVE  \E d \in After(dirs, l) : TextOf(d.name) <= TextOf(x.name)
  <2>1. x \in dirs /\ x.name.kind = "name" /\ x.taken \in Int /\ ~(x.taken <= i)
    BY <1>1, <1>3, <1>9 DEF Clearly
  <2>2. x \in Past(dirs, T)
    BY <1>2, <1>3, <2>1 DEF Past
  <2> DEFINE N == {TextOf(d.name) : d \in Past(dirs, T)}
  <2>3. N \in SUBSET Int /\ N # {} /\ \A n \in N : T <= n
    BY <1>2, <1>3, <2>2 DEF Past
  <2> HIDE DEF N
  <2>4. PICK m \in N : \A n \in N : m <= n
    BY <1>2, <2>3, LeastExists
  <2> QED
    BY <1>5, <2>2, <2>4 DEF N
<1> QED
  BY <1>6, <1>7, <1>8, <1>9 DEF l

(* In the bracket of whodid diff no timestamp is on the wrong side of the  *)
(* event, and none falls between, whatever other names are among them      *)
(* (whodid.rs:112-125).                                                    *)
THEOREM BracketsTight == Spec => []BracketTight
<1>1. NameInv => BracketTight
  <2> SUFFICES ASSUME NameInv PROVE BracketTight
    OBVIOUS
  <2>1. SnapType /\ NamesRight
    BY TypeIs DEF NameInv, CollInv
  <2> QED
    BY <2>1, Brackets DEF BracketTight
<1> QED
  BY <1>1, NamesStayRight, PTL

-----------------------------------------------------------------------------
(* What an expression means, and the snapshot it leads to.                 *)

(* The instant asked for, T, and the one meant, m: the same one, but that  *)
(* LastOf is cut off at the ends of the clock. *)
MeansIt(T, m) == T < 0 \/ m = T \/ (T > MaxTime /\ m \in Int /\ m >= MaxTime)

(* What is in a set and not below any of it is its Max. *)
LEMMA MaxIs ==
    ASSUME NEW S \in SUBSET Int, NEW m \in S, \A j \in S : m >= j
    PROVE  Max(S) = m
<1>1. \A x \in S : (\A j \in S : x >= j) => x = m
  <2> SUFFICES ASSUME NEW x \in S, \A j \in S : x >= j PROVE x = m
    OBVIOUS
  <2>1. x \in Int /\ m \in Int /\ x >= m /\ m >= x
    OBVIOUS
  <2> QED
    BY <2>1
<1> QED
  BY <1>1 DEF Max

(* The end of a day parts the instants as it parts the days. *)
LEMMA EndParts ==
    ASSUME NEW d \in Int, EndOfDay(d) # Panic
    PROVE  EndOfDay(d) \in Int /\ \A j \in Int : j <= EndOfDay(d) <=> DayOf(j) <= d
<1> DEFINE l == d * Day + Day - 1
<1>1. Day \in Nat \ {0} /\ l \in Int
  BY CalendarAssumption
<1>2. EndOfDay(d) = Single(l) /\ Single(l) # None
  BY DEF EndOfDay
<1>3. Single(l) \in Int
  BY <1>1, <1>2, SingleType
<1>4. ASSUME NEW j \in Int PROVE j <= Single(l) <=> DayOf(j) <= d
  <2>1. j <= Single(l) <=> Label(j) <= l
    BY <1>1, <1>2, SingleParts
  <2>2. DayOf(j) <= d <=> Label(j) <= l
    BY LabelType, DayBound DEF DayOf
  <2> QED
    BY <2>1, <2>2
<1> HIDE DEF l
<1> QED
  BY <1>2, <1>3, <1>4

(* The end of a day is the last instant that shows that day or an earlier  *)
(* one, also across the fold, unless asking for it panics. *)
LEMMA EndMeant ==
    ASSUME NEW d \in Int, EndOfDay(d) # Panic
    PROVE  EndOfDay(d) \in Int /\ MeansIt(EndOfDay(d), LastOf(d))
<1> DEFINE s == EndOfDay(d)
           S == {j \in -Day .. MaxTime + Day : DayOf(j) <= d}
<1>0. Day \in Nat \ {0} /\ MaxTime \in Nat
  BY CalendarAssumption, SnapRootAssumption
<1>2. s \in Int
  BY EndParts
<1>3. \A j \in Int : j <= s <=> DayOf(j) <= d
  BY EndParts
<1> HIDE DEF s
<1>4. S = {j \in -Day .. MaxTime + Day : j <= s}
  BY <1>0, <1>3
<1> HIDE DEF S
<1>5. CASE s \in 0 .. MaxTime + Day
  <2>1. S \in SUBSET Int /\ s \in S /\ \A j \in S : s >= j
    BY <1>0, <1>2, <1>4, <1>5
  <2>2. Max(S) = s
    BY <2>1, MaxIs
  <2> QED
    BY <1>2, <2>2 DEF LastOf, MeansIt, S, s
<1>6. CASE s > MaxTime + Day
  <2>1. S \in SUBSET Int /\ MaxTime + Day \in S /\ \A j \in S : MaxTime + Day >= j
    BY <1>0, <1>2, <1>4, <1>6
  <2>2. Max(S) = MaxTime + Day
    BY <2>1, MaxIs
  <2>3. s > MaxTime /\ MaxTime + Day \in Int /\ MaxTime + Day >= MaxTime
    BY <1>0, <1>2, <1>6
  <2> QED
    BY <1>2, <2>2, <2>3 DEF LastOf, MeansIt, S, s
<1>7. CASE s < 0
  BY <1>2, <1>7 DEF MeansIt, s
<1> QED
  BY <1>0, <1>2, <1>5, <1>6, <1>7

(* The last of the instants with a label. *)
LEMMA LastInstant ==
    ASSUME NEW l \in Int, InstantsOf(l) # {}
    PROVE  Max(InstantsOf(l)) \in InstantsOf(l) /\ \A t \in InstantsOf(l) : t <= Max(InstantsOf(l))
<1> DEFINE S == InstantsOf(l)
<1>1. S \in SUBSET {l, l + FoldBy} /\ l + FoldBy \in Int
  BY CalendarAssumption DEF InstantsOf
<1> HIDE DEF S
<1>2. \E m \in S : \A t \in S : m >= t
  BY <1>1 DEF S
<1>3. Max(S) \in S /\ \A t \in S : Max(S) >= t
  BY <1>2 DEF Max
<1> QED
  BY <1>1, <1>3 DEF S

(* The kinds of expression whose meaning is said by the clock alone. *)
Timely == {e \in Asked : e.kind \notin {"other", "months"}}

(* What resolve_target computes is the instant meant, unless a name stands *)
(* for no instant or for two. *)
LEMMA TargetMeant ==
    ASSUME NEW e \in Timely, NEW i \in Nat, ResolveTarget(e, i) # Panic
    PROVE  \/ ResolveTarget(e, i) = None /\ e.kind = "name" /\ Single(e.n) = None
           \/ ResolveTarget(e, i) \in Int /\ MeansIt(ResolveTarget(e, i), Meant(e, i))
<1>0. e.kind \in {"name", "date", "span", "eve", "weekday"} /\ e.n \in Int
  BY AskedAssumption DEF Timely
<1>1. CASE e.kind = "name"
  <2>1. ResolveTarget(e, i) = Single(e.n) /\ Meant(e, i) = Max(InstantsOf(e.n))
    BY <1>1 DEF ResolveTarget, Meant
  <2>2. CASE Single(e.n) # None
    <3>1. Single(e.n) \in Int /\ InstantsOf(e.n) = {Single(e.n)}
      BY <1>0, <2>2, SingleType, SingleClear
    <3>2. Max(InstantsOf(e.n)) = Single(e.n)
      BY <1>0, <3>1, LastInstant
    <3> QED
      BY <2>1, <3>1, <3>2 DEF MeansIt
  <2> QED
    BY <1>1, <2>1, <2>2
<1>2. CASE e.kind = "date"
  <2>1. ResolveTarget(e, i) = EndOfDay(e.n) /\ Meant(e, i) = LastOf(e.n)
    BY <1>2 DEF ResolveTarget, Meant
  <2> QED
    BY <1>0, <2>1, EndMeant
<1>3. CASE e.kind = "span"
  <2>1. ResolveTarget(e, i) = i - e.n /\ Meant(e, i) = i - e.n
    BY <1>3 DEF ResolveTarget, Meant
  <2> QED
    BY <1>0, <2>1 DEF MeansIt
<1>4. DayOf(i) \in Int
  <2>1. Label(i) \in Int
    BY LabelType
  <2> QED
    BY <2>1, CalendarAssumption DEF DayOf
<1>5. CASE e.kind = "eve"
  <2>1. ResolveTarget(e, i) = EndOfDay(DayOf(i) - e.n) /\ Meant(e, i) = LastOf(DayOf(i) - e.n)
    BY <1>5 DEF ResolveTarget, Meant
  <2>2. DayOf(i) - e.n \in Int
    BY <1>0, <1>4
  <2> QED
    BY <2>1, <2>2, EndMeant
<1>6. CASE e.kind = "weekday"
  <2> DEFINE d == MostRecentPast(e.n, DayOf(i))
  <2>1. e.n \in 0 .. Week - 1
    BY <1>6, AskedAssumption DEF Timely
  <2>2. d \in Int /\ d = CHOOSE x \in DayOf(i) - Week .. DayOf(i) - 1 : x % Week = e.n
    BY <1>4, <2>1, WeekdayBack
  <2>3. ResolveTarget(e, i) = EndOfDay(d)
    BY <1>6 DEF ResolveTarget
  <2>4. Meant(e, i) = LastOf(d)
    BY <1>6, <2>2 DEF Meant
  <2> HIDE DEF d
  <2> QED
    BY <2>2, <2>3, <2>4, EndMeant
<1> QED
  BY <1>0, <1>1, <1>2, <1>3, <1>5, <1>6

(* find_nearest finds the newest of the snapshots up to its target. *)
LEMMA NearestFound ==
    ASSUME NEW D \in SUBSET SnapDir, NEW T \in Int, ~Garbled(D), Dated(D, T) # {}
    PROVE  /\ FindNearest(D, T) \in Dated(D, T)
           /\ \A x \in Dated(D, T) : Single(x.name.n) <= Single(FindNearest(D, T).name.n)
<1> DEFINE near == Dated(D, T)
           N == {Single(x.name.n) : x \in near}
<1>1. \A x \in near : Single(x.name.n) \in Int /\ Single(x.name.n) <= T
  BY SingleType DEF Dated, SnapDir, SnapName
<1>2. N \in SUBSET Int /\ N # {} /\ \A n \in N : n <= T
  BY <1>1
<1> HIDE DEF N
<1>3. PICK m \in N : \A n \in N : n <= m
  BY <1>2, GreatestExists
<1>4. \E d \in near : \A x \in near : Single(x.name.n) <= Single(d.name.n)
  BY <1>3 DEF N
<1>5. FindNearest(D, T) = CHOOSE d \in near : \A x \in near : Single(x.name.n) <= Single(d.name.n)
  BY DEF FindNearest
<1> HIDE DEF near
<1>6. FindNearest(D, T) \in near /\ \A x \in near : Single(x.name.n) <= Single(FindNearest(D, T).name.n)
  BY <1>4, <1>5
<1> QED
  BY <1>6 DEF near

(* An answer shows the newest snapshot there is not after the instant      *)
(* meant, of those whose label is not repeated. *)
LEMMA ResolvesRight ==
    ASSUME SnapType, NamesRight, NEW e \in Timely, NEW d \in dirs, d = Resolve(dirs, e, now)
    PROVE  /\ d.name.kind = "name" /\ d.name.n \in Int
           /\ \A t \in InstantsOf(d.name.n) :
                 /\ t <= Meant(e, now)
                 /\ \A x \in Clearly(dirs) : x.taken <= Meant(e, now) => x.taken <= t
<1> DEFINE T == ResolveTarget(e, now)
           m == Meant(e, now)
<1>0. now \in Nat /\ now <= MaxTime /\ MaxTime \in Nat /\ d \in SnapDir /\ d # None /\ d # Panic
  BY SnapRootAssumption DEF SnapType, NamesRight
<1>1. T # Panic
  BY <1>0 DEF Resolve
<1>2. CASE T = None /\ e.kind = "name" /\ Single(e.n) = None
  <2>1. d.name = e
    BY <1>0, <1>1, <1>2 DEF Resolve, FindExact
  <2> DEFINE l == d.name.n
  <2>2. d.name.kind = "name" /\ l \in Int /\ d.taken \in InstantsOf(l)
    BY <1>2, <2>1, NamedOne
  <2>3. m = Max(InstantsOf(l))
    BY <1>2, <2>1 DEF Meant
  <2> HIDE DEF l, m
  <2>4. m \in InstantsOf(l) /\ \A t \in InstantsOf(l) : t <= m
    BY <2>2, <2>3, LastInstant
  <2>5. ASSUME NEW t \in InstantsOf(l), NEW x \in Clearly(dirs), x.taken <= m
        PROVE  x.taken <= t
    <3>1. t \in Int /\ m \in Int /\ Label(t) = l /\ Label(m) = l
      BY <2>2, <2>4, InstantsType
    <3>2. x \in dirs /\ x.taken \in 0 .. now /\ x.name.n \in Int /\ x.name.n = Label(x.taken)
          /\ Single(x.name.n) = x.taken /\ x.taken \in Int /\ x.taken # None
      BY <1>0, <2>5, NamedOne, SentinelAssumption DEF Clearly
    <3>3. (t <= x.taken <=> l <= x.name.n) /\ (m <= x.taken <=> l <= x.name.n)
      BY <3>1, <3>2, SingleParts
    <3>4. CASE t <= x.taken
      <4>1. m = x.taken
        BY <2>5, <3>1, <3>2, <3>3, <3>4
      <4>2. x.name.n = l
        BY <3>1, <3>2, <4>1
      <4>3. t = x.taken
        BY <2>2, <3>2, <4>2, SingleClear
      <4> QED
        BY <3>2, <4>3
    <3> QED
      BY <3>1, <3>2, <3>4
  <2> QED
    BY <2>2, <2>4, <2>5 DEF l, m
<1>3. CASE T \in Int /\ MeansIt(T, m)
  <2>1. T # None /\ d = FindNearest(dirs, T)
    BY <1>1, <1>3, SentinelAssumption DEF Resolve
  <2>2. ~Garbled(dirs) /\ Dated(dirs, T) # {}
    BY <1>0, <2>1 DEF FindNearest
  <2>3. d \in Dated(dirs, T) /\ \A x \in Dated(dirs, T) : Single(x.name.n) <= Single(d.name.n)
    BY <1>3, <2>1, <2>2, NearestFound DEF SnapType
  <2>4. d.name.kind = "name" /\ Single(d.name.n) # None /\ Single(d.name.n) <= T
    BY <2>3 DEF Dated
  <2>5. d.name.n \in Int /\ d.taken \in 0 .. now /\ d.taken \in InstantsOf(d.name.n)
    BY <2>4, NamedOne
  <2>6. InstantsOf(d.name.n) = {d.taken} /\ Single(d.name.n) = d.taken
    BY <2>4, <2>5, SingleClear
  <2> HIDE DEF T, m
  <2>7. d.taken <= m /\ \A t \in Int : t <= m /\ t <= now => t <= T
    <3>1. m = T \/ (T > MaxTime /\ m \in Int /\ m >= MaxTime)
      BY <1>0, <1>3, <2>4, <2>5, <2>6 DEF MeansIt
    <3> QED
      BY <1>0, <1>3, <2>4, <2>5, <2>6, <3>1
  <2>8. ASSUME NEW x \in Clearly(dirs), x.taken <= m PROVE x.taken <= d.taken
    <3>1. x \in dirs /\ x.name.kind = "name" /\ Single(x.name.n) = x.taken /\ x.taken \in 0 .. now
      BY NamedOne DEF Clearly
    <3>2. x \in Dated(dirs, T)
      BY <1>0, <2>7, <2>8, <3>1, SentinelAssumption DEF Dated
    <3> QED
      BY <2>3, <2>6, <3>1, <3>2
  <2> QED
    BY <2>4, <2>5, <2>6, <2>7, <2>8 DEF m
<1> QED
  BY <1>0, <1>1, <1>2, <1>3, TargetMeant

-----------------------------------------------------------------------------
(* The kernel's answer, while it may keep it.                              *)

(* What a name kept since then leads to. *)
LeadsTo(e, since, n) ==
    /\ n.kind = "name" /\ n.n \in Int
    /\ \A t \in InstantsOf(n.n) :
          /\ t <= Meant(e, since)
          /\ \A x \in Clearly(dirs) :
                x.made < since /\ x.taken <= Meant(e, since) => x.taken <= t

CacheRight ==
    cached # None =>
        /\ cached.expr \in Asked
        /\ cached.since \in Nat /\ cached.since <= now /\ now <= cached.since + TTL
        /\ cached.expr \in Timely => LeadsTo(cached.expr, cached.since, path_of[cached.ino].dir)

(* ... and it goes on doing so while directories are added. *)
LEMMA LeadsOn ==
    ASSUME NEW e, NEW since, NEW n, LeadsTo(e, since, n),
           \A x \in dirs' : x \in dirs \/ (\E d \in dirs : Same(x, d)) \/ ~(x.made < since)
    PROVE  LeadsTo(e, since, n)'
<1> SUFFICES ASSUME NEW t \in InstantsOf(n.n), NEW x \in Clearly(dirs'),
                    x.made < since, x.taken <= Meant(e, since)
             PROVE  x.taken <= t
  BY DEF LeadsTo
<1>1. PICK d \in dirs : Same(x, d)
  BY DEF Clearly, Same
<1>2. d \in Clearly(dirs) /\ d.made < since /\ d.taken <= Meant(e, since)
  BY <1>1 DEF Clearly, Same
<1>3. d.taken <= t
  BY <1>2 DEF LeadsTo
<1> QED
  BY <1>1, <1>3 DEF Same

LEMMA CacheNext ==
    ASSUME NameInv, CacheRight, [Next]_vars
    PROVE  CacheRight'
<1>0. /\ SnapType /\ NamesRight /\ TypeOK /\ TypeOK' /\ now \in Nat
      /\ \A i \in DOMAIN path_of : i \in DOMAIN path_of' /\ path_of'[i] = path_of[i]
  BY NextType, TypeIs DEF NameInv, CollInv, Grows, SnapType
<1>1. CASE cached' = None
  BY <1>1 DEF CacheRight
<1>2. ASSUME cached' = cached, cached # None, now' \in Nat, now' >= now, now' <= cached.since + TTL,
             \A x \in dirs' : x \in dirs \/ (\E d \in dirs : Same(x, d)) \/ ~(x.made < cached.since)
      PROVE  CacheRight'
  <2>1. path_of'[cached.ino] = path_of[cached.ino]
    BY <1>0, <1>2, TypeIs
  <2>2. cached.expr \in Asked /\ cached.since \in Nat /\ cached.since <= now'
    BY <1>0, <1>2 DEF CacheRight
  <2>3. ASSUME cached.expr \in Timely
        PROVE  LeadsTo(cached.expr, cached.since, path_of[cached.ino].dir)'
    <3> DEFINE e == cached.expr  since == cached.since  n == path_of[cached.ino].dir
    <3>1. LeadsTo(e, since, n)
      BY <1>2, <2>3 DEF CacheRight
    <3>2. e' = e /\ since' = since /\ n' = n
      BY <1>2, <2>1
    <3> QED
      BY <1>2, <3>1, <3>2, LeadsOn
  <2> QED
    BY <1>2, <2>2, <2>3 DEF CacheRight
<1>3. CASE cached' = cached /\ UNCHANGED snapVars
  <2>1. cached # None => now <= cached.since + TTL
    BY DEF CacheRight
  <2> QED
    BY <1>0, <1>1, <1>2, <1>3, <2>1 DEF snapVars
<1>4. CASE Meanwhile
  <2>1. CASE cached' = cached /\ cached # None
    <3>1. now' <= cached.since + TTL
      BY <1>4, <2>1 DEF Meanwhile, Valid
    <3>2. now' \in Nat /\ now' >= now
          /\ \A x \in dirs' : x \in dirs \/ (\E d \in dirs : Same(x, d)) \/ x.made = now
      <4>1. CASE Tick
        BY <1>0, <4>1 DEF Tick
      <4>2. ASSUME NEW t \in DOMAIN taker, TakerStep(t)
            PROVE  /\ now' \in Nat /\ now' >= now
                   /\ \A x \in dirs' : x \in dirs \/ (\E d \in dirs : Same(x, d)) \/ x.made = now
        <5>1. DirsKept(t) /\ now' = now
          BY <1>0, <4>2, TakerStepType, TakerStepDirs
        <5> QED
          BY <1>0, <5>1 DEF DirsKept
      <4> QED
        BY <1>4, <4>1, <4>2 DEF Meanwhile, SnapNext
    <3>3. cached.since \in Nat /\ cached.since <= now
      BY <2>1 DEF CacheRight
    <3>4. ~(now < cached.since)
      BY <1>0, <3>3
    <3> QED
      BY <1>2, <2>1, <3>1, <3>2, <3>4
  <2> QED
    BY <1>1, <1>4, <2>1 DEF Meanwhile
<1>5. ASSUME NEW e \in Asked, Lookup(e) PROVE CacheRight'
  <2>1. CASE cached' = cached
    BY <1>3, <1>5, <2>1 DEF Lookup
  <2>2. CASE /\ Resolve(dirs, e, now) \in dirs
             /\ Assign({DirPath(Resolve(dirs, e, now))})
             /\ cached' = [expr |-> e, ino |-> ino_of'[DirPath(Resolve(dirs, e, now))], since |-> now]
    <3> DEFINE d == Resolve(dirs, e, now)
               p == DirPath(d)
    <3>1. UNCHANGED snapVars
      BY <1>5 DEF Lookup
    <3>2. path_of'[ino_of'[p]] = p
      <4>1. d \in dirs /\ Assign({p})
        BY <2>2
      <4> HIDE DEF d
      <4>2. {p} \subseteq Paths /\ IsFiniteSet({p})
        BY <4>1, DirectoryPath, FS_Singleton
      <4> HIDE DEF p
      <4>3. TablesInverse' /\ p \in DOMAIN ino_of'
        BY <1>0, <3>1, <4>1, <4>2, AssignTables, TypeIs DEF snapVars
      <4> QED
        BY <4>3 DEF TablesInverse
    <3>3. p.dir = d.name /\ cached'.since = now /\ cached'.expr = e /\ cached'.ino = ino_of'[p]
      BY <2>2 DEF DirPath
    <3>4. d \in dirs
      BY <2>2
    <3> DEFINE n == d.name
    <3>5. ASSUME e \in Timely PROVE LeadsTo(e, now, n)
      BY <1>0, <3>4, <3>5, ResolvesRight DEF LeadsTo
    <3>6. path_of'[cached'.ino].dir = n /\ now' = now /\ dirs' = dirs
      BY <3>1, <3>2, <3>3 DEF snapVars
    <3> HIDE DEF d, p, n
    <3>7. ASSUME e \in Timely PROVE LeadsTo(cached.expr, cached.since, path_of[cached.ino].dir)'
      BY <3>3, <3>5, <3>6, <3>7 DEF LeadsTo
    <3>8. now <= now + TTL
      BY <1>0, WhenFsAssumption
    <3> QED
      BY <1>0, <3>3, <3>6, <3>7, <3>8 DEF CacheRight
  <2> QED
    BY <1>5, <2>1, <2>2 DEF Lookup
<1>6. CASE UNCHANGED vars
  BY <1>3, <1>6 DEF vars, fsVars
<1>7. CASE \/ Forget \/ ListBegin \/ ListResolve \/ ListReply
            \/ \E ino \in DOMAIN path_of : ReadDir(ino) \/ \E f \in File : LookupFile(ino, f)
  BY <1>1, <1>3, <1>7 DEF Forget, ListBegin, ListResolve, ListReply, ReadDir, LookupFile
<1> QED
  BY <1>4, <1>5, <1>6, <1>7 DEF Next

(* What the kernel may answer for itself is the newest snapshot there was  *)
(* when it asked of those not after the instant meant then, whatever is    *)
(* made in SNAP_ROOT since; so is every answer the moment it is given      *)
(* (main.rs:104-117, time_expr.rs:120-134).                                *)
THEOREM CachedNamesRecent == Spec => []CachedNameIsRecent
<1> DEFINE Inv == NameInv /\ CacheRight
<1>1. Init => Inv
  BY NameInit DEF Init, CacheRight
<1>2. Inv /\ [Next]_vars => Inv'
  BY NameNext, CacheNext
<1>3. Inv => CachedNameIsRecent
  <2> SUFFICES ASSUME Inv, cached # None, cached.expr.kind \notin {"other", "months"}
               PROVE  /\ now <= cached.since + TTL
                      /\ \A d \in dirs : DirPath(d) = path_of[cached.ino] =>
                            /\ d.taken <= Meant(cached.expr, cached.since)
                            /\ \A x \in Clearly(dirs) :
                                  x.made < cached.since /\ x.taken <= Meant(cached.expr, cached.since)
                                     => x.taken <= d.taken
    BY DEF CachedNameIsRecent
  <2>1. cached.expr \in Timely /\ now <= cached.since + TTL
    BY DEF CacheRight, Timely
  <2> DEFINE n == path_of[cached.ino].dir
  <2>2. LeadsTo(cached.expr, cached.since, n)
    BY <2>1 DEF CacheRight
  <2> HIDE DEF n
  <2>3. ASSUME NEW d \in dirs, DirPath(d) = path_of[cached.ino]
        PROVE  d.taken \in InstantsOf(n.n)
    <3>1. d.name = n
      BY <2>3 DEF DirPath, n
    <3>2. SnapType /\ NamesRight /\ n.kind = "name"
      BY <2>2, TypeIs DEF NameInv, CollInv, LeadsTo
    <3> QED
      BY <3>1, <3>2, NamedOne
  <2> QED
    BY <2>1, <2>2, <2>3 DEF LeadsTo
<1> QED
  BY <1>1, <1>2, <1>3, PTL DEF Spec

-----------------------------------------------------------------------------
(* The past.                                                               *)

(* The clock does not matter to a name or a date. *)
LEMMA AbsoluteTarget ==
    ASSUME NEW e \in Absolute, NEW i, NEW j
    PROVE  ResolveTarget(e, i) = ResolveTarget(e, j) /\ Meant(e, i) = Meant(e, j)
  BY DEF Absolute, ResolveTarget, Meant

(* Directories are added, none of them up to the instant asked for. *)
LEMMA ShownStays ==
    ASSUME NEW D \in SUBSET SnapDir, NEW E \in SUBSET SnapDir, NEW T \in Int,
           \A d \in D : \E x \in E : x.name = d.name,
           \A x \in E : (\E d \in D : d.name = x.name)
                        \/ (x.name.kind = "name" /\ (Single(x.name.n) = None \/ T < Single(x.name.n)))
    PROVE  \/ FindNearest(D, T) = None /\ FindNearest(E, T) = None
           \/ /\ FindNearest(D, T) \in D /\ FindNearest(E, T) \in E
              /\ FindNearest(D, T).name = FindNearest(E, T).name
<1>1. Garbled(D) <=> Garbled(E)
  BY DEF Garbled
<1>2. CASE Garbled(D)
  BY <1>1, <1>2 DEF FindNearest
<1>3. CASE ~Garbled(D)
  <2>1. \A d \in Dated(D, T) : \E x \in Dated(E, T) : x.name = d.name
    BY DEF Dated
  <2>2. \A x \in Dated(E, T) : /\ x \in E /\ x.name.kind = "name" /\ Single(x.name.n) \in Int
                               /\ Single(x.name.n) <= T
    BY SingleType DEF Dated, SnapDir, SnapName
  <2>3. \A x \in Dated(E, T) : \E d \in D : d.name = x.name
    BY <2>2, SentinelAssumption
  <2>4. \A x \in Dated(E, T) : \E d \in Dated(D, T) : x.name = d.name
    <3> SUFFICES ASSUME NEW x \in Dated(E, T) PROVE \E d \in Dated(D, T) : x.name = d.name
      OBVIOUS
    <3>1. PICK d \in D : d.name = x.name
      BY <2>3
    <3> QED
      BY <3>1 DEF Dated
  <2>5. CASE Dated(D, T) = {}
    BY <2>4, <2>5 DEF FindNearest
  <2>6. CASE Dated(D, T) # {}
    <3> DEFINE a == FindNearest(D, T)  b == FindNearest(E, T)
    <3>1. Dated(E, T) # {}
      BY <2>1, <2>6
    <3>2. a \in Dated(D, T) /\ \A x \in Dated(D, T) : Single(x.name.n) <= Single(a.name.n)
      BY <1>3, <2>6, NearestFound
    <3>3. b \in Dated(E, T) /\ \A x \in Dated(E, T) : Single(x.name.n) <= Single(b.name.n)
      BY <1>1, <1>3, <3>1, NearestFound
    <3> HIDE DEF a, b
    <3>4. Single(a.name.n) = Single(b.name.n)
      <4>1. PICK x \in Dated(E, T) : x.name = a.name
        BY <2>1, <3>2
      <4>2. PICK d \in Dated(D, T) : d.name = b.name
        BY <2>4, <3>3
      <4>3. Single(a.name.n) <= Single(b.name.n) /\ Single(b.name.n) <= Single(a.name.n)
        BY <3>2, <3>3, <4>1, <4>2
      <4>4. Single(a.name.n) \in Int /\ Single(b.name.n) \in Int
        BY <2>2, <3>3, <4>1
      <4> QED
        BY <4>3, <4>4
    <3>5. a \in SnapDir /\ b \in SnapDir /\ a.name.kind = "name" /\ b.name.kind = "name"
          /\ Single(a.name.n) # None /\ Single(b.name.n) # None /\ a \in D /\ b \in E
      BY <3>2, <3>3 DEF Dated
    <3>6. a.name.n \in Int /\ b.name.n \in Int
          /\ a.name = [kind |-> a.name.kind, n |-> a.name.n]
          /\ b.name = [kind |-> b.name.kind, n |-> b.name.n]
      BY <3>5 DEF SnapDir, SnapName
    <3>7. a.name.n = b.name.n
      BY <3>4, <3>5, <3>6, SingleType
    <3> QED
      BY <3>5, <3>6, <3>7 DEF a, b
  <2> QED
    BY <2>5, <2>6
<1> QED
  BY <1>2, <1>3

LEMMA PastStep ==
    ASSUME SnapType, NamesRight, AskedBefore, NEW t \in DOMAIN taker, TakerStep(t),
           NEW e \in Absolute, Meant(e, now) < now,
           \A s \in DOMAIN taker : taker[s].at \in {"check", "copy"} => taker[s].asked > Meant(e, now)
    PROVE  Shown(dirs', e, now) = Shown(dirs, e, now)
<1> DEFINE T == ResolveTarget(e, now)
           m == Meant(e, now)
<1>0. /\ now \in Nat /\ now <= MaxTime /\ MaxTime \in Nat
      /\ dirs \subseteq SnapDir /\ dirs' \subseteq SnapDir /\ DirsKept(t)
      /\ None \notin SnapDir /\ Panic \notin SnapDir /\ None # Panic
      /\ e \in Timely /\ e.n \in Int /\ e.kind \in {"name", "date"} /\ e = Expr(e.kind, e.n)
  BY TakerStepDirs, SnapRootAssumption, AskedAssumption, SentinelAssumption
     DEF SnapType, NamesRight, Absolute, Timely, Expr
<1>1. CASE T = Panic
  BY <1>1 DEF Shown, Resolve
<1>2. \A d \in dirs : \E x \in dirs' : x.name = d.name
  BY <1>0 DEF DirsKept, Same
<1>3. \A x \in dirs' : (\E d \in dirs : d.name = x.name)
                       \/ (\E i \in Nat : x.name = Expr("name", Label(i)) /\ m < i)
  <2> SUFFICES ASSUME NEW x \in dirs', ~ \E d \in dirs : d.name = x.name
               PROVE  \E i \in Nat : x.name = Expr("name", Label(i)) /\ m < i
    OBVIOUS
  <2>1. taker[t].at = "copy" /\ x.name = Expr("name", taker[t].ts)
    BY <1>0 DEF DirsKept, Same
  <2>2. taker[t].ts = Label(taker[t].asked) /\ taker[t].asked \in Nat /\ taker[t].asked > m
    BY <2>1 DEF NamesRight, SnapType, TakerState
  <2> HIDE DEF m
  <2> QED
    BY <2>1, <2>2
<1>4. CASE T = None /\ e.kind = "name"
  <2>1. ASSUME NEW i \in Nat, e = Expr("name", Label(i)) PROVE ~(m < i)
    <3>1. Label(i) = e.n
      BY <2>1 DEF Expr
    <3>2. i \in InstantsOf(e.n)
      BY <1>0, <3>1, InstantsType
    <3>3. m = Max(InstantsOf(e.n)) /\ i <= m /\ m \in Int
      BY <1>0, <1>4, <3>2, LastInstant, InstantsType DEF Meant
    <3> HIDE DEF m
    <3> QED
      BY <3>3
  <2>2. (\E d \in dirs : d.name = e) <=> (\E x \in dirs' : x.name = e)
    BY <1>2, <1>3, <2>1
  <2>3. Resolve(dirs, e, now) = FindExact(dirs, e) /\ Resolve(dirs', e, now) = FindExact(dirs', e)
    BY <1>0, <1>4 DEF Resolve
  <2>4. CASE \E d \in dirs : d.name = e
    <3>1. /\ FindExact(dirs, e) \in dirs /\ FindExact(dirs, e).name = e
          /\ FindExact(dirs', e) \in dirs' /\ FindExact(dirs', e).name = e
      BY <2>2, <2>4 DEF FindExact
    <3> QED
      BY <1>0, <2>3, <3>1 DEF Shown
  <2>5. CASE ~ \E d \in dirs : d.name = e
    BY <2>2, <2>3, <2>5 DEF FindExact, Shown
  <2> QED
    BY <2>4, <2>5
<1>5. CASE T \in Int /\ MeansIt(T, m)
  <2>1. T # None /\ T # Panic
    BY <1>5, SentinelAssumption
  <2>2. ASSUME NEW i \in Nat, m < i PROVE T < i
    <3>1. m < now
      OBVIOUS
    <3> HIDE DEF T, m
    <3> QED
      BY <1>0, <1>5, <2>2, <3>1 DEF MeansIt
  <2>3. \A x \in dirs' : (\E d \in dirs : d.name = x.name)
           \/ (x.name.kind = "name" /\ (Single(x.name.n) = None \/ T < Single(x.name.n)))
    <3>1. ASSUME NEW i \in Nat, NEW n, n = Expr("name", Label(i)), m < i
          PROVE  n.kind = "name" /\ (Single(n.n) = None \/ T < Single(n.n))
      <4>1. n.kind = "name" /\ n.n = Label(i) /\ n.n \in Int
        BY <3>1, LabelType DEF Expr
      <4>2. Single(n.n) # None => Single(n.n) = i
        BY <4>1, SingleClear, ClearSingle
      <4> QED
        BY <2>2, <3>1, <4>1, <4>2
    <3> HIDE DEF T, m
    <3> QED
      BY <1>3, <3>1
  <2>4. Resolve(dirs, e, now) = FindNearest(dirs, T) /\ Resolve(dirs', e, now) = FindNearest(dirs', T)
    BY <2>1 DEF Resolve
  <2> HIDE DEF T, m
  <2> DEFINE a == FindNearest(dirs, T)
             b == FindNearest(dirs', T)
  <2>5. (a = None /\ b = None) \/ (a \in dirs /\ b \in dirs' /\ a.name = b.name)
    BY <1>0, <1>2, <1>5, <2>3, ShownStays
  <2> HIDE DEF a, b
  <2> QED
    BY <1>0, <2>4, <2>5 DEF Shown, a, b
<1> QED
  BY <1>0, <1>1, <1>4, <1>5, TargetMeant

(* A name or a date shows for ever what it shows once its instant is past  *)
(* and no run of snapshot.sh still holds a name up to it, whatever is      *)
(* made in SNAP_ROOT then (time_expr.rs:120-148).                          *)
THEOREM PastStays == Spec => PastStaysPut
<1> DEFINE Stays == \A e \in Absolute :
              /\ Meant(e, now) < now
              /\ \A t \in DOMAIN taker : taker[t].at \in {"check", "copy"} => taker[t].asked > Meant(e, now)
              => Shown(dirs', e, now') = Shown(dirs, e, now)
<1>1. NameInv /\ [Next]_vars => [Stays]_vars
  <2> SUFFICES ASSUME NameInv, Next, NEW e \in Absolute, Meant(e, now) < now,
                      \A t \in DOMAIN taker : taker[t].at \in {"check", "copy"} =>
                          taker[t].asked > Meant(e, now)
               PROVE  Shown(dirs', e, now') = Shown(dirs, e, now)
    OBVIOUS
  <2>1. SnapType /\ NamesRight /\ AskedBefore
    BY TypeIs DEF NameInv, CollInv
  <2>2. ASSUME NEW D, NEW i, NEW j PROVE Shown(D, e, i) = Shown(D, e, j)
    BY AbsoluteTarget DEF Shown, Resolve
  <2>3. CASE dirs' = dirs
    BY <2>2, <2>3
  <2>4. ASSUME NEW t \in DOMAIN taker, TakerStep(t) PROVE Shown(dirs', e, now') = Shown(dirs, e, now)
    BY <2>1, <2>2, <2>4, PastStep, TakerStepType
  <2> QED
    BY <2>3, <2>4 DEF Next, Meanwhile, SnapNext, Tick, Forget, Lookup, ReadDir, LookupFile,
                          ListBegin, ListResolve, ListReply, snapVars
<1> QED
  BY <1>1, NamesStayRight, PTL DEF Spec, PastStaysPut

-----------------------------------------------------------------------------
(* An ls of the root.                                                      *)

(* A calendar in which no day comes back, though labels do, and no month   *)
(* is shorter than a week or than nothing: no change of the clock goes     *)
(* back across midnight, and one month is one after the cast, too.         *)
PlainCalendar ==
    /\ \A i, j \in Nat : i <= j => DayOf(i) <= DayOf(j)
    /\ FirstDays # <<>> /\ FirstDays[1] <= DayOf(0)
    /\ \A m \in 2 .. Len(FirstDays) : FirstDays[m] - FirstDays[m - 1] >= Week
    /\ MonthWrap > 1

(* The instant a shortcut stands for, and the day whose end it is. *)
Aim(i, t) == ResolveTarget(Shortcuts[i], t)

Back(i, t) ==
    CASE i = 3 -> DayOf(t) - 1
      [] i = 4 -> DayOf(t) - Week
      [] i = 5 -> MonthsBack(DayOf(t), 1)

LEMMA DayType == ASSUME NEW i \in Int PROVE DayOf(i) \in Int
<1>1. Label(i) \in Int /\ Day \in Nat \ {0}
  BY LabelType, CalendarAssumption
<1> QED
  BY <1>1 DEF DayOf

LEMMA EndsRise ==
    ASSUME NEW d \in Int, NEW e \in Int, d <= e, EndOfDay(d) # Panic, EndOfDay(e) # Panic
    PROVE  EndOfDay(d) <= EndOfDay(e)
<1>1. EndOfDay(d) \in Int /\ DayOf(EndOfDay(d)) <= d
  <2>1. EndOfDay(d) \in Int /\ \A j \in Int : j <= EndOfDay(d) <=> DayOf(j) <= d
    BY EndParts
  <2>2. EndOfDay(d) <= EndOfDay(d)
    BY <2>1
  <2> QED
    BY <2>1, <2>2
<1>2. DayOf(EndOfDay(d)) \in Int
  BY <1>1, DayType
<1>3. DayOf(EndOfDay(d)) <= e
  BY <1>1, <1>2
<1> QED
  BY <1>1, <1>3, EndParts

LEMMA FirstsRise ==
    ASSUME NEW m \in 1 .. Len(FirstDays), NEW n \in 1 .. Len(FirstDays), m < n
    PROVE  FirstDays[m] < FirstDays[n]
<1> DEFINE S == {k \in 1 .. Len(FirstDays) : m < k /\ ~(FirstDays[m] < FirstDays[k])}
<1>1. FirstDays \in Seq(Nat) /\ \A k \in 2 .. Len(FirstDays) : FirstDays[k - 1] < FirstDays[k]
  BY CalendarAssumption
<1>2. \A k \in 1 .. Len(FirstDays) : k \in Nat /\ FirstDays[k] \in Nat
  BY <1>1
<1>3. ASSUME S # {} PROVE FALSE
  <2>1. S \in SUBSET Int /\ \A k \in S : 1 <= k
    BY <1>2
  <2> HIDE DEF S
  <2>2. PICK k \in S : \A x \in S : k <= x
    <3>1. S \in SUBSET Int /\ S # {} /\ 1 \in Int /\ \A x \in S : 1 <= x
      BY <1>3, <2>1
    <3> QED
      BY <3>1, LeastExists, Zenon
  <2> USE DEF S
  <2>3. k \in 1 .. Len(FirstDays) /\ m < k /\ ~(FirstDays[m] < FirstDays[k])
    BY <2>2
  <2>4. k - 1 \notin S /\ k \in 2 .. Len(FirstDays) /\ k - 1 \in 1 .. Len(FirstDays)
    BY <1>1, <2>1, <2>2, <2>3
  <2>5. m = k - 1 \/ FirstDays[m] < FirstDays[k - 1]
    BY <1>1, <2>3, <2>4
  <2>6. FirstDays[k - 1] < FirstDays[k]
    BY <1>1, <2>4
  <2> QED
    BY <1>2, <2>3, <2>4, <2>5, <2>6
<1> QED
  BY <1>3

LEMMA MonthIs ==
    ASSUME NEW d \in Int, FirstDays # <<>>, FirstDays[1] <= d
    PROVE  /\ MonthOf(d) \in 1 .. Len(FirstDays) /\ FirstDays[MonthOf(d)] <= d
           /\ \A m \in 1 .. Len(FirstDays) : FirstDays[m] <= d => m <= MonthOf(d)
<1> DEFINE S == {m \in 1 .. Len(FirstDays) : FirstDays[m] <= d}
<1>1. FirstDays \in Seq(Nat) /\ Len(FirstDays) \in Nat /\ 1 \in 1 .. Len(FirstDays)
  BY CalendarAssumption
<1>2. S \in SUBSET Int /\ 1 \in S /\ \A m \in S : m <= Len(FirstDays)
  BY <1>1
<1>3. MonthOf(d) = Max(S)
  BY DEF MonthOf
<1>4. \A m \in S : m \in 1 .. Len(FirstDays) /\ FirstDays[m] <= d
  OBVIOUS
<1>5. \A m \in 1 .. Len(FirstDays) : FirstDays[m] <= d => m \in S
  OBVIOUS
<1> HIDE DEF S
<1>6. PICK m \in S : \A x \in S : m >= x
  <2>1. S \in SUBSET Int /\ S # {} /\ Len(FirstDays) \in Int /\ \A x \in S : x <= Len(FirstDays)
    BY <1>1, <1>2
  <2>2. \E m \in S : \A x \in S : x <= m
    BY <2>1, GreatestExists, Zenon
  <2> QED
    BY <2>1, <2>2
<1>7. Max(S) = m
  BY <1>2, <1>6, MaxIs
<1>8. \A x \in S : x <= m
  BY <1>2, <1>6
<1> QED
  BY <1>3, <1>4, <1>5, <1>6, <1>7, <1>8

LEMMA LesserOfTwo ==
    ASSUME NEW a \in Int, NEW b \in Int
    PROVE  Min({a, b}) \in {a, b} /\ Min({a, b}) <= a /\ Min({a, b}) <= b
<1>1. \E x \in {a, b} : \A y \in {a, b} : x <= y
  OBVIOUS
<1>2. Min({a, b}) \in {a, b} /\ \A y \in {a, b} : Min({a, b}) <= y
  BY <1>1 DEF Min
<1> QED
  BY <1>2

(* A day one month back is of the month before, a week back or more. *)
LEMMA MonthBack ==
    ASSUME PlainCalendar, NEW d \in Int, FirstDays[1] <= d
    PROVE  /\ MonthOf(d) = 1 => MonthsBack(d, 1) = None
           /\ MonthOf(d) > 1 =>
                 /\ MonthsBack(d, 1) \in Int /\ MonthsBack(d, 1) <= d - Week
                 /\ FirstDays[MonthOf(d) - 1] <= MonthsBack(d, 1)
                 /\ MonthsBack(d, 1) < FirstDays[MonthOf(d)]
                 /\ MonthsBack(d, 1) <= FirstDays[MonthOf(d) - 1] + d - FirstDays[MonthOf(d)]
                 /\ \/ MonthsBack(d, 1) = FirstDays[MonthOf(d)] - 1
                    \/ MonthsBack(d, 1) = FirstDays[MonthOf(d) - 1] + d - FirstDays[MonthOf(d)]
<1>1. FirstDays \in Seq(Nat) /\ Week \in Nat /\ Len(FirstDays) \in Nat
  BY CalendarAssumption
<1>2. PICK M \in 1 .. Len(FirstDays) : M = MonthOf(d) /\ FirstDays[M] <= d
  BY MonthIs DEF PlainCalendar
<1>3. MonthsBack(d, 1) = IF M - 1 < 1 THEN None
                         ELSE Min({FirstDays[M - 1] + d - FirstDays[M], FirstDays[M - 1 + 1] - 1})
  BY <1>2 DEF MonthsBack
<1>4. CASE M = 1
  BY <1>2, <1>3, <1>4
<1>5. CASE M > 1
  <2>1. M \in 2 .. Len(FirstDays) /\ M - 1 \in 1 .. Len(FirstDays) /\ M - 1 + 1 = M
    BY <1>1, <1>2, <1>5
  <2>2. PICK f \in Nat, g \in Nat : f = FirstDays[M] /\ g = FirstDays[M - 1] /\ g < f /\ f - g >= Week
    <3>1. FirstDays[M] \in Nat /\ FirstDays[M - 1] \in Nat
      BY <1>1, <2>1
    <3>2. FirstDays[M] - FirstDays[M - 1] >= Week /\ Week >= 1
      BY <2>1, CalendarAssumption DEF PlainCalendar
    <3>3. FirstDays[M - 1] < FirstDays[M]
      BY <2>1, CalendarAssumption
    <3> QED
      BY <3>1, <3>2, <3>3
  <2>3. MonthsBack(d, 1) = Min({g + d - f, f - 1})
    BY <1>3, <1>5, <2>1, <2>2
  <2>4. g + d - f \in Int /\ f - 1 \in Int
    BY <2>2
  <2>5. PICK x \in {g + d - f, f - 1} : x = Min({g + d - f, f - 1}) /\ x <= g + d - f /\ x <= f - 1
    BY <2>4, LesserOfTwo
  <2>6. f <= d
    BY <1>2, <2>2
  <2>7. x \in Int /\ x <= d - Week /\ g <= x /\ x < f
    <3>1. x = g + d - f \/ x = f - 1
      BY <2>5
    <3>2. x \in Int
      BY <2>2, <3>1
    <3>3. x <= g + d - f /\ x <= f - 1
      BY <2>5
    <3>4. f - g >= Week /\ g < f /\ f <= d
      BY <2>2, <2>6
    <3>5. f \in Nat /\ g \in Nat /\ Week \in Nat
      BY <1>1, <2>2
    <3>6. x <= d - Week /\ g <= x
      BY <3>1, <3>2, <3>3, <3>4, <3>5
    <3>7. x < f
      BY <3>2, <3>3, <3>5
    <3> QED
      BY <3>2, <3>6, <3>7
  <2>8. x = f - 1 \/ x = g + d - f
    BY <2>5
  <2>9. MonthsBack(d, 1) = x /\ MonthOf(d) = M
    BY <1>2, <2>3, <2>5
  <2> QED
    BY <1>5, <2>2, <2>5, <2>7, <2>8, <2>9
<1> QED
  BY <1>2, <1>4, <1>5

LEMMA MonthBackRises ==
    ASSUME PlainCalendar, NEW d \in Int, FirstDays[1] <= d, NEW e \in Int, d <= e,
           MonthsBack(d, 1) # None
    PROVE  MonthsBack(e, 1) # None /\ MonthsBack(d, 1) <= MonthsBack(e, 1)
<1>0. FirstDays \in Seq(Nat) /\ FirstDays[1] \in Nat /\ FirstDays[1] <= e /\ Len(FirstDays) \in Nat
  <2>1. FirstDays \in Seq(Nat) /\ FirstDays # <<>>
    BY CalendarAssumption DEF PlainCalendar
  <2> QED
    BY <2>1
<1>1. PICK M \in 1 .. Len(FirstDays), N \in 1 .. Len(FirstDays) :
         M = MonthOf(d) /\ N = MonthOf(e) /\ M <= N /\ FirstDays[M] <= d
  <2>1. MonthOf(d) \in 1 .. Len(FirstDays) /\ FirstDays[MonthOf(d)] <= d
    BY MonthIs DEF PlainCalendar
  <2>2. FirstDays[MonthOf(d)] \in Nat
    BY <1>0, <2>1
  <2>3. FirstDays[MonthOf(d)] <= e
    BY <2>1, <2>2
  <2>4. MonthOf(e) \in 1 .. Len(FirstDays) /\ MonthOf(d) <= MonthOf(e)
    BY <1>0, <2>1, <2>3, MonthIs DEF PlainCalendar
  <2> QED
    BY <2>1, <2>4
<1>2. M > 1 /\ N > 1
  <2>1. M # 1 /\ M \in Int /\ M >= 1
    BY <1>0, <1>1, MonthBack
  <2> QED
    BY <1>1, <2>1
<1>3. PICK x \in Int, y \in Int : x = MonthsBack(d, 1) /\ y = MonthsBack(e, 1)
  BY <1>0, <1>1, <1>2, MonthBack
<1>4. /\ M - 1 \in 1 .. Len(FirstDays) /\ N - 1 \in 1 .. Len(FirstDays)
      /\ FirstDays[M] \in Nat /\ FirstDays[N] \in Nat
      /\ FirstDays[M - 1] \in Nat /\ FirstDays[N - 1] \in Nat
  <2>1. M - 1 \in 1 .. Len(FirstDays) /\ N - 1 \in 1 .. Len(FirstDays)
    <3>1. \A k \in 1 .. Len(FirstDays) : k > 1 => k - 1 \in 1 .. Len(FirstDays)
      BY <1>0
    <3> QED
      BY <1>1, <1>2, <3>1
  <2>2. \A k \in 1 .. Len(FirstDays) : FirstDays[k] \in Nat
    BY <1>0, ElementOfSeq
  <2> QED
    BY <1>1, <2>1, <2>2
<1> DEFINE f == FirstDays[M]      g == FirstDays[N]
           ff == FirstDays[M - 1] gg == FirstDays[N - 1]
<1>5. x < f /\ x <= ff + d - f
  BY <1>0, <1>1, <1>2, <1>3, MonthBack
<1>6. gg <= y /\ (y = g - 1 \/ y = gg + e - g)
  BY <1>0, <1>1, <1>2, <1>3, MonthBack
<1>7. (M = N /\ f = g /\ ff = gg) \/ f <= gg
  <2>1. CASE M = N
    BY <2>1
  <2>2. CASE M = N - 1
    <3>1. f = gg
      BY <2>2
    <3>2. f \in Nat
      BY <1>4
    <3> QED
      BY <3>1, <3>2
  <2>3. CASE M < N - 1
    <3>1. M < N - 1 /\ M \in 1 .. Len(FirstDays) /\ N - 1 \in 1 .. Len(FirstDays)
      BY <1>1, <1>4, <2>3
    <3>2. FirstDays[M] < FirstDays[N - 1]
      BY <3>1, FirstsRise
    <3>3. f \in Nat /\ gg \in Nat
      BY <1>4
    <3> QED
      BY <3>2, <3>3
  <2>4. M \in Int /\ N \in Int /\ M <= N
    BY <1>1
  <2> QED
    BY <2>1, <2>2, <2>3, <2>4
<1>8. f \in Nat /\ g \in Nat /\ ff \in Nat /\ gg \in Nat
  BY <1>4
<1> HIDE DEF f, g, ff, gg
<1>9. x <= y
  BY <1>5, <1>6, <1>7, <1>8
<1>10. y # None
  BY SentinelAssumption
<1> QED
  BY <1>3, <1>9, <1>10

LEMMA AimIs ==
    ASSUME PlainCalendar, NEW t \in Nat
    PROVE  /\ Aim(1, t) = t /\ Aim(2, t) = t
           /\ \A i \in 3 .. 5 :
                 Aim(i, t) = IF Back(i, t) = None THEN None ELSE EndOfDay(Back(i, t))
<1> USE DEF Expr
<1>1. Shortcuts[1] = Now /\ Shortcuts[2] = Now /\ Now.kind = "span" /\ Now.n = 0
  BY DEF Shortcuts, Now
<1>2. ~(t - 0 < Earliest) /\ t - 0 = t
  BY CalendarAssumption
<1>3. Aim(1, t) = t /\ Aim(2, t) = t
  BY <1>1, <1>2 DEF Aim, ResolveTarget
<1>4. DayOf(t) \in Int /\ Week \in Nat
  BY DayType, CalendarAssumption
<1>5. DayOf(t) - 1 # None /\ DayOf(t) - Week # None
  BY <1>4, SentinelAssumption
<1>6. Aim(3, t) = EndOfDay(Back(3, t)) /\ Back(3, t) # None
  <2>1. Shortcuts[3] = Expr("eve", 1)
    BY DEF Shortcuts
  <2> QED
    BY <1>5, <2>1 DEF Aim, Back, ResolveTarget
<1>7. Aim(4, t) = EndOfDay(Back(4, t)) /\ Back(4, t) # None
  <2>1. Shortcuts[4] = Expr("eve", Week)
    BY DEF Shortcuts
  <2> QED
    BY <1>5, <2>1 DEF Aim, Back, ResolveTarget
<1>8. Aim(5, t) = IF Back(5, t) = None THEN None ELSE EndOfDay(Back(5, t))
  <2>1. Shortcuts[5] = Expr("months", 1)
    BY DEF Shortcuts
  <2>2. 1 % MonthWrap = 1
    <3> DEFINE q == 1 \div MonthWrap  r == 1 % MonthWrap
    <3>1. MonthWrap \in Nat /\ MonthWrap >= 2
      BY CalendarAssumption DEF PlainCalendar
    <3>2. q \in Int /\ r \in 0 .. MonthWrap - 1 /\ 1 = MonthWrap * q + r
      BY <3>1
    <3> HIDE DEF q, r
    <3>3. q >= 1 => MonthWrap * q >= MonthWrap
      BY <3>1, <3>2
    <3>4. q <= -1 => MonthWrap * q <= -MonthWrap
      BY <3>1, <3>2
    <3>5. q = 0 => MonthWrap * q = 0
      BY <3>1
    <3> QED
      BY <3>1, <3>2, <3>3, <3>4, <3>5 DEF r
  <2> QED
    BY <2>1, <2>2 DEF Aim, Back, ResolveTarget
<1> QED
  BY <1>3, <1>6, <1>7, <1>8

LEMMA BackFalls ==
    ASSUME PlainCalendar, NEW t \in Nat
    PROVE  \A i \in 3 .. 5 : Back(i, t) # None => Back(i, t) \in Int /\ Back(i, t) < DayOf(t)
<1>1. DayOf(t) \in Int /\ Week \in Nat \ {0} /\ FirstDays[1] <= DayOf(t)
  <2>1. DayOf(t) \in Int /\ DayOf(0) \in Int /\ DayOf(0) <= DayOf(t) /\ FirstDays[1] <= DayOf(0)
    BY DayType DEF PlainCalendar
  <2>2. FirstDays[1] \in Nat
    BY CalendarAssumption DEF PlainCalendar
  <2> QED
    BY <2>1, <2>2, CalendarAssumption
<1>2. Back(3, t) = DayOf(t) - 1 /\ Back(4, t) = DayOf(t) - Week
  BY DEF Back
<1>3. Back(5, t) # None => Back(5, t) \in Int /\ Back(5, t) <= DayOf(t) - Week
  <2>1. FirstDays # <<>> /\ FirstDays \in Seq(Nat)
    BY CalendarAssumption DEF PlainCalendar
  <2>2. MonthOf(DayOf(t)) \in 1 .. Len(FirstDays)
    BY <1>1, <2>1, MonthIs
  <2>3. MonthOf(DayOf(t)) = 1 \/ MonthOf(DayOf(t)) > 1
    BY <2>1, <2>2
  <2>4. Back(5, t) = MonthsBack(DayOf(t), 1)
    BY DEF Back
  <2> QED
    BY <1>1, <2>3, <2>4, MonthBack
<1>4. /\ Back(3, t) \in Int /\ Back(3, t) < DayOf(t)
      /\ Back(4, t) \in Int /\ Back(4, t) < DayOf(t)
      /\ Back(5, t) # None => Back(5, t) \in Int /\ Back(5, t) < DayOf(t)
  BY <1>1, <1>2, <1>3
<1> QED
  BY <1>4

(* As time goes by, none goes further back. *)
LEMMA BackRises ==
    ASSUME PlainCalendar, NEW s \in Nat, NEW t \in Nat, s <= t,
           NEW i \in 3 .. 5, Back(i, s) # None
    PROVE  Back(i, t) # None /\ Back(i, s) <= Back(i, t)
<1>1. DayOf(s) \in Int /\ DayOf(t) \in Int /\ DayOf(s) <= DayOf(t) /\ Week \in Nat
  <2>1. DayOf(s) \in Int /\ DayOf(t) \in Int
    BY DayType
  <2>2. DayOf(s) <= DayOf(t)
    BY DEF PlainCalendar
  <2> QED
    BY <2>1, <2>2, CalendarAssumption
<1>2. FirstDays[1] <= DayOf(s)
  <2>1. DayOf(0) \in Int /\ DayOf(0) <= DayOf(s) /\ FirstDays[1] <= DayOf(0)
    BY DayType DEF PlainCalendar
  <2>2. FirstDays[1] \in Nat
    BY CalendarAssumption DEF PlainCalendar
  <2> QED
    BY <1>1, <2>1, <2>2
<1>3. CASE i = 3
  BY <1>1, <1>3, SentinelAssumption DEF Back
<1>4. CASE i = 4
  BY <1>1, <1>4, SentinelAssumption DEF Back
<1>5. CASE i = 5
  <2>1. Back(i, s) = MonthsBack(DayOf(s), 1) /\ Back(i, t) = MonthsBack(DayOf(t), 1)
    BY <1>5 DEF Back
  <2> QED
    BY <1>1, <1>2, <2>1, MonthBackRises
<1> QED
  BY <1>3, <1>4, <1>5

LEMMA EndType == ASSUME NEW d \in Int PROVE EndOfDay(d) \in Int \cup {Panic}
  BY EndParts

LEMMA AimType ==
    ASSUME PlainCalendar, NEW t \in Nat, NEW i \in 1 .. 5
    PROVE  Aim(i, t) \in Int \cup {None, Panic}
<1>1. CASE i \in {1, 2}
  BY <1>1, AimIs
<1>2. CASE i \in 3 .. 5
  <2>1. Back(i, t) # None => Back(i, t) \in Int
    BY <1>2, BackFalls
  <2> QED
    BY <1>2, <2>1, AimIs, EndType
<1> QED
  BY <1>1, <1>2

LEMMA AimsRise ==
    ASSUME PlainCalendar, NEW s \in Nat, NEW t \in Nat, s <= t, NEW i \in 1 .. 5,
           Aim(i, s) \in Int, Aim(i, t) # Panic
    PROVE  Aim(i, t) \in Int /\ Aim(i, s) <= Aim(i, t)
<1>1. CASE i \in {1, 2}
  BY <1>1, AimIs
<1>2. CASE i \in 3 .. 5
  <2>1. Aim(i, s) # None /\ Aim(i, s) # Panic
    BY SentinelAssumption
  <2>2. Aim(i, s) = IF Back(i, s) = None THEN None ELSE EndOfDay(Back(i, s))
    BY <1>2, AimIs
  <2>3. Back(i, s) # None /\ Aim(i, s) = EndOfDay(Back(i, s))
    BY <2>1, <2>2
  <2>4. Back(i, t) # None /\ Back(i, s) <= Back(i, t)
    BY <1>2, <2>3, BackRises
  <2>5. Back(i, s) \in Int /\ Back(i, t) \in Int
    BY <1>2, <2>3, <2>4, BackFalls
  <2>6. Aim(i, t) = EndOfDay(Back(i, t))
    BY <1>2, <2>4, AimIs
  <2>7. EndOfDay(Back(i, t)) # Panic /\ EndOfDay(Back(i, s)) # Panic
    BY <2>1, <2>3, <2>6
  <2> QED
    BY <2>3, <2>4, <2>5, <2>6, <2>7, EndsRise, EndParts
<1> QED
  BY <1>1, <1>2

(* A shortcut leads somewhere if the instant it stands for has a snapshot. *)
Reaches(i, t) ==
    ~Garbled(dirs) /\ Aim(i, t) \in Int /\ Dated(dirs, Aim(i, t)) # {}

LEMMA LeadsWhen ==
    ASSUME PlainCalendar, SnapType, NEW i \in 1 .. 5
    PROVE  Leads(i) <=> Reaches(i, now)
<1> USE DEF SnapType
<1>1. Aim(i, now) \in Int \cup {None, Panic}
  BY AimType
<1>2. Resolve(dirs, Shortcuts[i], now) =
         IF Aim(i, now) = Panic THEN Panic
         ELSE IF Aim(i, now) = None THEN FindExact(dirs, Shortcuts[i])
         ELSE FindNearest(dirs, Aim(i, now))
  BY DEF Resolve, Aim
<1>3. CASE Aim(i, now) = Panic
  BY <1>2, <1>3, SentinelAssumption DEF Leads, Reaches
<1>4. CASE Aim(i, now) = None
  <2>1. Shortcuts[i].kind \in {"span", "eve", "months"}
    BY DEF Shortcuts, Now, Expr
  <2>2. \A d \in dirs : d.name.kind \in {"name", "other", "garbled"}
    BY DEF SnapDir, SnapName
  <2>3. FindExact(dirs, Shortcuts[i]) = None
    BY <2>1, <2>2 DEF FindExact
  <2> QED
    BY <1>2, <1>4, <2>3, SentinelAssumption DEF Leads, Reaches
<1>5. CASE Aim(i, now) \in Int
  <2>1. Resolve(dirs, Shortcuts[i], now) = FindNearest(dirs, Aim(i, now))
    BY <1>2, <1>5, SentinelAssumption
  <2>2. CASE Garbled(dirs) \/ Dated(dirs, Aim(i, now)) = {}
    BY <2>1, <2>2 DEF FindNearest, Leads, Reaches
  <2>3. CASE ~Garbled(dirs) /\ Dated(dirs, Aim(i, now)) # {}
    <3>1. FindNearest(dirs, Aim(i, now)) \in Dated(dirs, Aim(i, now))
      BY <1>5, <2>3, NearestFound
    <3>2. FindNearest(dirs, Aim(i, now)) \in SnapDir
      BY <3>1 DEF Dated
    <3> QED
      BY <1>5, <2>1, <2>3, <3>2, SnapRootAssumption DEF Leads, Reaches
  <2> QED
    BY <2>2, <2>3
<1> QED
  BY <1>1, <1>3, <1>4, <1>5

LEMMA ReachesFurther ==
    ASSUME NEW i, NEW j, NEW s, NEW t, SnapType, Reaches(j, s),
           Aim(i, t) \in Int, Aim(j, s) <= Aim(i, t)
    PROVE  Reaches(i, t)
<1>1. PICK d \in Dated(dirs, Aim(j, s)) : TRUE
  BY DEF Reaches
<1>2. Single(d.name.n) \in Int
  BY SingleType DEF Dated, SnapDir, SnapName, SnapType
<1>3. Single(d.name.n) <= Aim(j, s) /\ Aim(j, s) \in Int
  BY DEF Dated, Reaches
<1>4. Single(d.name.n) <= Aim(i, t)
  BY <1>2, <1>3
<1> QED
  BY <1>4 DEF Dated, Reaches

-----------------------------------------------------------------------------
(* The list of shortcuts.                                                  *)

LEMMA ShortcutsAre == DOMAIN Shortcuts = 1 .. 5 /\ Len(Shortcuts) = 5
  BY DEF Shortcuts

(* How many of some shortcuts come before one.                             *)
Below(S, s) == Cardinality({j \in S : j < s})

LEMMA Counts ==
    ASSUME NEW S \in SUBSET (1 .. 5)
    PROVE  /\ IsFiniteSet(S) /\ Cardinality(S) \in Nat
           /\ \A s \in 1 .. 5 : IsFiniteSet({j \in S : j < s}) /\ Below(S, s) \in Nat
           /\ \A s \in S : /\ Cardinality({j \in S : j <= s}) = Below(S, s) + 1
                           /\ Below(S, s) + 1 <= Cardinality(S)
<1>1. ASSUME NEW T \in SUBSET (1 .. 5) PROVE IsFiniteSet(T) /\ Cardinality(T) \in Nat
  <2>1. IsFiniteSet(1 .. 5)
    <3> DEFINE first == 1  last == 5
    <3>1. first \in Int /\ last \in Int
      OBVIOUS
    <3> HIDE DEF first, last
    <3>2. IsFiniteSet(first .. last)
      BY <3>1, FS_Interval
    <3> QED
      BY <3>2 DEF first, last
  <2>2. IsFiniteSet(T)
    BY <2>1, FS_Subset
  <2> QED
    BY <2>2, FS_CardinalityType
<1>2. ASSUME NEW s \in 1 .. 5 PROVE IsFiniteSet({j \in S : j < s}) /\ Below(S, s) \in Nat
  BY <1>1 DEF Below
<1>3. ASSUME NEW s \in S
      PROVE  /\ Cardinality({j \in S : j <= s}) = Below(S, s) + 1
             /\ Below(S, s) + 1 <= Cardinality(S)
  <2> DEFINE less == {j \in S : j < s}
             upto == {j \in S : j <= s}
  <2>1. upto = less \cup {s} /\ s \notin less /\ upto \in SUBSET S
    <3>1. s \in S /\ ~(s < s) /\ \A j \in S : (j <= s <=> j < s \/ j = s)
      OBVIOUS
    <3> QED
      BY <3>1
  <2>2. IsFiniteSet(less) /\ Cardinality(less) = Below(S, s)
    BY <1>2 DEF Below
  <2> HIDE DEF less, upto
  <2>3. Cardinality(upto) = Cardinality(less) + 1
    BY <2>1, <2>2, FS_AddElement
  <2>4. Cardinality(upto) <= Cardinality(S)
    BY <1>1, <2>1, FS_Subset
  <2> QED
    BY <2>2, <2>3, <2>4 DEF upto
<1> QED
  BY <1>1, <1>2, <1>3

LEMMA CountsMore ==
    ASSUME NEW S \in SUBSET (1 .. 5), NEW T \in SUBSET (1 .. 5), NEW s \in 1 .. 5,
           \A i \in S : i < s => i \in T
    PROVE  Below(S, s) <= Below(T, s)
<1>1. {j \in S : j < s} \in SUBSET {j \in T : j < s}
  OBVIOUS
<1>2. IsFiniteSet({j \in T : j < s})
  BY Counts
<1> QED
  BY <1>1, <1>2, FS_Subset DEF Below

LEMMA CountsRise ==
    ASSUME NEW S \in SUBSET (1 .. 5), NEW s \in S, NEW t \in S, s < t
    PROVE  Below(S, s) < Below(S, t)
<1>1. {j \in S : j <= s} \in SUBSET {j \in S : j < t}
  <2>1. \A j \in S : j <= s => j < t
    OBVIOUS
  <2> QED
    BY <2>1
<1>2. /\ IsFiniteSet({j \in S : j < t}) /\ Below(S, s) \in Nat /\ Below(S, t) \in Nat
      /\ Cardinality({j \in S : j <= s}) = Below(S, s) + 1
  BY Counts
<1>3. Cardinality({j \in S : j <= s}) <= Below(S, t)
  BY <1>1, <1>2, FS_Subset DEF Below
<1> QED
  BY <1>2, <1>3

(* Each of the shortcuts pushed has its place, after those before it.      *)
LEMMA Placing ==
    ASSUME NEW S \in SUBSET (1 .. 5)
    PROVE  /\ InOrder(S) \in Seq(Int) /\ Len(InOrder(S)) = Cardinality(S)
           /\ \A k \in 1 .. Cardinality(S) :
                 InOrder(S)[k] \in S /\ k = Below(S, InOrder(S)[k]) + 1
           /\ \A i \in S : InOrder(S)[Below(S, i) + 1] = i
<1> DEFINE n == Cardinality(S)
           Place(i) == Cardinality({j \in S : j <= i})
           places == [i \in S |-> Place(i)]
           At(k) == CHOOSE i \in S : Place(i) = k
<1>1. /\ IsFiniteSet(S) /\ n \in Nat
      /\ \A i \in S : Place(i) = Below(S, i) + 1 /\ Below(S, i) \in Nat /\ Place(i) \in 1 .. n
  <2>1. IsFiniteSet(S) /\ n \in Nat
    BY Counts
  <2>2. ASSUME NEW i \in S
        PROVE  Place(i) = Below(S, i) + 1 /\ Below(S, i) \in Nat /\ Place(i) <= n
    <3>1. i \in 1 .. 5
      OBVIOUS
    <3> QED
      BY <3>1, Counts
  <2> HIDE DEF Place, n
  <2>3. \A i \in S : Place(i) \in 1 .. n
    BY <2>1, <2>2
  <2> QED
    BY <2>1, <2>2, <2>3
<1> HIDE DEF Place
<1>2. ASSUME NEW i \in S, NEW j \in S, Place(i) = Place(j) PROVE i = j
  <2>1. Below(S, i) = Below(S, j) /\ Below(S, i) \in Nat
    BY <1>1, <1>2
  <2>2. i < j => Below(S, i) < Below(S, j)
    BY CountsRise
  <2>3. j < i => Below(S, j) < Below(S, i)
    BY CountsRise
  <2>4. i \in Int /\ j \in Int
    OBVIOUS
  <2> QED
    BY <2>1, <2>2, <2>3, <2>4
<1>3. places \in Injection(S, 1 .. n)
  BY <1>1, <1>2 DEF Injection, IsInjective
<1>4. IsFiniteSet(1 .. n) /\ Cardinality(1 .. n) = n
  BY <1>1, FS_Interval
<1>5. places \in Surjection(S, 1 .. n)
  <2> HIDE DEF places
  <2> QED
    BY <1>3, <1>4, FS_Injection
<1>6. \A k \in 1 .. n : \E i \in S : Place(i) = k
  BY <1>5 DEF Surjection
<1>7. \A k \in 1 .. n : At(k) \in S /\ Place(At(k)) = k
  BY <1>6
<1>8. \A i \in S : At(Place(i)) = i
  BY <1>1, <1>2, <1>7
<1>9. InOrder(S) = [k \in 1 .. n |-> At(k)]
  BY DEF InOrder, Place
<1> HIDE DEF At
<1>10. InOrder(S) \in Seq(Int) /\ Len(InOrder(S)) = n /\ \A k \in 1 .. n : InOrder(S)[k] = At(k)
  <2>1. \A k \in 1 .. n : At(k) \in Int
    <3>1. \A i \in S : i \in Int
      OBVIOUS
    <3> HIDE DEF n
    <3> QED
      BY <1>7, <3>1
  <2> HIDE DEF n
  <2> QED
    BY <1>1, <1>9, <2>1
<1> QED
  BY <1>1, <1>7, <1>8, <1>10

Lists(entries, S) ==
    /\ entries \in Seq(Int) /\ Len(entries) = Cardinality(S) + 2
    /\ \A k \in 1 .. Len(entries) :
          \/ k <= 2 /\ entries[k] = k - 2
          \/ entries[k] \in S /\ k = Below(S, entries[k]) + 3
    /\ \A i \in S : Below(S, i) + 3 \in 1 .. Len(entries) /\ entries[Below(S, i) + 3] = i

LEMMA Entries ==
    ASSUME NEW S \in SUBSET (1 .. 5), NEW entries, entries = DotAndDotDot \o InOrder(S)
    PROVE  Lists(entries, S)
<1> DEFINE dots == DotAndDotDot  found == InOrder(S)
<1>1. dots \in Seq(Int) /\ Len(dots) = 2 /\ dots[1] = -1 /\ dots[2] = 0
  BY DEF DotAndDotDot
<1>2. /\ found \in Seq(Int) /\ Len(found) = Cardinality(S) /\ Cardinality(S) \in Nat
      /\ \A k \in 1 .. Cardinality(S) : found[k] \in S /\ k = Below(S, found[k]) + 1
      /\ \A i \in S : found[Below(S, i) + 1] = i
      /\ \A i \in S : Below(S, i) \in Nat /\ Below(S, i) + 1 <= Cardinality(S)
  BY Placing, Counts
<1> HIDE DEF dots, found
<1>3. /\ entries \in Seq(Int) /\ Len(entries) = Len(dots) + Len(found)
      /\ \A k \in 1 .. Len(dots) + Len(found) :
            entries[k] = IF k <= Len(dots) THEN dots[k] ELSE found[k - Len(dots)]
  <2>1. entries = dots \o found
    BY DEF dots, found
  <2>2. dots \in Seq(Int) /\ found \in Seq(Int)
    BY <1>1, <1>2
  <2> QED
    BY <2>1, <2>2, ConcatProperties
<1>4. Len(entries) = Cardinality(S) + 2
  BY <1>1, <1>2, <1>3
<1>5. ASSUME NEW k \in 1 .. Len(entries), k <= 2 PROVE entries[k] = k - 2
  <2>1. entries[k] = dots[k]
    BY <1>1, <1>3, <1>5
  <2>2. k = 1 \/ k = 2
    BY <1>4, <1>5
  <2> QED
    BY <1>1, <2>1, <2>2
<1>6. ASSUME NEW k \in 1 .. Len(entries), ~(k <= 2)
      PROVE  entries[k] \in S /\ k = Below(S, entries[k]) + 3
  <2>1. entries[k] = found[k - 2] /\ k - 2 \in 1 .. Cardinality(S)
    BY <1>1, <1>2, <1>3, <1>4, <1>6
  <2>2. found[k - 2] \in S /\ k - 2 = Below(S, found[k - 2]) + 1
    BY <1>2, <2>1
  <2>3. Below(S, found[k - 2]) \in Nat
    BY <1>2, <2>2
  <2> QED
    BY <1>4, <2>1, <2>2, <2>3
<1>7. ASSUME NEW i \in S
      PROVE  Below(S, i) + 3 \in 1 .. Len(entries) /\ entries[Below(S, i) + 3] = i
  <2>1. Below(S, i) + 3 \in 1 .. Len(entries) /\ ~(Below(S, i) + 3 <= 2)
    BY <1>2, <1>4
  <2> DEFINE k == Below(S, i) + 3
  <2>2. entries[k] = found[k - 2]
    <3>1. k \in 1 .. Len(dots) + Len(found) /\ ~(k <= Len(dots)) /\ Len(dots) = 2
      BY <1>1, <1>2, <1>4, <2>1
    <3> HIDE DEF k
    <3> QED
      BY <1>3, <3>1
  <2>3. k - 2 = Below(S, i) + 1
    BY <1>2
  <2> QED
    BY <1>2, <2>1, <2>2, <2>3
<1> QED
  BY <1>3, <1>4, <1>5, <1>6, <1>7 DEF Lists

(* The lists a reader of the root may hold.                                *)
Reading == [offset: Nat, seen: Seq(Int), next: 1 .. 6, found: SUBSET (1 .. 5),
            due: SUBSET (1 .. 5), met: SUBSET (1 .. 5), done: BOOLEAN]

(* What was shown at a has before it those due of the shortcuts that come  *)
(* before it, and none but those met of them. *)
Placed(l, a) ==
    \/ a <= 2 /\ l.seen[a] = a - 2
    \/ /\ l.seen[a] \in 1 .. 5
       /\ 3 + Below(l.due, l.seen[a]) <= a /\ a <= 3 + Below(l.met, l.seen[a])

(* What was due or met is found again, and what is due and was not shown   *)
(* is still to come. *)
Kept(l) ==
    /\ l \in Reading /\ Len(l.seen) = l.offset
    /\ \A i \in l.due \cup l.met : i < l.next => i \in l.found
    /\ \A a \in 1 .. l.offset : Placed(l, a)
    /\ \A s \in l.due \ ToSet(l.seen) : l.offset <= 2 + Below(l.met, s)
    /\ l.done => l.due \subseteq ToSet(l.seen)

LEMMA KeptShows ==
    ASSUME NEW l, Kept(l),
           NEW a \in DOMAIN l.seen, NEW b \in DOMAIN l.seen, a < b, l.seen[a] = l.seen[b]
    PROVE  \E i \in l.met \ l.due : i < l.seen[a]
<1> DEFINE s == l.seen[a]
<1>1. a \in 1 .. l.offset /\ b \in 1 .. l.offset /\ a \in Nat /\ b \in Nat
  BY DEF Kept, Reading
<1>2. Placed(l, a) /\ Placed(l, b)
  BY <1>1 DEF Kept
<1>3. /\ s \in 1 .. 5
      /\ 3 + Below(l.due, s) <= a /\ b <= 3 + Below(l.met, s)
  BY <1>1, <1>2 DEF Placed
<1>4. l.due \in SUBSET (1 .. 5) /\ l.met \in SUBSET (1 .. 5)
  BY DEF Kept, Reading
<1> HIDE DEF s
<1>5. Below(l.due, s) \in Nat /\ Below(l.met, s) \in Nat
  BY <1>3, <1>4, Counts
<1>6. ~(Below(l.met, s) <= Below(l.due, s))
  BY <1>1, <1>3, <1>5
<1>7. ~ \A i \in l.met : i < s => i \in l.due
  BY <1>3, <1>4, <1>6, CountsMore
<1> QED
  BY <1>7 DEF s

(* A reply leaves what was shown in its place. *)
LEMMA PlacedStays ==
    ASSUME NEW l, Kept(l), NEW a \in 1 .. l.offset,
           NEW m, m.due = l.due, m.met = l.met \cup l.found, m.seen[a] = l.seen[a]
    PROVE  Placed(m, a)
<1> DEFINE s == l.seen[a]
<1>1. Placed(l, a) /\ a \in Nat
  BY DEF Kept, Reading
<1>2. CASE a <= 2 /\ s = a - 2
  BY <1>2 DEF Placed
<1>3. CASE s \in 1 .. 5 /\ 3 + Below(l.due, s) <= a /\ a <= 3 + Below(l.met, s)
  <2>1. l.met \in SUBSET (1 .. 5) /\ m.met \in SUBSET (1 .. 5)
    BY DEF Kept, Reading
  <2> HIDE DEF s
  <2>2. Below(l.met, s) <= Below(m.met, s) /\ Below(l.met, s) \in Nat /\ Below(m.met, s) \in Nat
    BY <1>3, <2>1, CountsMore, Counts
  <2>3. a <= 3 + Below(m.met, s)
    BY <1>1, <1>3, <2>2
  <2> QED
    BY <1>3, <2>3 DEF Placed, s
<1> QED
  BY <1>1, <1>2, <1>3 DEF Placed

LEMMA ReplyDone ==
    ASSUME NEW l, Kept(l), l.next > 5, NEW entries, Lists(entries, l.found),
           Len(entries) - l.offset <= 0,
           NEW m, m = [l EXCEPT !.next = 1, !.found = {}, !.met = @ \cup l.found, !.done = TRUE]
    PROVE  Kept(m)
<1>1. l \in Reading /\ l.offset \in Nat /\ Len(l.seen) = l.offset /\ l.found \in SUBSET (1 .. 5)
  BY DEF Kept, Reading
<1>2. /\ m \in Reading /\ m.offset = l.offset /\ m.seen = l.seen /\ m.due = l.due
      /\ m.met = l.met \cup l.found /\ m.next = 1
  <2>1. m = [offset |-> l.offset, seen |-> l.seen, next |-> 1, found |-> {},
             due |-> l.due, met |-> l.met \cup l.found, done |-> TRUE]
    BY <1>1 DEF Reading
  <2>2. l.seen \in Seq(Int) /\ l.due \in SUBSET (1 .. 5) /\ l.met \cup l.found \in SUBSET (1 .. 5)
    BY <1>1 DEF Reading
  <2>3. 1 \in 1 .. 6
    OBVIOUS
  <2> QED
    BY <1>1, <2>1, <2>2, <2>3 DEF Reading
<1>3. l.due \cup l.met \subseteq l.found
  <2>1. \A i \in 1 .. 5 : i < l.next
    BY <1>1 DEF Reading
  <2> QED
    BY <1>1, <2>1 DEF Kept, Reading
<1>4. ASSUME NEW s \in l.due PROVE s \in ToSet(l.seen)
  <2>1. s \in l.found /\ s \in 1 .. 5
    BY <1>1, <1>3
  <2>2. /\ Below(l.found, s) \in Nat /\ Below(l.found, s) + 3 <= Len(entries)
        /\ Len(entries) \in Nat
    <3>1. Below(l.found, s) \in Nat /\ Below(l.found, s) + 1 <= Cardinality(l.found)
      BY <1>1, <2>1, Counts
    <3>2. Len(entries) = Cardinality(l.found) + 2 /\ Cardinality(l.found) \in Nat
      BY <1>1, Counts DEF Lists
    <3> QED
      BY <3>1, <3>2
  <2>3. Below(l.met, s) <= Below(l.found, s) /\ Below(l.met, s) \in Nat
    BY <1>1, <1>3, <2>1, CountsMore, Counts DEF Reading
  <2>4. ~(l.offset <= 2 + Below(l.met, s))
    BY <1>1, <2>2, <2>3
  <2> QED
    BY <2>4 DEF Kept
<1>5. \A a \in 1 .. m.offset : Placed(m, a)
  BY <1>2, PlacedStays
<1>6. \A i \in m.due \cup m.met : ~(i < m.next)
  <2>1. m.due \in SUBSET (1 .. 5) /\ m.met \in SUBSET (1 .. 5)
    BY <1>2 DEF Reading
  <2>2. \A i \in 1 .. 5 : ~(i < 1)
    OBVIOUS
  <2> QED
    BY <1>2, <2>1, <2>2
<1> QED
  BY <1>1, <1>2, <1>4, <1>5, <1>6 DEF Kept

LEMMA Appended ==
    ASSUME NEW seen \in Seq(Int), NEW entries \in Seq(Int), NEW n \in Nat,
           Len(seen) + n <= Len(entries)
    PROVE  LET whole == seen \o SubSeq(entries, Len(seen) + 1, Len(seen) + n)
           IN  /\ whole \in Seq(Int) /\ Len(whole) = Len(seen) + n
               /\ \A k \in 1 .. Len(seen) : whole[k] = seen[k]
               /\ \A k \in 1 .. Len(seen) + n : k > Len(seen) => whole[k] = entries[k]
<1> DEFINE at == Len(seen)
           piece == SubSeq(entries, at + 1, at + n)
           whole == seen \o piece
<1>0. at \in Nat /\ Len(entries) \in Nat
  OBVIOUS
<1>1. piece \in Seq(Int) /\ Len(piece) = n /\ \A k \in 1 .. n : piece[k] = entries[at + k]
  <2> DEFINE b == at + 1  c == at + n
  <2>1. b \in Int /\ c \in Int /\ \A i \in b .. c : entries[i] \in Int
    OBVIOUS
  <2>2. (IF b <= c THEN c - b + 1 ELSE 0) = n /\ c - b + 1 = n
    OBVIOUS
  <2>3. \A k \in 1 .. n : b + k - 1 = at + k
    OBVIOUS
  <2>4. piece = SubSeq(entries, b, c)
    OBVIOUS
  <2> HIDE DEF at, piece, b, c
  <2>5. /\ SubSeq(entries, b, c) \in Seq(Int)
        /\ Len(SubSeq(entries, b, c)) = IF b <= c THEN c - b + 1 ELSE 0
        /\ \A i \in 1 .. c - b + 1 : SubSeq(entries, b, c)[i] = entries[b + i - 1]
    BY <2>1, SubSeqProperties
  <2> QED
    BY <2>2, <2>3, <2>4, <2>5
<1>2. whole = seen \o piece
  OBVIOUS
<1> HIDE DEF piece, whole
<1>3. /\ whole \in Seq(Int) /\ Len(whole) = Len(seen) + Len(piece)
      /\ \A k \in 1 .. Len(seen) + Len(piece) :
            whole[k] = IF k <= Len(seen) THEN seen[k] ELSE piece[k - Len(seen)]
  <2>1. piece \in Seq(Int)
    BY <1>1
  <2>2. /\ seen \o piece \in Seq(Int) /\ Len(seen \o piece) = Len(seen) + Len(piece)
        /\ \A k \in 1 .. Len(seen) + Len(piece) :
              (seen \o piece)[k] = IF k <= Len(seen) THEN seen[k] ELSE piece[k - Len(seen)]
    BY <2>1, ConcatProperties
  <2> QED
    BY <1>2, <2>2
<1>4. ASSUME NEW k \in 1 .. at + n, k > at PROVE whole[k] = entries[k]
  <2>1. whole[k] = piece[k - at] /\ k - at \in 1 .. n /\ at + (k - at) = k
    BY <1>0, <1>1, <1>3, <1>4
  <2> QED
    BY <1>1, <2>1
<1>5. ASSUME NEW k \in 1 .. at PROVE whole[k] = seen[k]
  <2>1. k \in 1 .. Len(seen) + Len(piece) /\ k <= Len(seen)
    BY <1>0, <1>1
  <2> QED
    BY <1>3, <2>1
<1>6. Len(whole) = at + n
  BY <1>1, <1>3
<1> QED
  BY <1>3, <1>4, <1>5, <1>6 DEF whole, piece

(* A reply with n more entries makes m of l. *)
More(l, m, entries, n) ==
    /\ n \in Nat /\ l.offset + n <= Len(entries)
    /\ m \in Reading /\ m.offset = l.offset + n /\ Len(m.seen) = m.offset /\ m.next = 1
    /\ m.due = l.due /\ m.met = l.met \cup l.found /\ m.done = l.done
    /\ \A k \in 1 .. l.offset : m.seen[k] = l.seen[k]
    /\ \A k \in 1 .. m.offset : k > l.offset => m.seen[k] = entries[k]

LEMMA MoreKept ==
    ASSUME NEW l, NEW m, NEW entries, NEW n,
           Kept(l), l.next > 5, Lists(entries, l.found), More(l, m, entries, n)
    PROVE  Kept(m)
<1> USE DEF More
<1> DEFINE at == l.offset
<1>1. /\ l \in Reading /\ at \in Nat /\ Len(l.seen) = at
      /\ l.found \in SUBSET (1 .. 5) /\ l.due \in SUBSET (1 .. 5) /\ l.met \in SUBSET (1 .. 5)
      /\ m.met \in SUBSET (1 .. 5)
  BY DEF Kept, Reading
<1>2. Len(entries) = Cardinality(l.found) + 2 /\ Len(entries) \in Nat
  BY <1>1, Counts DEF Lists
<1>3. l.due \cup l.met \subseteq l.found
  <2>1. \A i \in 1 .. 5 : i < l.next
    BY <1>1 DEF Reading
  <2> QED
    BY <1>1, <2>1 DEF Kept
<1>4. ASSUME NEW s \in l.found
      PROVE  /\ s \in 1 .. 5 /\ Below(l.found, s) \in Nat /\ Below(l.due, s) \in Nat
             /\ Below(l.met, s) \in Nat /\ Below(m.met, s) \in Nat
             /\ Below(l.due, s) <= Below(l.found, s) /\ Below(l.met, s) <= Below(l.found, s)
             /\ Below(l.found, s) <= Below(m.met, s)
  <2>1. s \in 1 .. 5
    BY <1>1
  <2>2. /\ Below(l.found, s) \in Nat /\ Below(l.due, s) \in Nat
        /\ Below(l.met, s) \in Nat /\ Below(m.met, s) \in Nat
    BY <1>1, <2>1, Counts
  <2>3. Below(l.due, s) <= Below(l.found, s)
    BY <1>1, <1>3, <2>1, CountsMore
  <2>4. Below(l.met, s) <= Below(l.found, s)
    BY <1>1, <1>3, <2>1, CountsMore
  <2>5. Below(l.found, s) <= Below(m.met, s)
    BY <1>1, <2>1, CountsMore
  <2> QED
    BY <2>1, <2>2, <2>3, <2>4, <2>5
<1>5. ASSUME NEW a \in 1 .. m.offset PROVE Placed(m, a)
  <2>1. CASE a <= at
    <3>1. a \in 1 .. l.offset
      BY <1>1, <2>1
    <3>2. m.seen[a] = l.seen[a]
      BY <3>1
    <3> QED
      BY <3>1, <3>2, PlacedStays
  <2>2. CASE a > at
    <3>1. a \in 1 .. Len(entries)
      BY <1>1, <1>2
    <3>2. m.seen[a] = entries[a]
      BY <2>2
    <3>3. CASE a <= 2 /\ entries[a] = a - 2
      BY <3>2, <3>3 DEF Placed
    <3>4. CASE entries[a] \in l.found /\ a = Below(l.found, entries[a]) + 3
      <4> DEFINE s == entries[a]
      <4>1. s \in l.found /\ a = Below(l.found, s) + 3
        BY <3>4
      <4>2. m.seen[a] = s /\ m.due = l.due
        BY <3>2
      <4> HIDE DEF s
      <4>3. s \in 1 .. 5 /\ 3 + Below(m.due, s) <= a /\ a <= 3 + Below(m.met, s)
        <5>1. /\ s \in 1 .. 5 /\ Below(l.found, s) \in Nat /\ Below(l.due, s) \in Nat
              /\ Below(m.met, s) \in Nat
              /\ Below(l.due, s) <= Below(l.found, s) /\ Below(l.found, s) <= Below(m.met, s)
          BY <1>4, <4>1
        <5>2. 3 + Below(l.due, s) <= a /\ a <= 3 + Below(m.met, s)
          BY <4>1, <5>1
        <5> QED
          BY <4>2, <5>1, <5>2
      <4> QED
        BY <4>2, <4>3 DEF Placed
    <3> QED
      BY <3>1, <3>3, <3>4 DEF Lists
  <2>3. a <= at \/ a > at
    BY <1>1
  <2> QED
    BY <2>1, <2>2, <2>3
<1>6. DOMAIN l.seen = 1 .. at /\ DOMAIN m.seen = 1 .. m.offset
  BY <1>1 DEF Reading
<1>7. ToSet(l.seen) \subseteq ToSet(m.seen)
  <2>1. 1 .. at \subseteq 1 .. m.offset
    BY <1>1
  <2> QED
    BY <1>6, <2>1 DEF ToSet
<1>8. ASSUME NEW s \in m.due \ ToSet(m.seen) PROVE m.offset <= 2 + Below(m.met, s)
  <2> DEFINE k == Below(l.found, s) + 3
  <2>1. s \in l.found /\ k \in Nat
    BY <1>3, <1>4
  <2>2. k \in 1 .. Len(entries) /\ entries[k] = s
    BY <2>1 DEF Lists
  <2>3. at <= 2 + Below(l.met, s)
    BY <1>7 DEF Kept
  <2>4. at < k /\ k <= 3 + Below(m.met, s) /\ Below(m.met, s) \in Nat
    <3>1. /\ Below(l.found, s) \in Nat /\ Below(l.met, s) \in Nat /\ Below(m.met, s) \in Nat
          /\ Below(l.met, s) <= Below(l.found, s) /\ Below(l.found, s) <= Below(m.met, s)
      BY <1>4, <2>1
    <3> QED
      BY <1>1, <2>3, <3>1
  <2> HIDE DEF k
  <2>5. k \notin 1 .. m.offset
    <3>1. k \in 1 .. m.offset => m.seen[k] = s
      BY <2>2, <2>4
    <3> QED
      BY <1>6, <3>1 DEF ToSet
  <2>6. m.offset < k
    BY <1>1, <2>1, <2>2, <2>5
  <2> QED
    BY <1>1, <2>1, <2>4, <2>6
<1>9. \A i \in m.due \cup m.met : ~(i < m.next)
  <2>1. \A i \in 1 .. 5 : ~(i < 1)
    OBVIOUS
  <2> QED
    BY <1>1, <2>1
<1> QED
  BY <1>5, <1>7, <1>8, <1>9 DEF Kept

LEMMA ReplyMore ==
    ASSUME NEW l, Kept(l), NEW entries, Lists(entries, l.found),
           NEW n \in 1 .. Len(entries) - l.offset,
           NEW m, m = [l EXCEPT !.next = 1, !.found = {}, !.met = @ \cup l.found,
                                !.offset = @ + n,
                                !.seen = @ \o SubSeq(entries, l.offset + 1, l.offset + n)]
    PROVE  More(l, m, entries, n)
<1> DEFINE whole == l.seen \o SubSeq(entries, Len(l.seen) + 1, Len(l.seen) + n)
           now_at == l.offset + n
           both == l.met \cup l.found
<1>1. /\ l \in Reading /\ l.offset \in Nat /\ Len(l.seen) = l.offset /\ l.seen \in Seq(Int)
      /\ l.due \in SUBSET (1 .. 5) /\ both \in SUBSET (1 .. 5) /\ l.done \in BOOLEAN
  BY DEF Kept, Reading
<1>2. m = [offset |-> now_at, seen |-> whole, next |-> 1, found |-> {},
           due |-> l.due, met |-> both, done |-> l.done]
  BY <1>1 DEF Reading
<1>3. /\ m.offset = l.offset + n /\ m.seen = whole /\ m.next = 1
      /\ m.due = l.due /\ m.met = l.met \cup l.found /\ m.done = l.done
  <2> HIDE DEF whole, now_at, both
  <2>1. /\ m.offset = now_at /\ m.seen = whole /\ m.next = 1
        /\ m.due = l.due /\ m.met = both /\ m.done = l.done
    <3> DEFINE r == [offset |-> now_at, seen |-> whole, next |-> 1, found |-> {},
                     due |-> l.due, met |-> both, done |-> l.done]
    <3>1. /\ r.offset = now_at /\ r.seen = whole /\ r.next = 1
          /\ r.due = l.due /\ r.met = both /\ r.done = l.done
      OBVIOUS
    <3>2. m = r
      BY <1>2
    <3> HIDE DEF r
    <3> QED
      BY <3>1, <3>2
  <2> QED
    BY <2>1 DEF now_at, both
<1>4. entries \in Seq(Int) /\ n \in Nat /\ l.offset + n <= Len(entries) /\ now_at \in Nat
  <2>1. entries \in Seq(Int) /\ Len(entries) \in Nat
    BY DEF Lists
  <2> QED
    BY <1>1, <2>1
<1>5. /\ whole \in Seq(Int) /\ Len(whole) = l.offset + n
      /\ \A k \in 1 .. l.offset : whole[k] = l.seen[k]
      /\ \A k \in 1 .. l.offset + n : k > l.offset => whole[k] = entries[k]
  <2>1. l.seen \in Seq(Int) /\ entries \in Seq(Int) /\ n \in Nat /\ Len(l.seen) + n <= Len(entries)
    BY <1>1, <1>4
  <2>2. /\ whole \in Seq(Int) /\ Len(whole) = Len(l.seen) + n
        /\ \A k \in 1 .. Len(l.seen) : whole[k] = l.seen[k]
        /\ \A k \in 1 .. Len(l.seen) + n : k > Len(l.seen) => whole[k] = entries[k]
    BY <2>1, Appended
  <2> HIDE DEF whole
  <2> QED
    BY <1>1, <2>2
<1> HIDE DEF whole, now_at, both
<1>6. [offset |-> now_at, seen |-> whole, next |-> 1, found |-> {},
       due |-> l.due, met |-> both, done |-> l.done] \in Reading
  <2>1. 1 \in 1 .. 6
    OBVIOUS
  <2> QED
    BY <1>1, <1>4, <1>5, <2>1 DEF Reading
<1> QED
  BY <1>2, <1>3, <1>4, <1>5, <1>6 DEF More

LEMMA KeptAtFirst ==
    ASSUME NEW due \in SUBSET (1 .. 5)
    PROVE  Kept([offset |-> 0, seen |-> <<>>, next |-> 1, found |-> {},
                 due |-> due, met |-> {}, done |-> FALSE])
<1> DEFINE l == [offset |-> 0, seen |-> <<>>, next |-> 1, found |-> {},
                 due |-> due, met |-> {}, done |-> FALSE]
<1>1. /\ l.offset = 0 /\ l.seen = <<>> /\ l.next = 1
      /\ l.due = due /\ l.met = {} /\ l.done = FALSE
  OBVIOUS
<1>2. l \in Reading
  <2>1. 0 \in Nat /\ <<>> \in Seq(Int) /\ 1 \in 1 .. 6
    OBVIOUS
  <2> QED
    BY <2>1 DEF Reading
<1> HIDE DEF l
<1>3. \A i \in due : ~(i < 1)
  OBVIOUS
<1>4. ASSUME NEW s \in due PROVE 0 <= 2 + Below({}, s)
  <2>1. {} \in SUBSET (1 .. 5) /\ s \in 1 .. 5
    OBVIOUS
  <2>2. Below({}, s) \in Nat
    BY <2>1, Counts
  <2> QED
    BY <2>2
<1>5. Len(<<>>) = 0 /\ \A a \in 1 .. 0 : FALSE
  OBVIOUS
<1> QED
  BY <1>1, <1>2, <1>3, <1>4, <1>5 DEF Kept, l

(* A directory keeps its name, and no new one has a name that cannot be    *)
(* read. *)
LEMMA ReachesOn ==
    ASSUME TypeOK, [Next]_vars, NEW i, NEW s, Reaches(i, s)
    PROVE  Reaches(i, s)'
<1> USE DEF Reaches
<1>1. CASE dirs' = dirs
  BY <1>1 DEF Aim
<1>2. CASE \E t \in DOMAIN taker : TakerStep(t)
  <2>1. PICK t \in DOMAIN taker : DirsKept(t)
    BY <1>2, TakerStepDirs, TypeIs
  <2>2. ~Garbled(dirs')
    BY <2>1 DEF Garbled, DirsKept, Same, Expr
  <2>3. PICK d \in Dated(dirs, Aim(i, s)) : TRUE
    OBVIOUS
  <2>4. PICK e \in dirs' : Same(e, d)
    BY <2>1, <2>3 DEF DirsKept, Dated
  <2>5. e \in Dated(dirs', Aim(i, s))
    BY <2>3, <2>4 DEF Dated, Same
  <2> QED
    BY <2>2, <2>5
<1> QED
  BY <1>1, <1>2 DEF Next, Meanwhile, SnapNext, Tick, Forget, Lookup, ReadDir, LookupFile,
                    ListBegin, ListResolve, ListReply, snapVars, vars

LEMMA ClockGoesOn ==
    ASSUME TypeOK, [Next]_vars
    PROVE  now \in Nat /\ now' \in Nat /\ now <= now'
<1>1. now \in Nat
  BY TypeIs DEF SnapType
<1>2. CASE now' = now
  BY <1>1, <1>2
<1>3. CASE now' = now + 1
  BY <1>1, <1>3
<1>4. CASE \E t \in DOMAIN taker : TakerStep(t)
  BY <1>2, <1>4, TakerStepType, TypeIs
<1> QED
  BY <1>2, <1>3, <1>4 DEF Next, Meanwhile, SnapNext, Tick, Forget, Lookup, ReadDir, LookupFile,
                          ListBegin, ListResolve, ListReply, snapVars, vars

(* A shortcut that led somewhere once still does, if it does not panic.    *)
Led(i) == i \in 1 .. 5 /\ \E s \in 0 .. now : Reaches(i, s)

LEMMA LeadsStill ==
    ASSUME PlainCalendar, TypeOK, NEW i, Led(i), Resolve(dirs, Shortcuts[i], now) # Panic
    PROVE  Leads(i)
<1>1. SnapType /\ now \in Nat
  BY TypeIs DEF SnapType
<1>2. PICK s \in 0 .. now : i \in 1 .. 5 /\ Reaches(i, s)
  BY DEF Led
<1>3. Aim(i, now) # Panic
  BY DEF Resolve, Aim
<1>4. s \in Nat /\ s <= now /\ Aim(i, s) \in Int
  BY <1>1, <1>2 DEF Reaches
<1>5. Aim(i, now) \in Int /\ Aim(i, s) <= Aim(i, now)
  BY <1>1, <1>2, <1>3, <1>4, AimsRise
<1>6. Reaches(i, now)
  BY <1>1, <1>2, <1>5, ReachesFurther
<1> QED
  BY <1>1, <1>2, <1>6, LeadsWhen

LEMMA LedNow == ASSUME PlainCalendar, TypeOK, NEW i \in 1 .. 5, Leads(i) PROVE Led(i)
<1>1. SnapType /\ now \in Nat
  BY TypeIs DEF SnapType
<1>2. Reaches(i, now) /\ now \in 0 .. now
  BY <1>1, LeadsWhen
<1> QED
  BY <1>2 DEF Led

LEMMA LedOn == ASSUME TypeOK, [Next]_vars, NEW i, Led(i) PROVE Led(i)'
<1>1. PICK s \in 0 .. now : Reaches(i, s)
  BY DEF Led
<1>2. Reaches(i, s)' /\ s \in 0 .. now'
  BY <1>1, ReachesOn, ClockGoesOn
<1> QED
  BY <1>2 DEF Led

ListInv ==
    /\ TypeOK
    /\ listing # None =>
          /\ Kept(listing)
          /\ \A i \in listing.due \cup listing.met \cup listing.found : Led(i)

LEMMA ListInit == Init => ListInv
  BY InitType DEF Init, ListInv

LEMMA ListBegins ==
    ASSUME PlainCalendar, ListInv, ListBegin
    PROVE  /\ Kept(listing')
           /\ \A i \in listing'.due \cup listing'.met \cup listing'.found : Led(i)
<1> DEFINE l == [offset |-> 0, seen |-> <<>>, next |-> 1, found |-> {},
                 due |-> Leading, met |-> {}, done |-> FALSE]
<1>1. Leading \in SUBSET (1 .. 5) /\ \A i \in Leading : Led(i)
  BY ShortcutsAre, LedNow DEF Leading, ListInv
<1>2. Kept(l)
  BY <1>1, KeptAtFirst
<1>3. l.due = Leading /\ l.met = {} /\ l.found = {}
  OBVIOUS
<1>4. listing' = l
  BY DEF ListBegin
<1> HIDE DEF l
<1> QED
  BY <1>1, <1>2, <1>3, <1>4

LEMMA ListResolves ==
    ASSUME PlainCalendar, ListInv, ListResolve
    PROVE  /\ Kept(listing')
           /\ \A i \in listing'.due \cup listing'.met \cup listing'.found : Led(i)
<1> DEFINE l == listing
           d == Resolve(dirs, Shortcuts[l.next], now)
<1>1. /\ Kept(l) /\ l \in Reading /\ l.next \in 1 .. 5 /\ l.next + 1 \in 1 .. 6
      /\ \A i \in l.due \cup l.met \cup l.found : Led(i)
      /\ l.due \in SUBSET (1 .. 5) /\ l.met \in SUBSET (1 .. 5) /\ l.found \in SUBSET (1 .. 5)
  BY ShortcutsAre DEF ListResolve, ListInv, Kept, Reading
<1>2. \A i \in 1 .. 5 : i < l.next + 1 <=> i < l.next \/ i = l.next
  BY <1>1
<1>3. CASE d = Panic
  <2>1. listing' = l
    BY <1>3, SentinelAssumption, TypeIs, SnapRootAssumption DEF ListResolve, ListInv, SnapType
  <2> QED
    BY <1>1, <2>1
<1>4. CASE d = None
  <2> DEFINE m == [l EXCEPT !.next = @ + 1]
  <2>1. listing' = m
    BY <1>4, SentinelAssumption, TypeIs, SnapRootAssumption DEF ListResolve, ListInv, SnapType
  <2>2. l.next \notin l.due \cup l.met
    <3>1. ~Leads(l.next) /\ d # Panic
      BY <1>4, SentinelAssumption DEF Leads
    <3> QED
      BY <1>1, <3>1, LeadsStill DEF ListInv
  <2>3. /\ m \in Reading /\ m.next = l.next + 1 /\ m.offset = l.offset /\ m.seen = l.seen
        /\ m.due = l.due /\ m.met = l.met /\ m.found = l.found /\ m.done = l.done
    BY <1>1 DEF Reading
  <2> HIDE DEF m, l
  <2>4. Kept(m)
    <3>1. \A i \in m.due \cup m.met : i < m.next => i \in m.found
      BY <1>1, <1>2, <2>2, <2>3 DEF Kept
    <3> QED
      BY <1>1, <2>3, <3>1 DEF Kept, Placed
  <2> QED
    BY <1>1, <2>1, <2>3, <2>4
<1>5. CASE d \in dirs
  <2> DEFINE m == [l EXCEPT !.next = @ + 1, !.found = @ \cup {l.next}]
  <2>0. d # None /\ d # Panic
    BY <1>5, TypeIs, SnapRootAssumption DEF ListInv, SnapType
  <2>1. listing' = m
    BY <1>5, <2>0 DEF ListResolve
  <2>2. Led(l.next)
    <3>1. Leads(l.next)
      BY <2>0 DEF Leads
    <3> QED
      BY <1>1, <3>1, LedNow DEF ListInv
  <2>3. /\ m \in Reading /\ m.next = l.next + 1 /\ m.offset = l.offset /\ m.seen = l.seen
        /\ m.due = l.due /\ m.met = l.met /\ m.found = l.found \cup {l.next} /\ m.done = l.done
    BY <1>1 DEF Reading
  <2> HIDE DEF m, l
  <2>4. Kept(m)
    <3>1. \A i \in m.due \cup m.met : i < m.next => i \in m.found
      BY <1>1, <1>2, <2>3 DEF Kept
    <3> QED
      BY <1>1, <2>3, <3>1 DEF Kept, Placed
  <2> QED
    BY <1>1, <2>1, <2>2, <2>3, <2>4
<1> QED
  BY <1>3, <1>4, <1>5 DEF ListResolve

LEMMA ListReplies ==
    ASSUME PlainCalendar, ListInv, ListReply
    PROVE  /\ Kept(listing')
           /\ \A i \in listing'.due \cup listing'.met \cup listing'.found : Led(i)
<1> DEFINE l == listing
           entries == DotAndDotDot \o InOrder(l.found)
           left == Len(entries) - l.offset
<1>1. /\ Kept(l) /\ l.next > 5 /\ l \in Reading /\ l.offset \in Nat
      /\ \A i \in l.due \cup l.met \cup l.found : Led(i)
      /\ l.found \in SUBSET (1 .. 5)
  BY ShortcutsAre DEF ListReply, ListInv, Kept, Reading
<1>2. Lists(entries, l.found)
  BY <1>1, Entries
<1>3. \/ /\ left <= 0
         /\ listing' = [l EXCEPT !.next = 1, !.found = {}, !.met = @ \cup l.found, !.done = TRUE]
      \/ \E n \in 1 .. left :
            listing' = [l EXCEPT !.next = 1, !.found = {}, !.met = @ \cup l.found,
                                 !.offset = @ + n,
                                 !.seen = @ \o SubSeq(entries, l.offset + 1, l.offset + n)]
  <2> DEFINE answered == [l EXCEPT !.next = 1, !.found = {}, !.met = @ \cup l.found]
             Piece(n) == SubSeq(entries, l.offset + 1, l.offset + n)
  <2>1. \/ left <= 0 /\ listing' = [answered EXCEPT !.done = TRUE]
        \/ \E n \in 1 .. left :
              listing' = [answered EXCEPT !.offset = OffsetAfter(@ + n - 1), !.seen = @ \o Piece(n)]
    BY DEF ListReply
  <2>2. CASE left <= 0 /\ listing' = [answered EXCEPT !.done = TRUE]
    BY <1>1, <2>2 DEF Reading
  <2>3. ASSUME NEW n \in 1 .. left,
               listing' = [answered EXCEPT !.offset = OffsetAfter(@ + n - 1), !.seen = @ \o Piece(n)]
        PROVE  listing' = [l EXCEPT !.next = 1, !.found = {}, !.met = @ \cup l.found,
                                    !.offset = @ + n, !.seen = @ \o Piece(n)]
    <3> HIDE DEF Piece
    <3>1. OffsetAfter(l.offset + n - 1) = l.offset + n
      BY <1>1 DEF OffsetAfter
    <3>2. answered.offset = l.offset /\ answered.seen = l.seen
      BY <1>1 DEF Reading
    <3>3. listing' = [answered EXCEPT !.offset = l.offset + n, !.seen = l.seen \o Piece(n)]
      BY <2>3, <3>1, <3>2
    <3> QED
      BY <1>1, <3>3 DEF Reading
  <2> QED
    BY <2>1, <2>2, <2>3
<1> HIDE DEF entries
<1>4. CASE left <= 0 /\ listing' = [l EXCEPT !.next = 1, !.found = {}, !.met = @ \cup l.found, !.done = TRUE]
  <2>1. Kept(listing')
    BY <1>1, <1>2, <1>4, ReplyDone
  <2>2. /\ listing'.due = l.due /\ listing'.met = l.met \cup l.found /\ listing'.found = {}
    BY <1>1, <1>4 DEF Reading
  <2> QED
    BY <1>1, <2>1, <2>2
<1>5. ASSUME NEW n \in 1 .. left,
             listing' = [l EXCEPT !.next = 1, !.found = {}, !.met = @ \cup l.found,
                                  !.offset = @ + n,
                                  !.seen = @ \o SubSeq(entries, l.offset + 1, l.offset + n)]
      PROVE  /\ Kept(listing')
             /\ \A i \in listing'.due \cup listing'.met \cup listing'.found : Led(i)
  <2>1. More(l, listing', entries, n)
    BY <1>1, <1>2, <1>5, ReplyMore
  <2>2. Kept(listing')
    BY <1>1, <1>2, <2>1, MoreKept
  <2>3. /\ listing'.due = l.due /\ listing'.met = l.met \cup l.found /\ listing'.found = {}
    BY <1>1, <1>5 DEF Reading
  <2> QED
    BY <1>1, <2>2, <2>3
<1> QED
  BY <1>3, <1>4, <1>5

LEMMA ListNext == ASSUME PlainCalendar, ListInv, [Next]_vars PROVE ListInv'
<1>1. TypeOK'
  BY NextType DEF ListInv
<1>2. ASSUME Kept(listing'), \A i \in listing'.due \cup listing'.met \cup listing'.found : Led(i)
      PROVE  ListInv'
  <2>1. \A i \in listing'.due \cup listing'.met \cup listing'.found : Led(i)'
    BY <1>2, LedOn DEF ListInv
  <2> QED
    BY <1>1, <1>2, <2>1 DEF ListInv
<1>3. CASE listing' = listing
  <2>1. CASE listing = None
    BY <1>1, <1>3, <2>1 DEF ListInv
  <2>2. CASE listing # None
    BY <1>2, <1>3, <2>2 DEF ListInv
  <2> QED
    BY <2>1, <2>2
<1>4. CASE ListBegin
  BY <1>2, <1>4, ListBegins
<1>5. CASE ListResolve
  BY <1>2, <1>5, ListResolves
<1>6. CASE ListReply
  BY <1>2, <1>6, ListReplies
<1> QED
  BY <1>3, <1>4, <1>5, <1>6 DEF Next, Meanwhile, Forget, Lookup, ReadDir, LookupFile, vars, fsVars

(* A reader of the root sees each shortcut that led somewhere when it      *)
(* opened it, however few entries each reply has room for and whatever is  *)
(* made meanwhile, be it between the turns of two shortcuts; and it sees   *)
(* one twice only if another that comes before it has turned up since      *)
(* (main.rs:162-199).  A shortcut that once led somewhere always does.     *)
THEOREM ListingsWhole == PlainCalendar => (Spec => []ListingWhole)
<1> SUFFICES ASSUME PlainCalendar PROVE Spec => []ListingWhole
  OBVIOUS
<1>1. ListInv /\ [Next]_vars => ListInv'
  BY ListNext
<1>2. ListInv => ListingWhole
  <2> SUFFICES ASSUME ListInv, listing # None PROVE ListingWhole
    BY DEF ListingWhole
  <2>1. Kept(listing)
    BY DEF ListInv
  <2>2. listing.done => listing.due \subseteq ToSet(listing.seen)
    BY <2>1 DEF Kept
  <2> QED
    BY <2>1, <2>2, KeptShows DEF ListingWhole
<1> QED
  BY <1>1, <1>2, ListInit, PTL DEF Spec
=============================================================================
