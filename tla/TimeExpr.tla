------------------------------- MODULE TimeExpr -------------------------------
(***************************************************************************)
(* Time expressions and what they resolve to, src/src/time_expr.rs, and    *)
(* the snapshots whodid brackets an event with, src/src/bin/whodid.rs.     *)
(*                                                                         *)
(* An instant is a number of seconds that always grows.  Snapshot names    *)
(* and timestamps show its local label instead, which jumps back by FoldBy *)
(* at FoldAt, the end of summer time: the labels just before name two      *)
(* instants each.  A negative FoldBy skips labels.                         *)
(***************************************************************************)
EXTENDS Integers, Sequences, FiniteSetsExt

CONSTANTS
    Day,           \* seconds in a day
    Week,          \* days in a week
    FirstDays,     \* the day each month of the calendar begins with
    MonthWrap,     \* 2^32: a number of months is cast to u32
    Earliest,      \* the first instant chrono can tell
    FoldAt, FoldBy,
    None,
    Panic          \* the computation panics

ASSUME CalendarAssumption ==
    /\ Day \in Nat \ {0} /\ Week \in Nat \ {0} /\ MonthWrap \in Nat \ {0}
    /\ FirstDays \in Seq(Nat)
    /\ \A m \in 2 .. Len(FirstDays) : FirstDays[m - 1] < FirstDays[m]
    /\ Earliest \in Int /\ Earliest <= 0 /\ FoldAt \in Nat /\ FoldBy \in Int

ASSUME SentinelAssumption == {None, Panic} \cap Int = {} /\ None # Panic

(* An expression, by what the code makes of it: a snapshot's name, a date, *)
(* "now", "today" and n-minutes-ago (a span back), "yesterday" and         *)
(* "last-week" (the end of a day some days back), "last-month" and         *)
(* n-months-ago, a weekday, or any other name, which as text comes between *)
(* label n - 1 and label n.  In SNAP_ROOT a "garbled" one is an entry      *)
(* whose name is not UTF-8.                                                *)
Expr(kind, n) == [kind |-> kind, n |-> n]

Now == Expr("span", 0)

Shortcuts == <<Now, Now, Expr("eve", 1), Expr("eve", Week), Expr("months", 1)>>

-----------------------------------------------------------------------------
(* DateTime::format(SNAPSHOT_FMT) *)
Label(i) == IF i < FoldAt THEN i ELSE i - FoldBy

InstantsOf(l) == {i \in {l, l + FoldBy} : Label(i) = l}

(* and_local_timezone(Local).single() *)
Single(l) ==
    LET instants == InstantsOf(l)
    IN  IF \E i \in instants : instants = {i} THEN CHOOSE i \in instants : TRUE ELSE None

DayOf(i) == Label(i) \div Day

(* .single().unwrap() *)
EndOfDay(d) ==
    LET i == Single(d * Day + Day - 1)
    IN  IF i = None THEN Panic ELSE i

(* checked_sub_months: the same day of an earlier month, or its last one. *)
MonthOf(d) == Max({m \in 1 .. Len(FirstDays) : FirstDays[m] <= d})

MonthsBack(d, n) ==
    LET to == MonthOf(d) - n
    IN  IF to < 1 THEN None
        ELSE Min({FirstDays[to] + d - FirstDays[MonthOf(d)], FirstDays[to + 1] - 1})

MutMostRecentPast(w, d) == Max({e \in d - Week .. d : e % Week = w})

MostRecentPast(w, d) == Max({e \in d - Week .. d - 1 : e % Week = w})

(* resolve_target: an instant, None for what is no time expression, Panic. *)
ResolveTarget(e, now) ==
    CASE e.kind = "name" -> Single(e.n)
      [] e.kind = "date" -> EndOfDay(e.n)
      [] e.kind = "span" -> IF now - e.n < Earliest THEN Panic ELSE now - e.n
      [] e.kind = "eve" -> EndOfDay(DayOf(now) - e.n)
      [] e.kind = "months" ->
            LET d == MonthsBack(DayOf(now), e.n % MonthWrap)
            IN  IF d = None THEN None ELSE EndOfDay(d)
      [] e.kind = "weekday" -> EndOfDay(MostRecentPast(e.n, DayOf(now)))
      [] e.kind = "other" -> None

-----------------------------------------------------------------------------
(* The entries D of SNAP_ROOT are records whose name is an expression. *)
MutDatedAny(D, target) == {d \in D : d.name.kind = "name" /\ Single(d.name.n) # None}

MutDatedStrict(D, target) ==
    {d \in D : d.name.kind = "name" /\ Single(d.name.n) # None /\ Single(d.name.n) < target}

Dated(D, target) ==
    {d \in D : d.name.kind = "name" /\ Single(d.name.n) # None /\ Single(d.name.n) <= target}

Garbled(D) == \E d \in D : d.name.kind = "garbled"

(* find_nearest gives up at the first name it cannot read. *)
FindNearest(D, target) ==
    LET dated == Dated(D, target)
    IN  IF Garbled(D) \/ dated = {} THEN None
        ELSE CHOOSE d \in dated : \A x \in dated : Single(x.name.n) <= Single(d.name.n)

FindExact(D, e) ==
    IF \E d \in D : d.name = e THEN CHOOSE d \in D : d.name = e ELSE None

(* resolve: an entry of D, None or Panic. *)
Resolve(D, e, now) ==
    LET target == ResolveTarget(e, now)
    IN  IF target = Panic THEN Panic
        ELSE IF target = None THEN FindExact(D, e)
        ELSE FindNearest(D, target)

-----------------------------------------------------------------------------
(* whodid's bracket: whatever names can be read, compared as text.         *)
TextOf(name) == IF name.kind = "name" THEN 2 * name.n + 1 ELSE 2 * name.n

UpTo(D, t) == {d \in D : d.name.kind # "garbled" /\ TextOf(d.name) <= t}
Past(D, t) == {d \in D : d.name.kind # "garbled" /\ TextOf(d.name) > t}

MutBefore(D, l) ==
    LET older == UpTo(D, TextOf(Expr("name", l)) - 1)
    IN  {d \in older : \A x \in older : TextOf(x.name) <= TextOf(d.name)}

Before(D, l) ==
    LET older == UpTo(D, TextOf(Expr("name", l)))
    IN  {d \in older : \A x \in older : TextOf(x.name) <= TextOf(d.name)}

After(D, l) ==
    LET newer == Past(D, TextOf(Expr("name", l)))
    IN  {d \in newer : \A x \in newer : TextOf(d.name) <= TextOf(x.name)}
===============================================================================
