------------------------------- MODULE SnapRoot -------------------------------
(***************************************************************************)
(* SNAP_ROOT and the runs of src/snapshot.sh that fill it: the loop of     *)
(* src/snapshot-loop.sh, and runs by hand, at the same time.               *)
(***************************************************************************)
EXTENDS TimeExpr

CONSTANTS
    File,          \* what there is to copy
    MaxRetries,    \* the 3 of "RETRIES -gt 3"
    Setups,        \* bound: how a behaviour may start: the instant, the
                   \* directories, who runs snapshot.sh, is /when mounted
    MaxTime,       \* bound: the clock's last instant
    MaxSnaps       \* bound: directories

(* The names of directories; one that is a date, a shortcut or a weekday,  *)
(* which only a person could give, is left out.                            *)
SnapName == [kind: {"name", "other", "garbled"}, n: Int]

(* A directory.  History: the instant its name was read off the clock, the *)
(* one it was made at and, when another run has copied into it since, the  *)
(* names there were when that run looked.                                  *)
SnapDir == [name: SnapName, taken: Int, made: Nat, files: SUBSET File,
            nested: SUBSET SnapName]

ASSUME SnapRootAssumption ==
    /\ MaxRetries \in Nat /\ MaxTime \in Nat /\ MaxSnaps \in Nat
    /\ \A s \in Setups :
          /\ s.start \in 0 .. MaxTime /\ s.dirs \subseteq SnapDir /\ s.mounted \in BOOLEAN
          /\ \A d \in s.dirs :
                /\ d.nested = {}
                /\ d.name.kind = "name" =>
                      /\ d.name.n = Label(d.taken)
                      /\ 0 <= d.taken /\ d.taken <= d.made /\ d.made <= s.start
    /\ None \notin SnapDir /\ Panic \notin SnapDir

VARIABLES
    now,           \* the clock
    dirs,          \* the directories in SNAP_ROOT
    taker,         \* taker -> where its run of snapshot.sh stands
    mounted        \* the file system's process runs

snapVars == <<now, dirs, taker>>

Snap(name, taken, made, files) ==
    [name |-> name, taken |-> taken, made |-> made, files |-> files, nested |-> {}]

(* looked: history, the names there were when it found its own was free.   *)
Idle == [at |-> "idle", ts |-> 0, asked |-> 0, tries |-> 0, looked |-> {}]

Asleep(run) ==
    [at |-> "sleep", ts |-> 0, asked |-> run.asked, tries |-> run.tries + 1, looked |-> {}]

Named(l) == {d \in dirs : d.name = Expr("name", l)}

SnapInit ==
    \E s \in Setups :
        /\ now = s.start /\ dirs = s.dirs /\ mounted = s.mounted
        /\ taker = [t \in s.takers |-> Idle]

Tick ==
    /\ now < MaxTime
    /\ now' = now + 1
    /\ UNCHANGED <<dirs, taker>>

-----------------------------------------------------------------------------
(* TS="$(date ...)" *)
Dates(t, tries) ==
    taker' = [taker EXCEPT ![t] = [at |-> "check", ts |-> Label(now), asked |-> now,
                                   tries |-> tries, looked |-> {}]]

Begin(t) ==
    /\ taker[t].at = "idle"
    /\ Dates(t, 0)
    /\ UNCHANGED <<now, dirs>>

Taken == {d.name : d \in dirs}

MutCheck(t) ==
    /\ taker[t].at = "check"
    /\ taker' = [taker EXCEPT ![t].at = "copy", ![t].looked = Taken]
    /\ UNCHANGED <<now, dirs>>

(* [ -e "$SNAP_ROOT/$TS" ] *)
Check(t) ==
    /\ taker[t].at = "check"
    /\ \/ /\ Named(taker[t].ts) = {}
          /\ taker' = [taker EXCEPT ![t].at = "copy", ![t].looked = Taken]
       \/ /\ Named(taker[t].ts) # {}
          /\ taker' = [taker EXCEPT ![t] =
                         IF taker[t].tries = MaxRetries THEN Idle ELSE Asleep(taker[t])]
    /\ UNCHANGED <<now, dirs>>

(* sleep 1, and the next name *)
Wake(t) ==
    /\ taker[t].at = "sleep" /\ now > taker[t].asked
    /\ Dates(t, taker[t].tries)
    /\ UNCHANGED <<now, dirs>>

(* cp makes its target or, if it is there after all, copies into it. *)
MakeTarget(t) ==
    /\ taker[t].at = "copy"
    /\ \/ /\ Named(taker[t].ts) = {} /\ Cardinality(dirs) < MaxSnaps
          /\ dirs' = dirs \cup {Snap(Expr("name", taker[t].ts), taker[t].asked, now, {})}
          /\ taker' = [taker EXCEPT ![t] = [Idle EXCEPT !.at = "fill", !.ts = taker[t].ts]]
       \/ /\ Named(taker[t].ts) # {}
          /\ dirs' = {IF d \in Named(taker[t].ts) THEN [d EXCEPT !.nested = taker[t].looked] ELSE d
                       : d \in dirs}
          /\ taker' = [taker EXCEPT ![t] = Idle]
    /\ UNCHANGED now

CopyFile(t) ==
    /\ taker[t].at = "fill"
    /\ \E d \in Named(taker[t].ts), f \in File :
          /\ f \notin d.files
          /\ dirs' = (dirs \ {d}) \cup {[d EXCEPT !.files = @ \cup {f}]}
    /\ UNCHANGED <<now, taker>>

(* cp is done, or it fails half way or is killed: set -e ends the run. *)
Ends(t) ==
    /\ taker[t].at \in {"copy", "fill"}
    /\ taker' = [taker EXCEPT ![t] = Idle]
    /\ UNCHANGED <<now, dirs>>

TakerStep(t) ==
    \/ Begin(t) \/ Check(t) \/ Wake(t) \/ MakeTarget(t) \/ CopyFile(t) \/ Ends(t)

SnapNext == Tick \/ \E t \in DOMAIN taker : TakerStep(t)
===============================================================================
