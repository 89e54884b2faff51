------------------------------ MODULE AuditTrail ------------------------------
(***************************************************************************)
(* What the append-only log promises, without the threads and queues that  *)
(* keep the promise: what a source reports enters the trail once, in the   *)
(* order that source reported it, and nothing else ever enters; a report   *)
(* the file refuses is lost in its turn, and a death of the daemon loses   *)
(* what was still pending and nothing that had entered.                    *)
(***************************************************************************)
EXTENDS Naturals, Sequences

CONSTANTS Source, MaxReports

VARIABLES
    reported,     \* reports so far; the n-th one is called n
    pending,      \* source -> the reports that have not entered the trail
    trail,
    lost          \* reports the file refused

auditVars == <<reported, pending, trail, lost>>

Init ==
    /\ reported = 0
    /\ pending = [s \in Source |-> {}]
    /\ trail = <<>> /\ lost = {}

(* The turn is the earliest report's: n, of those pending with s. *)
IsNext(n, s) == n \in pending[s] /\ \A m \in pending[s] : n <= m

Report(s) ==
    /\ reported < MaxReports
    /\ reported' = reported + 1
    /\ pending' = [pending EXCEPT ![s] = @ \cup {reported + 1}]
    /\ UNCHANGED <<trail, lost>>

Enter(s) ==
    \E n \in pending[s] :
        /\ IsNext(n, s)
        /\ trail' = Append(trail, n)
        /\ pending' = [pending EXCEPT ![s] = @ \ {n}]
        /\ UNCHANGED <<reported, lost>>

Refuse(s) ==
    \E n \in pending[s] :
        /\ IsNext(n, s)
        /\ lost' = lost \cup {n}
        /\ pending' = [pending EXCEPT ![s] = @ \ {n}]
        /\ UNCHANGED <<reported, trail>>

Die ==
    /\ pending' = [s \in Source |-> {}]
    /\ UNCHANGED <<reported, trail, lost>>

Next == Die \/ \E s \in Source : Report(s) \/ Enter(s) \/ Refuse(s)

Spec == Init /\ [][Next]_auditVars
=============================================================================
