-------------------------- MODULE JobQueueContract --------------------------
(***************************************************************************)
(* What backend/job_queue/interface.py asks of every JobQueue: "calling    *)
(* enqueue twice with the same WebhookEvent.delivery_id results in exactly *)
(* one job".  A delivery is claimed by one call; that call hands over one  *)
(* job and answers "accepted"; every other call answers "duplicate", or    *)
(* raises QueueUnavailableError, and hands over nothing.                   *)
(***************************************************************************)
EXTENDS Integers

CONSTANT Deliveries

VARIABLES claimed,    \* deliveries some call has taken responsibility for
          jobCount,   \* jobs handed over, per delivery
          answers     \* the results given so far, per delivery

vars == <<claimed, jobCount, answers>>

Results == {"accepted", "duplicate", "unavailable"}

TypeOK ==
    /\ claimed \subseteq Deliveries
    /\ jobCount \in [Deliveries -> {0, 1}]
    /\ answers \in [Deliveries -> SUBSET Results]

Init ==
    /\ claimed = {}
    /\ jobCount = [d \in Deliveries |-> 0]
    /\ answers = [d \in Deliveries |-> {}]

Answer(d, result) == answers' = [answers EXCEPT ![d] = @ \cup {result}]

Claim(d) ==
    /\ d \notin claimed
    /\ claimed' = claimed \cup {d}
    /\ UNCHANGED <<jobCount, answers>>

Accept(d) ==
    /\ d \in claimed
    /\ jobCount[d] = 0
    /\ jobCount' = [jobCount EXCEPT ![d] = 1]
    /\ Answer(d, "accepted")
    /\ UNCHANGED claimed

Duplicate(d) ==
    /\ d \in claimed
    /\ Answer(d, "duplicate")
    /\ UNCHANGED <<claimed, jobCount>>

Unavailable(d) ==
    /\ Answer(d, "unavailable")
    /\ UNCHANGED <<claimed, jobCount>>

Next == \E d \in Deliveries :
    Claim(d) \/ Accept(d) \/ Duplicate(d) \/ Unavailable(d)

Spec == Init /\ [][Next]_vars
=============================================================================
