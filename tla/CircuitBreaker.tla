--------------------------- MODULE CircuitBreaker ---------------------------
(***************************************************************************)
(* backend/reliability/circuit_breaker.py: one breaker instance shared by  *)
(* every thread that calls the dependency it guards.  A call is two        *)
(* critical sections under the breaker's lock, admission and recording of  *)
(* the outcome, with the dependency call between them made without the     *)
(* lock; other callers interleave there.                                   *)
(*                                                                         *)
(* Time is discrete and relative.  opened_at is kept as its age in ticks,  *)
(* saturated at ResetTimeout, because the code only asks whether           *)
(* clock() - opened_at has reached it.  callAge[c] is how long c's call    *)
(* has been running; the timeout layer inside the breaker bounds it by     *)
(* CallBound.  The failure count saturates at FailureThreshold, because    *)
(* the code only asks whether it has reached it.                           *)
(***************************************************************************)
EXTENDS Integers, FiniteSets

CONSTANTS Callers,           \* the threads that share the breaker
          FailureThreshold,  \* CircuitBreakerConfig.failure_threshold
          ResetTimeout,      \* CircuitBreakerConfig.reset_timeout_seconds, in ticks
          CallBound          \* TimeoutPolicy.seconds around the wrapped call, in ticks

\* CircuitBreakerConfig.__post_init__ and TimeoutPolicy.__post_init__ reject
\* anything else.
ASSUME BreakerConfig ==
    /\ FailureThreshold \in Nat \ {0}
    /\ ResetTimeout \in Nat \ {0}
    /\ CallBound \in Nat \ {0}

VARIABLES
    state,           \* _state
    failures,        \* _consecutive_failures, saturated
    openAge,         \* ticks since _opened_at, or Unset for None
    probeInFlight,   \* _probe_in_flight
    pc,              \* per caller: in a call, or how its last call() ended
    callAge,         \* per caller: ticks since its current call was admitted
    up,              \* the dependency answers, and within CallBound
    sawOutage        \* callers whose current call met the dependency down

breakerVars == <<state, failures, openAge, probeInFlight>>
envVars == <<up, sawOutage>>
vars == <<breakerVars, pc, callAge, envVars>>

Unset == -1
States == {"closed", "open", "half_open"}
Outcomes == {"idle", "calling", "returned", "raised", "rejected"}

InFlight == {c \in Callers : pc[c] = "calling"}

Min2(a, b) == IF a <= b THEN a ELSE b

-----------------------------------------------------------------------------
Init ==
    /\ state = "closed"
    /\ failures = 0
    /\ openAge = Unset
    /\ probeInFlight = FALSE
    /\ pc = [c \in Callers |-> "idle"]
    /\ callAge = [c \in Callers |-> 0]
    /\ up = TRUE
    /\ sawOutage = {}

\* _maybe_expire_open_locked, run first in every critical section that reads
\* the state: what state and probe flag that section then sees.
Expired == state = "open" /\ openAge # Unset /\ openAge >= ResetTimeout
SeenState == IF Expired THEN "half_open" ELSE state
SeenProbe == IF Expired THEN FALSE ELSE probeInFlight

\* Mutation of Admit: the probe flag is not consulted.
AdmitPastProbe(c) ==
    /\ pc[c] # "calling"
    /\ SeenState \in {"closed", "half_open"}
    /\ state' = SeenState
    /\ probeInFlight' = (SeenState = "half_open" \/ SeenProbe)
    /\ pc' = [pc EXCEPT ![c] = "calling"]
    /\ callAge' = [callAge EXCEPT ![c] = 0]
    /\ sawOutage' = IF up THEN sawOutage ELSE sawOutage \cup {c}
    /\ UNCHANGED <<failures, openAge, up>>

\* First critical section of call(): the call goes through.
Admit(c) ==
    /\ pc[c] # "calling"
    /\ \/ SeenState = "closed"
       \/ SeenState = "half_open" /\ ~SeenProbe
    /\ state' = SeenState
    /\ probeInFlight' = (SeenState = "half_open" \/ SeenProbe)
    /\ pc' = [pc EXCEPT ![c] = "calling"]
    /\ callAge' = [callAge EXCEPT ![c] = 0]
    /\ sawOutage' = IF up THEN sawOutage ELSE sawOutage \cup {c}
    /\ UNCHANGED <<failures, openAge, up>>

\* First critical section of call(): CircuitOpenError, func is never called.
Reject(c) ==
    /\ pc[c] # "calling"
    /\ \/ SeenState = "open"
       \/ SeenState = "half_open" /\ SeenProbe
    /\ state' = SeenState
    /\ probeInFlight' = SeenProbe
    /\ pc' = [pc EXCEPT ![c] = "rejected"]
    /\ UNCHANGED <<failures, openAge, callAge, envVars>>

\* Mutation of RecordFailure: a failed probe leaves its flag set.
RecordFailureKeepsProbe ==
    LET count == Min2(failures + 1, FailureThreshold)
        trips == state = "half_open" \/ count >= FailureThreshold
    IN  /\ failures' = count
        /\ state' = IF trips THEN "open" ELSE state
        /\ openAge' = IF trips THEN 0 ELSE openAge
        /\ UNCHANGED probeInFlight

\* Mutation of RecordFailure: _opened_at is not set when the breaker trips.
RecordFailureUntimed ==
    LET count == Min2(failures + 1, FailureThreshold)
        trips == state = "half_open" \/ count >= FailureThreshold
    IN  /\ failures' = count
        /\ state' = IF trips THEN "open" ELSE state
        /\ probeInFlight' = FALSE
        /\ UNCHANGED openAge

\* _record_failure.  It looks at the state of now, not at the state the call
\* was admitted in.
RecordFailure ==
    LET count == Min2(failures + 1, FailureThreshold)
        trips == state = "half_open" \/ count >= FailureThreshold
    IN  /\ failures' = count
        /\ state' = IF trips THEN "open" ELSE state
        /\ openAge' = IF trips THEN 0 ELSE openAge
        /\ probeInFlight' = FALSE

\* Mutation of RecordSuccess: the failure count is not reset.
RecordSuccessKeepsCount ==
    /\ state' = "closed"
    /\ openAge' = Unset
    /\ probeInFlight' = FALSE
    /\ UNCHANGED failures

\* _record_success.
RecordSuccess ==
    /\ state' = "closed"
    /\ failures' = 0
    /\ openAge' = Unset
    /\ probeInFlight' = FALSE

\* The wrapped call of c ends, with an exception or a result, and the second
\* critical section records it.  A call that met the dependency down may report
\* that after the dependency is back.  (A call that raises through a fault of
\* its own is counted by the code in the same way; it is a Toggle to and fro.)
Fail(c) ==
    /\ pc[c] = "calling"
    /\ c \in sawOutage
    /\ RecordFailure
    /\ pc' = [pc EXCEPT ![c] = "raised"]
    /\ callAge' = [callAge EXCEPT ![c] = 0]
    /\ sawOutage' = sawOutage \ {c}
    /\ UNCHANGED up

Succeed(c) ==
    /\ pc[c] = "calling"
    /\ up
    /\ RecordSuccess
    /\ pc' = [pc EXCEPT ![c] = "returned"]
    /\ callAge' = [callAge EXCEPT ![c] = 0]
    /\ sawOutage' = sawOutage \ {c}
    /\ UNCHANGED up

\* snapshot(): a read that expires an OPEN breaker as a side effect.
Snapshot ==
    /\ Expired
    /\ state' = SeenState
    /\ probeInFlight' = SeenProbe
    /\ UNCHANGED <<failures, openAge, pc, callAge, envVars>>

\* One tick of time.monotonic.  No call outlives its timeout: run_with_timeout
\* raises CallTimedOutError in the caller.
Tick ==
    /\ \A c \in InFlight : callAge[c] < CallBound
    /\ callAge' = [c \in Callers |-> IF c \in InFlight THEN callAge[c] + 1 ELSE 0]
    /\ openAge' = IF openAge = Unset THEN Unset ELSE Min2(openAge + 1, ResetTimeout)
    /\ UNCHANGED <<state, failures, probeInFlight, pc, envVars>>

\* The dependency goes down, under the calls in flight, or comes back.
Toggle ==
    /\ up' = ~up
    /\ sawOutage' = IF up THEN InFlight ELSE sawOutage
    /\ UNCHANGED <<breakerVars, pc, callAge>>

Next ==
    \/ \E c \in Callers : Admit(c) \/ Reject(c) \/ Fail(c) \/ Succeed(c)
    \/ Snapshot
    \/ Tick
    \/ Toggle

Spec == Init /\ [][Next]_vars

\* Callers keep calling, an admitted call ends (the timeout layer sees to
\* it), and time passes.  Nothing is assumed of the dependency or of snapshot.
Fairness ==
    /\ \A c \in Callers : WF_vars(Admit(c) \/ Reject(c))
                          /\ WF_vars(Fail(c) \/ Succeed(c))
    /\ WF_vars(Tick)

FairSpec == Spec /\ Fairness

-----------------------------------------------------------------------------
TypeOK ==
    /\ state \in States
    /\ failures \in 0..FailureThreshold
    /\ openAge \in {Unset} \cup (0..ResetTimeout)
    /\ probeInFlight \in BOOLEAN
    /\ pc \in [Callers -> Outcomes]
    /\ callAge \in [Callers -> 0..CallBound]
    /\ up \in BOOLEAN
    /\ sawOutage \subseteq InFlight

\* The probe flag is never left behind: while it is set the breaker is
\* HALF_OPEN and some admitted call is still going to clear it.  A leaked flag
\* would reject every later call forever (call, _record_*).
ProbeFlagHeld ==
    probeInFlight => state = "half_open" /\ InFlight # {}

\* The fields agree with the state: CLOSED has fewer failures than the
\* threshold and no opening time, OPEN and HALF_OPEN have an opening time, so
\* that OPEN always expires, and a failure that explains it, whatever stale
\* outcomes are recorded in between (_record_failure, _record_success).
FieldsAgree ==
    /\ state = "closed" => failures < FailureThreshold /\ openAge = Unset
    /\ state # "closed" => failures > 0 /\ openAge # Unset

\* However late the outcomes of old calls are recorded, and in whatever state,
\* the four fields stay consistent: both of the above.
StateSound == ProbeFlagHeld /\ FieldsAgree

\* While the breaker is HALF_OPEN at most one call is at the dependency.
\* circuit_breaker.py:24 and :123 promise exactly one probe; a call admitted
\* before the breaker opened must not still be running beside it.
SingleProbe ==
    state = "half_open" => \A c, d \in InFlight : c = d

\* Once the dependency is up for good the breaker closes for good, whatever
\* calls from the outage are still to be recorded, and so every caller is
\* admitted again.
Recovers == <>[]up => <>[](state = "closed")
=============================================================================
