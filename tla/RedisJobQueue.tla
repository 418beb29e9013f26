--------------------------- MODULE RedisJobQueue ----------------------------
(***************************************************************************)
(* The webhook route from the point where a pull_request delivery has been *)
(* verified, through backend/job_queue/redis_arq.py: RedisJobQueue.enqueue *)
(* is an atomic SET key NX EX in Redis followed by ARQ's enqueue_job, each *)
(* made through retry -> circuit breaker -> timeout (_call_reliably).      *)
(*                                                                         *)
(* The two Redis operations are separate, and each attempt at one of them  *)
(* can end in five ways: it is answered; it takes effect and the answer is *)
(* lost; it times out in the caller and takes effect later, because        *)
(* neither run_with_timeout nor await_future cancels what it waits for; it *)
(* is refused; or the breaker rejects it.  The breaker's own state is the  *)
(* subject of CircuitBreaker; here a rejection may come at any attempt.    *)
(*                                                                         *)
(* A job stands for one enqueue_job that took effect.  ARQ gives each call *)
(* without _job_id a random identifier; here it is the claim and the       *)
(* attempt that made the call.                                             *)
(***************************************************************************)
EXTENDS Integers, FiniteSets

CONSTANTS Deliveries,    \* X-GitHub-Delivery identifiers
          Handlers,      \* concurrent runs of receive_webhook
          MaxAttempts,   \* RetryPolicy.max_attempts
          MaxSends,      \* bound: times GitHub sends one delivery, redeliveries included
          MaxLosses,     \* bound: times one delivery's key leaves Redis
          Faults         \* the faults that may happen

FaultKinds == {"refused", "reply_lost", "late_effect", "breaker_open", "crash", "key_lost"}

\* RetryPolicy.__post_init__ rejects max_attempts < 1.
ASSUME QueueConfig ==
    /\ MaxAttempts \in Nat \ {0}
    /\ MaxSends \in Nat
    /\ MaxLosses \in Nat
    /\ Faults \subseteq FaultKinds

VARIABLES
    pc,         \* per handler: idle, or the Redis operation it is attempting
    delivery,   \* per handler: the delivery it handles
    try,        \* per handler: the attempt of call_with_retry, 1..MaxAttempts
    claim,      \* per handler: which claim of the delivery it holds
    keys,       \* deliveries whose idempotency key is in Redis
    jobs,       \* every job handed to ARQ so far
    lateSets,   \* SETs abandoned on the timeout executor, by delivery
    lateJobs,   \* enqueue_job coroutines abandoned on the queue's event loop
    claims,     \* per delivery: SETs that reported the key as newly set
    losses,     \* per delivery: times the key expired or was lost with Redis
    sends,      \* per delivery: times GitHub sent it
    answers     \* per delivery: the results the route has answered

handlerVars == <<pc, delivery, try, claim>>
redisVars == <<keys, jobs>>
lateVars == <<lateSets, lateJobs>>
vars == <<handlerVars, redisVars, lateVars, claims, losses, sends, answers>>

Results == {"accepted", "duplicate", "unavailable"}

\* The job identifiers: claim k of delivery d, attempt n at enqueue_job.
Jobs == [d : Deliveries, claim : 1..(MaxLosses + 1), try : 1..MaxAttempts]
JobsOf(d) == {j \in jobs : j.d = d}
JobOf(r) == [d |-> delivery[r], claim |-> claim[r], try |-> try[r]]

-----------------------------------------------------------------------------
Init ==
    /\ pc = [r \in Handlers |-> "idle"]
    /\ delivery \in [Handlers -> Deliveries]
    /\ try = [r \in Handlers |-> 1]
    /\ claim = [r \in Handlers |-> 0]
    /\ keys = {}
    /\ jobs = {}
    /\ lateSets = [d \in Deliveries |-> 0]
    /\ lateJobs = {}
    /\ claims = [d \in Deliveries |-> 0]
    /\ losses = [d \in Deliveries |-> 0]
    /\ sends = [d \in Deliveries |-> 0]
    /\ answers = [d \in Deliveries |-> {}]

\* receive_webhook reaches enqueue_async with a verified event: a first
\* delivery, or GitHub's redelivery of one, possibly while an earlier request
\* for it is still being handled.
Receive(r, d) ==
    /\ pc[r] = "idle"
    /\ sends[d] < MaxSends
    /\ sends' = [sends EXCEPT ![d] = @ + 1]
    /\ pc' = [pc EXCEPT ![r] = "set"]
    /\ delivery' = [delivery EXCEPT ![r] = d]
    /\ try' = [try EXCEPT ![r] = 1]
    /\ claim' = [claim EXCEPT ![r] = 0]
    /\ UNCHANGED <<redisVars, lateVars, claims, losses, answers>>

\* The handler answers GitHub and is free again.
Answer(r, result) ==
    /\ answers' = [answers EXCEPT ![delivery[r]] = @ \cup {result}]
    /\ pc' = [pc EXCEPT ![r] = "idle"]
    /\ UNCHANGED <<delivery, try, claim>>

\* Mutation of AttemptFailed: the attempts are never exhausted.
AttemptFailedForever(r) ==
    /\ try' = [try EXCEPT ![r] = (@ % MaxAttempts) + 1]
    /\ UNCHANGED <<pc, delivery, claim, answers>>

\* call_with_retry after an attempt raised: the next attempt, or
\* RetryExhaustedError, which enqueue turns into QueueUnavailableError and the
\* route into a 503.  The idempotency key is not taken back.
AttemptFailed(r) ==
    IF try[r] < MaxAttempts
    THEN /\ try' = [try EXCEPT ![r] = @ + 1]
         /\ UNCHANGED <<pc, delivery, claim, answers>>
    ELSE Answer(r, "unavailable")

\* The SET NX of delivery d executes in Redis.
ExecuteSet(d) == keys' = keys \cup {d}

\* Mutation of SetAnswered: SET without NX always reports success.
SetAnsweredWithoutNX(r) ==
    LET d == delivery[r]
    IN  /\ pc[r] = "set"
        /\ ExecuteSet(d)
        /\ claims' = [claims EXCEPT ![d] = @ + 1]
        /\ pc' = [pc EXCEPT ![r] = "enqueue"]
        /\ try' = [try EXCEPT ![r] = 1]
        /\ claim' = [claim EXCEPT ![r] = claims[d] + 1]
        /\ UNCHANGED <<delivery, answers, jobs, lateVars, losses, sends>>

\* Mutation of SetAnswered: "accepted" is answered before the hand-off.
SetAnsweredTooEarly(r) ==
    LET d == delivery[r]
    IN  /\ pc[r] = "set"
        /\ ExecuteSet(d)
        /\ claims' = IF d \in keys THEN claims ELSE [claims EXCEPT ![d] = @ + 1]
        /\ Answer(r, IF d \in keys THEN "duplicate" ELSE "accepted")
        /\ UNCHANGED <<jobs, lateVars, losses, sends>>

\* _set_idempotency_key is answered: newly set, so go on to enqueue_job; or
\* already there, so the delivery is a duplicate.
SetAnswered(r) ==
    LET d == delivery[r]
    IN  /\ pc[r] = "set"
        /\ ExecuteSet(d)
        /\ IF d \notin keys
           THEN /\ claims' = [claims EXCEPT ![d] = @ + 1]
                /\ pc' = [pc EXCEPT ![r] = "enqueue"]
                /\ try' = [try EXCEPT ![r] = 1]
                /\ claim' = [claim EXCEPT ![r] = claims[d] + 1]
                /\ UNCHANGED <<delivery, answers>>
           ELSE Answer(r, "duplicate") /\ UNCHANGED claims
        /\ UNCHANGED <<jobs, lateVars, losses, sends>>

\* _enqueue_arq_job is answered.
JobAnswered(r) ==
    /\ pc[r] = "enqueue"
    /\ jobs' = jobs \cup {JobOf(r)}
    /\ Answer(r, "accepted")
    /\ UNCHANGED <<keys, lateVars, claims, losses, sends>>

\* The operation executes, and the connection drops or the timeout passes
\* before the answer arrives.
ReplyLost(r) ==
    /\ "reply_lost" \in Faults
    /\ \/ /\ pc[r] = "set"
          /\ ExecuteSet(delivery[r])
          /\ UNCHANGED jobs
       \/ /\ pc[r] = "enqueue"
          /\ jobs' = jobs \cup {JobOf(r)}
          /\ UNCHANGED keys
    /\ AttemptFailed(r)
    /\ UNCHANGED <<lateVars, claims, losses, sends>>

\* CallTimedOutError while the operation is still queued or running: the
\* caller stops waiting and the operation goes on.
TimedOut(r) ==
    /\ "late_effect" \in Faults
    /\ \/ /\ pc[r] = "set"
          /\ lateSets' = [lateSets EXCEPT ![delivery[r]] = @ + 1]
          /\ UNCHANGED lateJobs
       \/ /\ pc[r] = "enqueue"
          /\ lateJobs' = lateJobs \cup {JobOf(r)}
          /\ UNCHANGED lateSets
    /\ AttemptFailed(r)
    /\ UNCHANGED <<redisVars, claims, losses, sends>>

\* The connection is refused: nothing happens in Redis.
Refused(r) ==
    /\ "refused" \in Faults
    /\ pc[r] # "idle"
    /\ AttemptFailed(r)
    /\ UNCHANGED <<redisVars, lateVars, claims, losses, sends>>

\* CircuitOpenError is not retried: QueueUnavailableError at once.
BreakerOpen(r) ==
    /\ "breaker_open" \in Faults
    /\ pc[r] # "idle"
    /\ Answer(r, "unavailable")
    /\ UNCHANGED <<redisVars, lateVars, claims, losses, sends>>

\* An abandoned operation takes effect.
LateSet(d) ==
    /\ lateSets[d] > 0
    /\ lateSets' = [lateSets EXCEPT ![d] = @ - 1]
    /\ ExecuteSet(d)
    /\ UNCHANGED <<handlerVars, jobs, lateJobs, claims, losses, sends, answers>>

LateJob(j) ==
    /\ j \in lateJobs
    /\ lateJobs' = lateJobs \ {j}
    /\ jobs' = jobs \cup {j}
    /\ UNCHANGED <<handlerVars, keys, lateSets, claims, losses, sends, answers>>

\* The API process dies: its requests are never answered, and what it had
\* abandoned is gone.  Redis keeps the key and the jobs.
Crash ==
    /\ "crash" \in Faults
    /\ pc' = [r \in Handlers |-> "idle"]
    /\ lateSets' = [d \in Deliveries |-> 0]
    /\ lateJobs' = {}
    /\ UNCHANGED <<delivery, try, claim, redisVars, claims, losses, sends, answers>>

\* The key reaches its TTL, or Redis restarts without it.
KeyLost(d) ==
    /\ "key_lost" \in Faults
    /\ d \in keys
    /\ losses[d] < MaxLosses
    /\ keys' = keys \ {d}
    /\ losses' = [losses EXCEPT ![d] = @ + 1]
    /\ UNCHANGED <<handlerVars, jobs, lateVars, claims, sends, answers>>

Handle(r) ==
    \/ SetAnswered(r)
    \/ JobAnswered(r)
    \/ ReplyLost(r)
    \/ TimedOut(r)
    \/ Refused(r)
    \/ BreakerOpen(r)

Next ==
    \/ \E r \in Handlers, d \in Deliveries : Receive(r, d)
    \/ \E r \in Handlers : Handle(r)
    \/ \E d \in Deliveries : LateSet(d) \/ KeyLost(d)
    \/ \E j \in lateJobs : LateJob(j)
    \/ Crash

Spec == Init /\ [][Next]_vars

\* A request that is being handled goes on: every wait in it is bounded by a
\* timeout.  GitHub is not obliged to send anything.
FairSpec == Spec /\ \A r \in Handlers : WF_vars(Handle(r))

-----------------------------------------------------------------------------
TypeOK ==
    /\ pc \in [Handlers -> {"idle", "set", "enqueue"}]
    /\ delivery \in [Handlers -> Deliveries]
    /\ try \in [Handlers -> 1..MaxAttempts]
    /\ claim \in [Handlers -> 0..(MaxLosses + 1)]
    /\ keys \subseteq Deliveries
    /\ jobs \subseteq Jobs
    /\ lateSets \in [Deliveries -> Nat]
    /\ lateJobs \subseteq Jobs
    /\ claims \in [Deliveries -> 0..(MaxLosses + 1)]
    /\ losses \in [Deliveries -> 0..MaxLosses]
    /\ sends \in [Deliveries -> 0..MaxSends]
    /\ answers \in [Deliveries -> SUBSET Results]

\* However many requests for one delivery run at once, and however often the
\* SET is retried or executes late, one of them at most is told "newly set"
\* for as long as the key stays in Redis (redis_arq.py:227-244).
GateIsExclusive ==
    \A d \in Deliveries : claims[d] <= losses[d] + 1

\* How far "exactly one job" can be missed upwards: a claim hands over one job
\* per attempt at most, so a delivery never has more than MaxAttempts jobs for
\* each time its key was lost, plus MaxAttempts.
JobsBounded ==
    \A d \in Deliveries :
        Cardinality(JobsOf(d)) <= MaxAttempts * (losses[d] + 1)

\* A 200 "accepted" is never given for a delivery ARQ has no job for
\* (RedisJobQueue.enqueue answers after the hand-off, receive_webhook after
\* enqueue).
AcceptedHasJob ==
    \A d \in Deliveries : "accepted" \in answers[d] => JobsOf(d) # {}

\* No request is left hanging: GitHub gets an answer, whatever Redis does.
Answered ==
    \A r \in Handlers : pc[r] # "idle" ~> pc[r] = "idle"

\* router.py:280-283: after the 503, "GitHub's own redelivery will retry this
\* exact webhook later, once the dependency recovers".  If that redelivery is
\* turned away as a duplicate, the job must exist or be on its way.
RedeliveryIsNotTurnedAway ==
    \A d \in Deliveries :
        {"unavailable", "duplicate"} \subseteq answers[d] =>
            \/ JobsOf(d) # {}
            \/ \E j \in lateJobs : j.d = d
            \/ \E r \in Handlers : pc[r] # "idle" /\ delivery[r] = d

\* The contract of interface.py, with a claim read as "told newly set".
Contract == INSTANCE JobQueueContract WITH
    claimed <- {d \in Deliveries : claims[d] > 0},
    jobCount <- [d \in Deliveries |-> Cardinality(JobsOf(d))]

\* With no operation that takes effect unseen and no key lost, the queue is an
\* implementation of that contract: one claim, one job, and a "duplicate" or an
\* "accepted" only for a delivery that was claimed (RedisJobQueue.enqueue).
ImplementsContract == Contract!Spec
=============================================================================
