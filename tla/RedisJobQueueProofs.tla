------------------------ MODULE RedisJobQueueProofs -------------------------
(***************************************************************************)
(* Safety of RedisJobQueue.enqueue for any set of deliveries and handlers, *)
(* any number of attempts and any combination of the faults; and, where    *)
(* every fault is seen by the code, that it implements the contract of a   *)
(* job queue.                                                              *)
(***************************************************************************)
EXTENDS RedisJobQueue, FiniteSetTheorems, TLAPS

\* TypeOK without the bounds that GateIsExclusive gives.
Types ==
    /\ pc \in [Handlers -> {"idle", "set", "enqueue"}]
    /\ delivery \in [Handlers -> Deliveries]
    /\ try \in [Handlers -> 1..MaxAttempts]
    /\ claim \in [Handlers -> Nat]
    /\ keys \subseteq Deliveries
    /\ lateSets \in [Deliveries -> Nat]
    /\ claims \in [Deliveries -> Nat]
    /\ losses \in [Deliveries -> 0..MaxLosses]
    /\ sends \in [Deliveries -> 0..MaxSends]
    /\ answers \in [Deliveries -> SUBSET Results]

\* A key that is in Redis accounts for one claim, every lost key for one more.
ClaimsAreKeys ==
    \A d \in Deliveries : claims[d] <= losses[d] + (IF d \in keys THEN 1 ELSE 0)

\* A job belongs to a claim that was made and to an attempt that was allowed.
IssuedJobs == [d : Deliveries, claim : Nat \ {0}, try : 1..MaxAttempts]
JobsAreClaimed ==
    /\ jobs \cup lateJobs \subseteq IssuedJobs
    /\ \A j \in jobs \cup lateJobs : j.claim <= claims[j.d]
    /\ \A r \in Handlers :
          pc[r] = "enqueue" => claim[r] # 0
    /\ \A r \in Handlers : claim[r] # 0 => claim[r] <= claims[delivery[r]]

QueueInv == Types /\ ClaimsAreKeys /\ JobsAreClaimed /\ AcceptedHasJob

USE QueueConfig DEF QueueConfig

-----------------------------------------------------------------------------
LEMMA InitQueue == Init => QueueInv
  BY DEF Init, QueueInv, Types, ClaimsAreKeys, JobsAreClaimed, AcceptedHasJob,
         Results, IssuedJobs

\* Giving up, or trying again, touches nothing but the handler and the answer,
\* and never answers "accepted".
LEMMA AttemptFailedEffect ==
  ASSUME Types, NEW r \in Handlers, AttemptFailed(r)
  PROVE  /\ pc' \in [Handlers -> {"idle", "set", "enqueue"}]
         /\ try' \in [Handlers -> 1..MaxAttempts]
         /\ answers' \in [Deliveries -> SUBSET Results]
         /\ UNCHANGED <<delivery, claim>>
         /\ \A x \in Handlers : pc'[x] = "enqueue" => pc[x] = "enqueue"
         /\ \A d \in Deliveries : "accepted" \in answers'[d] => "accepted" \in answers[d]
  <1>1. CASE try[r] < MaxAttempts
    BY <1>1 DEF AttemptFailed, Types
  <1>2. CASE ~(try[r] < MaxAttempts)
    BY <1>2 DEF AttemptFailed, Answer, Types, Results
  <1>3. QED
    BY <1>1, <1>2

LEMMA JobIsIssued ==
  ASSUME Types, JobsAreClaimed, NEW r \in Handlers, pc[r] = "enqueue"
  PROVE  JobOf(r) \in IssuedJobs /\ JobOf(r).claim <= claims[JobOf(r).d]
  BY DEF JobOf, IssuedJobs, Types, JobsAreClaimed

LEMMA StepQueue == QueueInv /\ [Next]_vars => QueueInv'
  <1> SUFFICES ASSUME QueueInv, [Next]_vars PROVE QueueInv'
    OBVIOUS
  <1>0. Types /\ ClaimsAreKeys /\ JobsAreClaimed /\ AcceptedHasJob
    BY DEF QueueInv
  <1> USE DEF QueueInv, redisVars, lateVars, handlerVars
  <1>1. ASSUME NEW r \in Handlers, NEW d \in Deliveries, Receive(r, d)
        PROVE  QueueInv'
    <2>1. Types'
      BY <1>0, <1>1 DEF Receive, Types
    <2>2. JobsAreClaimed'
      BY <1>0, <1>1 DEF Receive, Types, JobsAreClaimed
    <2>3. QED
      BY <1>0, <1>1, <2>1, <2>2 DEF Receive, ClaimsAreKeys, AcceptedHasJob, JobsOf
  <1>2. ASSUME NEW r \in Handlers, SetAnswered(r) PROVE QueueInv'
    <2> DEFINE d == delivery[r]
    <2>0. d \in Deliveries
      BY <1>0 DEF Types
    <2>1. CASE d \notin keys
      <3>1. /\ claims' = [claims EXCEPT ![d] = @ + 1]
            /\ pc' = [pc EXCEPT ![r] = "enqueue"]
            /\ try' = [try EXCEPT ![r] = 1]
            /\ claim' = [claim EXCEPT ![r] = claims[d] + 1]
            /\ keys' = keys \cup {d}
            /\ UNCHANGED <<delivery, answers, jobs, lateSets, lateJobs, losses, sends>>
        BY <1>2, <2>1 DEF SetAnswered, ExecuteSet
      <3> HIDE DEF d
      <3>2. Types'
        BY <1>0, <2>0, <3>1 DEF Types
      <3>3. ClaimsAreKeys'
        BY <1>0, <2>0, <2>1, <3>1 DEF Types, ClaimsAreKeys
      <3>4. \A e \in Deliveries : claims[e] \in Nat /\ claims'[e] \in Nat /\ claims[e] <= claims'[e]
        BY <1>0, <2>0, <3>1 DEF Types
      <3>5. \A j \in jobs \cup lateJobs : j.d \in Deliveries /\ j.claim \in Nat
        BY <1>0 DEF JobsAreClaimed, IssuedJobs
      <3>6. \A j \in jobs' \cup lateJobs' : j.claim <= claims'[j.d]
        BY <1>0, <3>1, <3>4, <3>5 DEF JobsAreClaimed
      <3>7. \A x \in Handlers : pc'[x] = "enqueue" => claim'[x] # 0
        BY <1>0, <2>0, <3>1 DEF Types, JobsAreClaimed
      <3>8. ASSUME NEW x \in Handlers, claim'[x] # 0
            PROVE  claim'[x] <= claims'[delivery'[x]]
        <4>1. CASE x = r
          BY <1>0, <2>0, <3>1, <4>1 DEF Types, d
        <4>2. CASE x # r
          <5>1. claim'[x] = claim[x] /\ claim[x] <= claims[delivery[x]]
            BY <1>0, <3>1, <3>8, <4>2 DEF Types, JobsAreClaimed
          <5>2. delivery[x] \in Deliveries /\ claim[x] \in Nat /\ delivery'[x] = delivery[x]
            BY <1>0, <3>1 DEF Types
          <5>3. QED
            BY <3>4, <5>1, <5>2
        <4>3. QED
          BY <4>1, <4>2
      <3>9. AcceptedHasJob'
        BY <1>0, <3>1 DEF AcceptedHasJob, JobsOf
      <3>10. QED
        BY <1>0, <3>1, <3>2, <3>3, <3>6, <3>7, <3>8, <3>9 DEF JobsAreClaimed
    <2>2. CASE d \in keys
      <3>1. /\ answers' = [answers EXCEPT ![d] = @ \cup {"duplicate"}]
            /\ pc' = [pc EXCEPT ![r] = "idle"]
            /\ keys' = keys
            /\ UNCHANGED <<delivery, try, claim, claims, jobs, lateSets, lateJobs, losses, sends>>
        BY <1>2, <2>2 DEF SetAnswered, ExecuteSet, Answer
      <3> HIDE DEF d
      <3>2. Types'
        BY <1>0, <2>0, <3>1 DEF Types, Results
      <3>3. JobsAreClaimed'
        BY <1>0, <3>1 DEF Types, JobsAreClaimed
      <3>4. AcceptedHasJob'
        BY <1>0, <2>0, <3>1 DEF Types, AcceptedHasJob, JobsOf
      <3>5. QED
        BY <1>0, <3>1, <3>2, <3>3, <3>4 DEF ClaimsAreKeys
    <2>3. QED
      BY <2>1, <2>2
  <1>3. ASSUME NEW r \in Handlers, JobAnswered(r) PROVE QueueInv'
    <2>1. JobOf(r) \in IssuedJobs /\ JobOf(r).claim <= claims[JobOf(r).d]
      BY <1>0, <1>3, JobIsIssued DEF JobAnswered
    <2>2. delivery[r] \in Deliveries /\ JobOf(r).d = delivery[r]
      BY <1>0 DEF Types, JobOf
    <2>3. Types'
      BY <1>0, <1>3, <2>2 DEF JobAnswered, Answer, Types, Results
    <2>4. JobsAreClaimed'
      BY <1>0, <1>3, <2>1 DEF JobAnswered, Answer, Types, JobsAreClaimed
    <2>5. AcceptedHasJob'
      BY <1>0, <1>3, <2>2 DEF JobAnswered, Answer, Types, AcceptedHasJob, JobsOf
    <2>6. QED
      BY <1>0, <1>3, <2>3, <2>4, <2>5 DEF JobAnswered, Answer, ClaimsAreKeys
  <1>4. ASSUME NEW r \in Handlers,
               ReplyLost(r) \/ TimedOut(r) \/ Refused(r)
        PROVE  QueueInv'
    <2>1. /\ AttemptFailed(r)
          /\ UNCHANGED <<claims, losses, sends>>
      BY <1>4 DEF ReplyLost, TimedOut, Refused
    <2>2. delivery[r] \in Deliveries
      BY <1>0 DEF Types
    <2>3. keys' = keys \/ keys' = keys \cup {delivery[r]}
      BY <1>4 DEF ReplyLost, TimedOut, Refused, ExecuteSet
    <2>4. lateSets' \in [Deliveries -> Nat]
      BY <1>0, <1>4, <2>2 DEF ReplyLost, TimedOut, Refused, Types
    <2>5. \/ jobs' \cup lateJobs' = jobs \cup lateJobs
          \/ pc[r] = "enqueue" /\ jobs' \cup lateJobs' = jobs \cup lateJobs \cup {JobOf(r)}
      BY <1>4 DEF ReplyLost, TimedOut, Refused
    <2>6. jobs \subseteq jobs'
      BY <1>4 DEF ReplyLost, TimedOut, Refused
    <2>7. Types'
      BY <1>0, <2>1, <2>2, <2>3, <2>4, AttemptFailedEffect DEF Types
    <2>8. ClaimsAreKeys'
      BY <1>0, <2>1, <2>2, <2>3 DEF Types, ClaimsAreKeys
    <2>9. pc[r] = "enqueue" => JobOf(r) \in IssuedJobs /\ JobOf(r).claim <= claims[JobOf(r).d]
      BY <1>0, JobIsIssued
    <2>10. JobsAreClaimed'
      BY <1>0, <2>1, <2>5, <2>9, AttemptFailedEffect DEF JobsAreClaimed
    <2>11. AcceptedHasJob'
      BY <1>0, <2>1, <2>6, AttemptFailedEffect DEF AcceptedHasJob, JobsOf
    <2>12. QED
      BY <2>7, <2>8, <2>10, <2>11
  <1>5. ASSUME NEW r \in Handlers, BreakerOpen(r) PROVE QueueInv'
    <2>1. Types'
      BY <1>0, <1>5 DEF BreakerOpen, Answer, Types, Results
    <2>2. JobsAreClaimed'
      BY <1>0, <1>5 DEF BreakerOpen, Answer, Types, JobsAreClaimed
    <2>3. AcceptedHasJob'
      BY <1>0, <1>5 DEF BreakerOpen, Answer, Types, AcceptedHasJob, JobsOf
    <2>4. QED
      BY <1>0, <1>5, <2>1, <2>2, <2>3 DEF BreakerOpen, Answer, ClaimsAreKeys
  <1>6. ASSUME NEW d \in Deliveries, LateSet(d) PROVE QueueInv'
    <2>1. Types'
      BY <1>0, <1>6 DEF LateSet, ExecuteSet, Types
    <2>2. ClaimsAreKeys'
      BY <1>0, <1>6 DEF LateSet, ExecuteSet, Types, ClaimsAreKeys
    <2>3. QED
      BY <1>0, <1>6, <2>1, <2>2 DEF LateSet, JobsAreClaimed, AcceptedHasJob, JobsOf
  <1>7. ASSUME NEW d \in Deliveries, KeyLost(d) PROVE QueueInv'
    <2>1. Types'
      BY <1>0, <1>7 DEF KeyLost, Types
    <2>2. ClaimsAreKeys'
      BY <1>0, <1>7 DEF KeyLost, Types, ClaimsAreKeys
    <2>3. QED
      BY <1>0, <1>7, <2>1, <2>2 DEF KeyLost, JobsAreClaimed, AcceptedHasJob, JobsOf
  <1>8. ASSUME NEW j \in lateJobs, LateJob(j) PROVE QueueInv'
    <2>1. Types'
      BY <1>0, <1>8 DEF LateJob, Types
    <2>2. JobsAreClaimed'
      BY <1>0, <1>8 DEF LateJob, JobsAreClaimed
    <2>3. QED
      BY <1>0, <1>8, <2>1, <2>2 DEF LateJob, ClaimsAreKeys, AcceptedHasJob, JobsOf
  <1>9. CASE Crash
    <2>1. Types'
      BY <1>0, <1>9 DEF Crash, Types
    <2>2. JobsAreClaimed'
      BY <1>0, <1>9 DEF Crash, Types, JobsAreClaimed
    <2>3. QED
      BY <1>0, <1>9, <2>1, <2>2 DEF Crash, ClaimsAreKeys, AcceptedHasJob, JobsOf
  <1>10. CASE UNCHANGED vars
    BY <1>0, <1>10 DEF vars, Types, ClaimsAreKeys, JobsAreClaimed, AcceptedHasJob, JobsOf
  <1>11. QED
    BY <1>1, <1>2, <1>3, <1>4, <1>5, <1>6, <1>7, <1>8, <1>9, <1>10 DEF Next, Handle

-----------------------------------------------------------------------------
LEMMA QueueInvHolds == Spec => []QueueInv
  BY InitQueue, StepQueue, PTL DEF Spec

LEMMA GateFromInv == QueueInv => GateIsExclusive
  BY DEF QueueInv, Types, ClaimsAreKeys, GateIsExclusive

\* The idempotency gate: one claim per lifetime of the key, whatever is
\* retried, late, lost or concurrent.
THEOREM GateAlwaysExclusive == Spec => []GateIsExclusive
  BY QueueInvHolds, GateFromInv, PTL

\* "accepted" is never answered without a job.
THEOREM AcceptedAlwaysHasJob == Spec => []AcceptedHasJob
  <1>1. QueueInv => AcceptedHasJob
    BY DEF QueueInv
  <1>2. QED
    BY QueueInvHolds, <1>1, PTL

LEMMA TypesFromInv == QueueInv => TypeOK
  <1> SUFFICES ASSUME QueueInv PROVE TypeOK
    OBVIOUS
  <1>0. Types /\ JobsAreClaimed /\ GateIsExclusive
    BY GateFromInv DEF QueueInv
  <1>1. \A d \in Deliveries : claims[d] \in 0..(MaxLosses + 1)
    BY <1>0 DEF Types, GateIsExclusive
  <1>2. \A j \in jobs \cup lateJobs : j \in Jobs
    <2> TAKE j \in jobs \cup lateJobs
    <2>1. j \in IssuedJobs /\ j.claim <= claims[j.d]
      BY <1>0 DEF JobsAreClaimed
    <2>2. j.d \in Deliveries /\ j.claim \in Nat \ {0} /\ j.try \in 1..MaxAttempts
      BY <2>1 DEF IssuedJobs
    <2>3. j.claim \in 1..(MaxLosses + 1)
      BY <1>1, <2>1, <2>2
    <2>4. QED
      BY <2>1, <2>2, <2>3 DEF IssuedJobs, Jobs
  <1>3. \A r \in Handlers : claim[r] \in 0..(MaxLosses + 1)
    <2> TAKE r \in Handlers
    <2>1. claim[r] \in Nat /\ delivery[r] \in Deliveries
      BY <1>0 DEF Types
    <2>2. claim[r] # 0 => claim[r] <= claims[delivery[r]]
      BY <1>0 DEF JobsAreClaimed
    <2>3. QED
      BY <1>1, <2>1, <2>2
  <1>4. claims \in [Deliveries -> 0..(MaxLosses + 1)] /\ claim \in [Handlers -> 0..(MaxLosses + 1)]
    BY <1>0, <1>1, <1>3 DEF Types
  <1>5. QED
    BY <1>0, <1>2, <1>4 DEF TypeOK, Types

\* Every variable keeps its type.
THEOREM TypeCorrect == Spec => []TypeOK
  BY QueueInvHolds, TypesFromInv, PTL

\* The jobs of one delivery are told apart by their claim and their attempt.
LEMMA BoundFromInv == QueueInv => JobsBounded
  <1> SUFFICES ASSUME QueueInv, NEW d \in Deliveries
               PROVE  Cardinality(JobsOf(d)) <= MaxAttempts * (losses[d] + 1)
    BY DEF JobsBounded
  <1> DEFINE C == 1..(losses[d] + 1)
             T == 1..MaxAttempts
             f == [j \in JobsOf(d) |-> <<j.claim, j.try>>]
  <1>0. Types /\ JobsAreClaimed /\ GateIsExclusive
    BY GateFromInv DEF QueueInv
  <1>1. losses[d] \in Nat /\ claims[d] \in Nat /\ claims[d] <= losses[d] + 1
    BY <1>0 DEF Types, GateIsExclusive
  <1>2. ASSUME NEW j \in JobsOf(d)
        PROVE  j \in IssuedJobs /\ j.d = d /\ j.claim \in C /\ j.try \in T
    <2>1. j \in IssuedJobs /\ j.d = d /\ j.claim <= claims[d]
      BY <1>0 DEF JobsOf, JobsAreClaimed
    <2>2. j.claim \in Nat \ {0} /\ j.try \in 1..MaxAttempts
      BY <2>1 DEF IssuedJobs
    <2>3. QED
      BY <1>1, <2>1, <2>2
  <1>3. f \in Injection(JobsOf(d), C \X T)
    <2>1. f \in [JobsOf(d) -> C \X T]
      BY <1>2
    <2>2. ASSUME NEW j \in JobsOf(d), NEW k \in JobsOf(d), f[j] = f[k] PROVE j = k
      <3>1. j.d = k.d /\ j.claim = k.claim /\ j.try = k.try
        BY <1>2, <2>2
      <3>2. QED
        BY <1>2, <3>1 DEF IssuedJobs
    <2>3. QED
      BY <2>1, <2>2 DEF Injection, IsInjective
  <1>4. /\ IsFiniteSet(C) /\ Cardinality(C) = losses[d] + 1
        /\ IsFiniteSet(T) /\ Cardinality(T) = MaxAttempts
    <2>1. ASSUME NEW n \in Nat \ {0}
          PROVE  IsFiniteSet(1..n) /\ Cardinality(1..n) = n
      <3>1. n \in Int /\ 1 \in Int /\ ~(1 > n) /\ n - 1 + 1 = n
        OBVIOUS
      <3>2. QED
        BY <3>1, FS_Interval, Zenon
    <2>2. losses[d] + 1 \in Nat \ {0}
      BY <1>1
    <2>3. IsFiniteSet(C) /\ Cardinality(C) = losses[d] + 1
      BY <2>1, <2>2
    <2>4. IsFiniteSet(T) /\ Cardinality(T) = MaxAttempts
      BY <2>1, QueueConfig
    <2>5. QED
      BY <2>3, <2>4
  <1>5. IsFiniteSet(C \X T) /\ Cardinality(C \X T) = (losses[d] + 1) * MaxAttempts
    BY <1>4, FS_Product
  <1>6. Cardinality(JobsOf(d)) <= Cardinality(C \X T)
    BY <1>3, <1>5, FS_Injection
  <1>7. (losses[d] + 1) * MaxAttempts = MaxAttempts * (losses[d] + 1)
    BY <1>1
  <1>8. QED
    BY <1>5, <1>6, <1>7

\* At most MaxAttempts jobs per delivery and lifetime of its key.
THEOREM JobsAlwaysBounded == Spec => []JobsBounded
  BY QueueInvHolds, BoundFromInv, PTL

-----------------------------------------------------------------------------
(***************************************************************************)
(* The queue as an implementation of its contract, when nothing takes      *)
(* effect unseen and no key is lost: then a key in Redis is a claim, and   *)
(* the handler that made the claim is the only one that hands over a job.  *)
(***************************************************************************)
NothingUnseen == Faults \cap {"reply_lost", "late_effect", "key_lost"} = {}

HandoffInv ==
    /\ \A d \in Deliveries : lateSets[d] = 0
    /\ lateJobs = {}
    /\ \A d \in Deliveries : d \in keys <=> claims[d] > 0
    /\ \A r \in Handlers :
          pc[r] = "enqueue" => delivery[r] \in keys /\ JobsOf(delivery[r]) = {}
    /\ \A r, s \in Handlers :
          pc[r] = "enqueue" /\ pc[s] = "enqueue" /\ delivery[r] = delivery[s] => r = s

LEMMA HandoffInit == Init => HandoffInv
  BY DEF Init, HandoffInv

\* A handler that is answered, or goes on to its next attempt, hands over
\* nothing.
LEMMA HandoffElsewhere ==
  ASSUME QueueInv, HandoffInv,
         UNCHANGED <<keys, jobs, claims, delivery>>,
         \A d \in Deliveries : lateSets'[d] = 0, lateJobs' = {},
         \A r \in Handlers : pc'[r] = "enqueue" => pc[r] = "enqueue"
  PROVE  HandoffInv'
  BY DEF HandoffInv, JobsOf

\* A claim can only be made of a delivery that has no job.
LEMMA UnclaimedHasNoJob ==
  ASSUME QueueInv, HandoffInv, NEW d \in Deliveries, d \notin keys
  PROVE  claims[d] = 0 /\ JobsOf(d) = {}
  <1>1. claims[d] = 0
    BY DEF QueueInv, Types, HandoffInv
  <1>2. \A j \in jobs : j.d # d
    BY <1>1 DEF QueueInv, JobsAreClaimed, IssuedJobs
  <1>3. QED
    BY <1>1, <1>2 DEF JobsOf

LEMMA HandoffStep == NothingUnseen /\ QueueInv /\ HandoffInv /\ [Next]_vars => HandoffInv'
  <1> SUFFICES ASSUME NothingUnseen, QueueInv, HandoffInv, [Next]_vars PROVE HandoffInv'
    OBVIOUS
  <1>0. Types
    BY DEF QueueInv
  <1> USE DEF redisVars, lateVars, handlerVars
  <1>1. ASSUME NEW r \in Handlers, NEW d \in Deliveries, Receive(r, d)
        PROVE  HandoffInv'
    <2>1. /\ UNCHANGED <<keys, jobs, lateSets, lateJobs, claims>>
          /\ \A x \in Handlers : pc'[x] = "enqueue" =>
                pc[x] = "enqueue" /\ delivery'[x] = delivery[x]
      BY <1>0, <1>1 DEF Receive, Types
    <2>2. QED
      BY <2>1 DEF HandoffInv, JobsOf
  <1>2. ASSUME NEW r \in Handlers, SetAnswered(r) PROVE HandoffInv'
    <2> DEFINE d == delivery[r]
    <2>0. d \in Deliveries
      BY <1>0 DEF Types
    <2>1. CASE d \notin keys
      <3>1. /\ claims' = [claims EXCEPT ![d] = @ + 1]
            /\ pc' = [pc EXCEPT ![r] = "enqueue"]
            /\ keys' = keys \cup {d}
            /\ UNCHANGED <<delivery, jobs, lateSets, lateJobs>>
        BY <1>2, <2>1 DEF SetAnswered, ExecuteSet
      <3>2. claims[d] = 0 /\ JobsOf(d) = {}
        BY <2>0, <2>1, UnclaimedHasNoJob
      <3> HIDE DEF d
      <3>3. \A e \in Deliveries : e \in keys' <=> claims'[e] > 0
        BY <1>0, <2>0, <3>1, <3>2 DEF HandoffInv, Types
      <3>4. \A x \in Handlers : pc'[x] = "enqueue" => x = r \/ (pc[x] = "enqueue" /\ delivery[x] # d)
        BY <1>0, <2>1, <3>1 DEF HandoffInv, Types
      <3>5. delivery[r] = d
        BY DEF d
      <3>6. \A x \in Handlers : pc'[x] = "enqueue" =>
                delivery'[x] \in keys' /\ {j \in jobs' : j.d = delivery'[x]} = {}
        BY <3>1, <3>2, <3>4, <3>5 DEF HandoffInv, JobsOf
      <3>7. \A x, y \in Handlers :
                pc'[x] = "enqueue" /\ pc'[y] = "enqueue" /\ delivery'[x] = delivery'[y] => x = y
        BY <3>1, <3>4, <3>5 DEF HandoffInv
      <3>8. QED
        BY <3>1, <3>3, <3>6, <3>7 DEF HandoffInv, JobsOf
    <2>2. CASE d \in keys
      <3>1. /\ UNCHANGED <<keys, jobs, claims, delivery, lateSets, lateJobs>>
            /\ \A x \in Handlers : pc'[x] = "enqueue" => pc[x] = "enqueue"
        BY <1>0, <1>2, <2>2 DEF SetAnswered, ExecuteSet, Answer, Types
      <3>2. QED
        BY <3>1, HandoffElsewhere DEF HandoffInv
    <2>3. QED
      BY <2>1, <2>2
  <1>3. ASSUME NEW r \in Handlers, JobAnswered(r) PROVE HandoffInv'
    <2>1. /\ pc[r] = "enqueue" /\ pc' = [pc EXCEPT ![r] = "idle"]
          /\ jobs' = jobs \cup {JobOf(r)} /\ JobOf(r).d = delivery[r]
          /\ UNCHANGED <<keys, claims, delivery, lateSets, lateJobs>>
      BY <1>3 DEF JobAnswered, Answer, JobOf
    <2>2. \A x \in Handlers : pc'[x] = "enqueue" =>
              pc[x] = "enqueue" /\ delivery[x] # delivery[r]
      BY <1>0, <2>1 DEF HandoffInv, Types
    <2>3. QED
      BY <2>1, <2>2 DEF HandoffInv, JobsOf
  <1>4. ASSUME NEW r \in Handlers, ReplyLost(r) \/ TimedOut(r) PROVE HandoffInv'
    BY <1>4 DEF ReplyLost, TimedOut, NothingUnseen
  <1>5. ASSUME NEW r \in Handlers, Refused(r) PROVE HandoffInv'
    <2>1. AttemptFailed(r) /\ UNCHANGED <<keys, jobs, claims, lateSets, lateJobs>>
      BY <1>5 DEF Refused
    <2>2. QED
      BY <1>0, <2>1, AttemptFailedEffect, HandoffElsewhere DEF HandoffInv
  <1>6. ASSUME NEW r \in Handlers, BreakerOpen(r) PROVE HandoffInv'
    <2>1. /\ UNCHANGED <<keys, jobs, claims, delivery, lateSets, lateJobs>>
          /\ \A x \in Handlers : pc'[x] = "enqueue" => pc[x] = "enqueue"
      BY <1>0, <1>6 DEF BreakerOpen, Answer, Types
    <2>2. QED
      BY <2>1, HandoffElsewhere DEF HandoffInv
  <1>7. ASSUME NEW d \in Deliveries, LateSet(d) \/ KeyLost(d) PROVE HandoffInv'
    BY <1>7 DEF LateSet, KeyLost, HandoffInv, NothingUnseen
  <1>8. ASSUME NEW j \in lateJobs, LateJob(j) PROVE HandoffInv'
    BY <1>8 DEF HandoffInv
  <1>9. CASE Crash
    BY <1>9 DEF Crash, HandoffInv, JobsOf
  <1>10. CASE UNCHANGED vars
    BY <1>10 DEF vars, HandoffInv, JobsOf
  <1>11. QED
    BY <1>1, <1>2, <1>3, <1>4, <1>5, <1>6, <1>7, <1>8, <1>9, <1>10 DEF Next, Handle

LEMMA ContractInit == Init => Contract!Init
  <1> SUFFICES ASSUME Init PROVE Contract!Init
    OBVIOUS
  <1>1. \A d \in Deliveries : JobsOf(d) = {} /\ claims[d] = 0
    BY DEF Init, JobsOf
  <1>2. QED
    BY <1>1, FS_EmptySet DEF Init, Contract!Init

\* What the contract sees of a step that claims nothing and hands over nothing.
LEMMA ContractSeesAnswer ==
  ASSUME NEW r \in Handlers, delivery[r] \in Deliveries, UNCHANGED <<jobs, claims>>,
         NEW result \in {"duplicate", "unavailable"}, Answer(r, result),
         result = "duplicate" => claims[delivery[r]] > 0
  PROVE  Contract!Next
  <1> DEFINE d == delivery[r]
  <1>1. /\ {e \in Deliveries : claims'[e] > 0} = {e \in Deliveries : claims[e] > 0}
        /\ [e \in Deliveries |-> Cardinality(JobsOf(e)')] = [e \in Deliveries |-> Cardinality(JobsOf(e))]
        /\ answers' = [answers EXCEPT ![d] = @ \cup {result}]
    BY DEF Answer, JobsOf
  <1>2. CASE result = "duplicate"
    <2>1. Contract!Duplicate(d)
      BY <1>1, <1>2 DEF Contract!Duplicate, Contract!Answer
    <2>2. QED
      BY <2>1 DEF Contract!Next
  <1>3. CASE result = "unavailable"
    <2>1. Contract!Unavailable(d)
      BY <1>1, <1>3 DEF Contract!Unavailable, Contract!Answer
    <2>2. QED
      BY <2>1 DEF Contract!Next
  <1>4. QED
    BY <1>2, <1>3

LEMMA ContractStutters ==
  ASSUME UNCHANGED <<jobs, claims, answers>>
  PROVE  UNCHANGED Contract!vars
  <1>1. /\ {e \in Deliveries : claims'[e] > 0} = {e \in Deliveries : claims[e] > 0}
        /\ [e \in Deliveries |-> Cardinality(JobsOf(e)')] = [e \in Deliveries |-> Cardinality(JobsOf(e))]
    BY DEF JobsOf
  <1>2. QED
    BY <1>1 DEF Contract!vars

LEMMA ContractStep ==
  NothingUnseen /\ QueueInv /\ HandoffInv /\ [Next]_vars => [Contract!Next]_(Contract!vars)
  <1> SUFFICES ASSUME NothingUnseen, QueueInv, HandoffInv, [Next]_vars
               PROVE  Contract!Next \/ UNCHANGED Contract!vars
    OBVIOUS
  <1>0. Types
    BY DEF QueueInv
  <1>a. \A r \in Handlers : delivery[r] \in Deliveries
    BY <1>0 DEF Types
  <1> USE DEF redisVars, lateVars, handlerVars
  <1>1. CASE \/ \E r \in Handlers, d \in Deliveries : Receive(r, d)
             \/ Crash
             \/ UNCHANGED vars
    <2>1. UNCHANGED <<jobs, claims, answers>>
      BY <1>1 DEF Receive, Crash, vars
    <2>2. QED
      BY <2>1, ContractStutters
  <1>2. ASSUME NEW r \in Handlers, SetAnswered(r)
        PROVE  Contract!Next \/ UNCHANGED Contract!vars
    <2>0. PICK d \in Deliveries : d = delivery[r]
      BY <1>a
    <2>1. CASE d \notin keys
      <3>1. claims' = [claims EXCEPT ![d] = @ + 1] /\ UNCHANGED <<jobs, answers>>
        BY <1>2, <2>0, <2>1 DEF SetAnswered
      <3>2. claims[d] = 0
        BY <2>1, UnclaimedHasNoJob
      <3>3. /\ {e \in Deliveries : claims'[e] > 0} = {e \in Deliveries : claims[e] > 0} \cup {d}
            /\ d \notin {e \in Deliveries : claims[e] > 0}
        BY <1>0, <3>1, <3>2 DEF Types
      <3>4. [e \in Deliveries |-> Cardinality(JobsOf(e)')]
              = [e \in Deliveries |-> Cardinality(JobsOf(e))]
        BY <3>1 DEF JobsOf
      <3>5. Contract!Claim(d)
        BY <3>1, <3>3, <3>4 DEF Contract!Claim
      <3>6. QED
        BY <3>5 DEF Contract!Next
    <2>2. CASE d \in keys
      <3>1. Answer(r, "duplicate") /\ UNCHANGED <<jobs, claims>> /\ claims[d] > 0
        BY <1>2, <2>0, <2>2 DEF SetAnswered, HandoffInv
      <3>2. QED
        BY <2>0, <3>1, ContractSeesAnswer
    <2>3. QED
      BY <2>1, <2>2
  <1>3. ASSUME NEW r \in Handlers, JobAnswered(r)
        PROVE  Contract!Next \/ UNCHANGED Contract!vars
    <2>0. PICK d \in Deliveries : d = delivery[r]
      BY <1>a
    <2>1. /\ pc[r] = "enqueue" /\ jobs' = jobs \cup {JobOf(r)} /\ JobOf(r).d = d
          /\ claims' = claims /\ answers' = [answers EXCEPT ![d] = @ \cup {"accepted"}]
      BY <1>3, <2>0 DEF JobAnswered, Answer, JobOf
    <2>2. claims[d] > 0 /\ JobsOf(d) = {}
      BY <2>0, <2>1 DEF HandoffInv
    <2>3. JobsOf(d)' = {JobOf(r)}
      BY <2>1, <2>2 DEF JobsOf
    <2>4. \A e \in Deliveries \ {d} : JobsOf(e)' = JobsOf(e)
      BY <2>1 DEF JobsOf
    <2>5. Cardinality(JobsOf(d)) = 0 /\ Cardinality(JobsOf(d)') = 1
      BY <2>2, <2>3, FS_EmptySet, FS_Singleton
    <2>6. [e \in Deliveries |-> Cardinality(JobsOf(e)')]
            = [[e \in Deliveries |-> Cardinality(JobsOf(e))] EXCEPT ![d] = 1]
      BY <2>2, <2>4, <2>5
    <2>7. Contract!Accept(d)
      BY <2>1, <2>2, <2>5, <2>6 DEF Contract!Accept, Contract!Answer
    <2>8. QED
      BY <2>7 DEF Contract!Next
  <1>4. ASSUME NEW r \in Handlers, ReplyLost(r) \/ TimedOut(r)
        PROVE  Contract!Next \/ UNCHANGED Contract!vars
    BY <1>4 DEF ReplyLost, TimedOut, NothingUnseen
  <1>5. ASSUME NEW r \in Handlers, Refused(r) \/ BreakerOpen(r)
        PROVE  Contract!Next \/ UNCHANGED Contract!vars
    <2>1. /\ UNCHANGED <<jobs, claims>>
          /\ answers' = answers \/ Answer(r, "unavailable")
      BY <1>5 DEF Refused, BreakerOpen, AttemptFailed
    <2>2. QED
      BY <1>a, <2>1, ContractStutters, ContractSeesAnswer
  <1>6. ASSUME NEW d \in Deliveries, LateSet(d) \/ KeyLost(d)
        PROVE  Contract!Next \/ UNCHANGED Contract!vars
    BY <1>6 DEF LateSet, KeyLost, HandoffInv, NothingUnseen
  <1>7. ASSUME NEW j \in lateJobs, LateJob(j)
        PROVE  Contract!Next \/ UNCHANGED Contract!vars
    BY <1>7 DEF HandoffInv
  <1>8. QED
    BY <1>1, <1>2, <1>3, <1>4, <1>5, <1>6, <1>7 DEF Next, Handle

\* interface.py's "exactly one job": with no effect unseen and no key lost,
\* every step of the Redis queue is a step of the contract or none at all,
\* whatever is refused, crashes, or is turned away by the breaker.
THEOREM QueueImplementsContract ==
  ASSUME NothingUnseen
  PROVE  Spec => ImplementsContract
  BY ContractInit, ContractStep, HandoffInit, HandoffStep, QueueInvHolds, NothingUnseen, PTL
     DEF Spec, ImplementsContract, Contract!Spec
=============================================================================
