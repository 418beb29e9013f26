------------------------ MODULE WebhookIngressProofs ------------------------
(***************************************************************************)
(* For any requests, deliveries and size of the pool: nothing unverified   *)
(* goes past the signature check, the answers and the events agree with    *)
(* the queue, and a delivery has at most as many jobs as the pool has      *)
(* threads.                                                                *)
(*                                                                         *)
(* The last needs to know what the seen set is good for: as long as a      *)
(* delivery is not in it, whoever is about to add it is on a thread of the *)
(* pool; from then on nobody else passes the check.                        *)
(***************************************************************************)
EXTENDS WebhookIngress, FiniteSetTheorems, TLAPS

USE IngressConfig DEF IngressConfig

\* The requests that wait for a thread wait once, and for a thread.
PoolInv ==
    /\ IsFiniteSet(running)
    /\ \A i \in 1..Len(waiting) : pc[waiting[i]] \in {"enqueue", "emit"}
    /\ \A i, j \in 1..Len(waiting) : waiting[i] = waiting[j] => i = j

Queued == {"enqueue", "look", "add", "append"}
Decided == {"enqueued", "emit", "write", "emitted"}

\* How far a request has come, by its outcome, its event and its answer.
StoryInv ==
    \A r \in Requests :
        /\ pc[r] \in Queued => Judgement(content[r]) = "enqueue"
        /\ pc[r] \in Queued \cup {"unsent"} => outcome[r] = "none"
        /\ pc[r] \in Decided => outcome[r] # "none"
        /\ outcome[r] # "none" => Judgement(content[r]) \in {"enqueue", "ignored"}
        /\ r \in jobs <=> outcome[r] = "accepted"
        /\ outcome[r] = "accepted" => Judgement(content[r]) = "enqueue"
        /\ r \in events => outcome[r] # "none"
        /\ answer[r] # "none" => pc[r] = "done"
        /\ answer[r] \in {"accepted", "duplicate"} => outcome[r] = answer[r]
        /\ answer[r] = "ignored" => outcome[r] = "rejected"
        /\ answer[r] \in {"400", "401", "500"} => outcome[r] = "none"

\* A delivery is in the seen set before it has a job, and from then on there
\* is always somebody who has added the job, or is about to.
SeenInv ==
    /\ \A r \in Requests : pc[r] = "append" \/ r \in jobs => Delivery(r) \in seen
    /\ \A d \in seen : \E r \in Requests :
          Delivery(r) = d /\ (r \in jobs \/ pc[r] = "append")
    /\ \A r \in Requests : outcome[r] = "duplicate" => Delivery(r) \in seen

Inv == TypeOK /\ PoolInv /\ StoryInv

-----------------------------------------------------------------------------
\* What receive_webhook answers at once are errors.
LEMMA Verdicts ==
  ASSUME NEW q \in Inputs
  PROVE  Judgement(q) \in {"enqueue", "ignored", "400", "401", "500"}
  BY DEF Judgement, SignatureRefusal, ParseRefusal, Contents

\* The event and the payload are looked at in verified requests only, and only
\* complete requests of the right kind are queued.
LEMMA Verified ==
  ASSUME NEW q \in Inputs, Judgement(q) \in {"enqueue", "ignored"}
  PROVE  /\ q.signature = "right"
         /\ Judgement(q) = "enqueue" => /\ q.kind = "pull_request"
                                        /\ q.action \in SupportedActions
                                        /\ q.delivery \in Deliveries
                                        /\ q.payload = "complete"
  BY DEF Judgement, SignatureRefusal, ParseRefusal, Contents, SupportedActions

LEMMA InvInit == Init => Inv
  <1> SUFFICES ASSUME Init PROVE Inv
    OBVIOUS
  <1>1. running = {} /\ IsFiniteSet(running) /\ Cardinality(running) = 0
    BY FS_EmptySet DEF Init
  <1>2. TypeOK
    BY <1>1 DEF Init, TypeOK, OnThread, Answers
  <1>3. PoolInv
    BY <1>1 DEF Init, PoolInv
  <1>4. StoryInv
    BY DEF Init, StoryInv, Queued, Decided
  <1>5. QED
    BY <1>2, <1>3, <1>4 DEF Inv

\* A request that joins the queue of the pool waits there once.
LEMMA Joins ==
  ASSUME Inv, NEW r \in Requests, pc[r] \notin {"enqueue", "emit"},
         NEW p \in {"enqueue", "emit"}, pc' = [pc EXCEPT ![r] = p],
         waiting' = Append(waiting, r), running' = running
  PROVE  PoolInv' /\ waiting' \in Seq(Requests)
  <1> USE DEF Inv, TypeOK, PoolInv
  <1>1. waiting' \in Seq(Requests) /\ Len(waiting') = Len(waiting) + 1
    OBVIOUS
  <1>2. \A i \in 1..Len(waiting') :
            waiting'[i] = IF i <= Len(waiting) THEN waiting[i] ELSE r
    OBVIOUS
  <1>3. \A i \in 1..Len(waiting) : waiting[i] \in Requests /\ waiting[i] # r
    OBVIOUS
  <1>4. \A i \in 1..Len(waiting') : pc'[waiting'[i]] \in {"enqueue", "emit"}
    BY <1>1, <1>2, <1>3
  <1>5. \A i, j \in 1..Len(waiting') : waiting'[i] = waiting'[j] => i = j
    BY <1>1, <1>2, <1>3
  <1>6. QED
    BY <1>1, <1>4, <1>5

\* A request that is not waiting changes its place without a trace in the queue.
LEMMA Stays ==
  ASSUME Inv, NEW r \in Requests, pc[r] \notin {"enqueue", "emit"}, NEW p,
         pc' = [pc EXCEPT ![r] = p], waiting' = waiting,
         running' \in {running, running \ {r}}
  PROVE  PoolInv' /\ Cardinality(running') <= PoolSize
  <1> USE DEF Inv, TypeOK, PoolInv
  <1>1. \A i \in 1..Len(waiting) : waiting[i] \in Requests /\ waiting[i] # r
    OBVIOUS
  <1>2. \A i \in 1..Len(waiting') : pc'[waiting'[i]] \in {"enqueue", "emit"}
    BY <1>1
  <1>3. IsFiniteSet(running') /\ Cardinality(running') <= Cardinality(running)
    BY FS_Subset
  <1>4. Cardinality(running) \in Nat /\ Cardinality(running') \in Nat
    BY <1>3, FS_CardinalityType
  <1>5. QED
    BY <1>2, <1>3, <1>4

-----------------------------------------------------------------------------
LEMMA ReceiveStep ==
  ASSUME Inv, NEW r \in Requests, Receive(r)
  PROVE  Inv'
  <1> USE DEF Inv
  <1>1. Judgement(content[r]) \in {"enqueue", "ignored", "400", "401", "500"}
    BY Verdicts DEF TypeOK
  <1>2. /\ pc[r] = "unsent" /\ r \notin running /\ content' = content
        /\ running' = running /\ seen' = seen /\ jobs' = jobs /\ events' = events
    BY DEF Receive, TypeOK, OnThread
  <1>3. CASE Judgement(content[r]) = "enqueue"
    <2>1. /\ pc' = [pc EXCEPT ![r] = "enqueue"] /\ waiting' = Append(waiting, r)
          /\ outcome' = outcome /\ answer' = answer
      BY <1>3 DEF Receive
    <2>2. PoolInv' /\ waiting' \in Seq(Requests)
      BY <1>2, <2>1, Joins
    <2>3. TypeOK'
      BY <1>2, <2>1, <2>2 DEF TypeOK, OnThread
    <2>4. StoryInv'
      BY <1>2, <1>3, <2>1 DEF StoryInv, TypeOK, Queued, Decided
    <2>5. QED
      BY <2>2, <2>3, <2>4
  <1>4. CASE Judgement(content[r]) = "ignored"
    <2>1. /\ pc' = [pc EXCEPT ![r] = "emit"] /\ waiting' = Append(waiting, r)
          /\ outcome' = [outcome EXCEPT ![r] = "rejected"] /\ answer' = answer
      BY <1>4 DEF Receive
    <2>2. PoolInv' /\ waiting' \in Seq(Requests)
      BY <1>2, <2>1, Joins
    <2>3. TypeOK'
      BY <1>2, <2>1, <2>2 DEF TypeOK, OnThread
    <2>4. StoryInv'
      BY <1>2, <1>4, <2>1 DEF StoryInv, TypeOK, Queued, Decided
    <2>5. QED
      BY <2>2, <2>3, <2>4
  <1>5. CASE Judgement(content[r]) \in {"400", "401", "500"}
    <2>1. /\ pc' = [pc EXCEPT ![r] = "done"] /\ waiting' = waiting /\ outcome' = outcome
          /\ answer' = [answer EXCEPT ![r] = Judgement(content[r])]
      BY <1>5 DEF Receive
    <2>2. PoolInv' /\ Cardinality(running') <= PoolSize
      BY <1>2, <2>1, Stays
    <2>3. TypeOK'
      BY <1>2, <1>5, <2>1, <2>2 DEF TypeOK, OnThread, Answers
    <2>4. StoryInv'
      BY <1>2, <1>5, <2>1 DEF StoryInv, TypeOK, Queued, Decided
    <2>5. QED
      BY <2>2, <2>3, <2>4
  <1>6. QED
    BY <1>1, <1>3, <1>4, <1>5

LEMMA StartThreadStep ==
  ASSUME Inv, StartThread
  PROVE  Inv'
  <1> DEFINE r == Head(waiting)
  <1> USE DEF Inv
  <1>1. /\ waiting # <<>> /\ r \in Requests /\ pc[r] \in {"enqueue", "emit"}
        /\ waiting[1] = r /\ 1 \in 1..Len(waiting)
    BY DEF StartThread, TypeOK, PoolInv
  <1>2. /\ running' = running \cup {r} /\ Cardinality(running) < PoolSize
        /\ pc' = [pc EXCEPT ![r] = IF @ = "enqueue" THEN "look" ELSE "write"]
        /\ waiting' = Tail(waiting)
        /\ UNCHANGED <<content, outcome, seen, jobs, events, answer>>
    BY DEF StartThread
  <1>3. r \notin running
    BY <1>1 DEF TypeOK, OnThread
  <1>4. IsFiniteSet(running') /\ Cardinality(running') = Cardinality(running) + 1
    BY <1>2, <1>3, FS_AddElement DEF PoolInv
  <1>5. Cardinality(running') <= PoolSize
    BY <1>2, <1>4, FS_CardinalityType DEF PoolInv
  <1>6. /\ waiting' \in Seq(Requests) /\ Len(waiting') = Len(waiting) - 1
        /\ \A i \in 1..Len(waiting') : waiting'[i] = waiting[i + 1]
    BY <1>1, <1>2 DEF TypeOK
  <1>7. \A i \in 1..Len(waiting') : i + 1 \in 1..Len(waiting) /\ waiting[i + 1] # r
    BY <1>1, <1>6 DEF PoolInv, TypeOK
  <1>8. PoolInv'
    <2>1. \A i \in 1..Len(waiting') : pc'[waiting'[i]] \in {"enqueue", "emit"}
      BY <1>2, <1>6, <1>7 DEF PoolInv, TypeOK
    <2>2. \A i, j \in 1..Len(waiting') : waiting'[i] = waiting'[j] => i = j
      BY <1>6, <1>7 DEF PoolInv, TypeOK
    <2>3. QED
      BY <1>4, <2>1, <2>2 DEF PoolInv
  <1>9. TypeOK'
    <2>1. running' = {s \in Requests : pc'[s] \in OnThread}
      BY <1>1, <1>2 DEF TypeOK, OnThread
    <2>2. QED
      BY <1>1, <1>2, <1>5, <1>6, <2>1 DEF TypeOK, OnThread
  <1>10. StoryInv'
    BY <1>1, <1>2 DEF StoryInv, TypeOK, Queued, Decided
  <1>11. QED
    BY <1>8, <1>9, <1>10

LEMMA ThreadSteps ==
  ASSUME Inv, NEW r \in Requests, ThreadStep(r)
  PROVE  Inv'
  <1> USE DEF Inv
  <1>1. /\ pc[r] \in OnThread /\ waiting' = waiting /\ content' = content /\ answer' = answer
        /\ running' \in {running, running \ {r}}
        /\ \E p \in {"add", "append", "enqueued", "emitted"} : pc' = [pc EXCEPT ![r] = p]
    BY DEF ThreadStep, Look, Add, AppendJob, WriteEvent, ThreadDone, OnThread, poolVars, TypeOK
  <1>2. PoolInv' /\ Cardinality(running') <= PoolSize
    BY <1>1, Stays DEF OnThread
  <1>3. CASE Look(r)
    BY <1>2, <1>3 DEF Look, ThreadDone, TypeOK, StoryInv, OnThread, Queued, Decided
  <1>4. CASE Add(r)
    <2>1. content[r].delivery \in Deliveries
      BY <1>4, Verified DEF Add, StoryInv, TypeOK, Queued
    <2>2. TypeOK'
      BY <1>2, <1>4, <2>1 DEF Add, poolVars, TypeOK, OnThread
    <2>3. StoryInv'
      BY <1>4 DEF Add, poolVars, TypeOK, StoryInv, Queued, Decided
    <2>4. QED
      BY <1>2, <2>2, <2>3
  <1>5. CASE AppendJob(r)
    BY <1>2, <1>5 DEF AppendJob, ThreadDone, TypeOK, StoryInv, OnThread, Queued, Decided
  <1>6. CASE WriteEvent(r)
    BY <1>2, <1>6 DEF WriteEvent, ThreadDone, TypeOK, StoryInv, OnThread, Queued, Decided
  <1>7. QED
    BY <1>3, <1>4, <1>5, <1>6 DEF ThreadStep

LEMMA LoopSteps ==
  ASSUME Inv, NEW r \in Requests, LoopStep(r)
  PROVE  Inv'
  <1> USE DEF Inv
  <1>1. CASE EmitDecision(r)
    <2>1. PoolInv' /\ waiting' \in Seq(Requests)
      BY <1>1, Joins DEF EmitDecision
    <2>2. TypeOK'
      BY <1>1, <2>1 DEF EmitDecision, TypeOK, OnThread
    <2>3. StoryInv'
      BY <1>1 DEF EmitDecision, TypeOK, StoryInv, Queued, Decided
    <2>4. QED
      BY <2>1, <2>2, <2>3
  <1>2. CASE Respond(r)
    <2>1. PoolInv' /\ Cardinality(running') <= PoolSize
      BY <1>2, Stays DEF Respond, poolVars
    <2>2. TypeOK'
      BY <1>2, <2>1 DEF Respond, poolVars, TypeOK, OnThread, Answers
    <2>3. StoryInv'
      BY <1>2 DEF Respond, poolVars, TypeOK, StoryInv, Queued, Decided
    <2>4. QED
      BY <2>1, <2>2, <2>3
  <1>3. QED
    BY <1>1, <1>2 DEF LoopStep

LEMMA InvStep == Inv /\ [Next]_vars => Inv'
  <1> SUFFICES ASSUME Inv, [Next]_vars PROVE Inv'
    OBVIOUS
  <1>1. CASE UNCHANGED vars
    BY <1>1 DEF vars, poolVars, Inv, TypeOK, PoolInv, StoryInv
  <1>2. QED
    BY <1>1, ReceiveStep, StartThreadStep, ThreadSteps, LoopSteps DEF Next

LEMMA InvAlways == Spec => []Inv
  BY InvInit, InvStep, PTL DEF Spec

\* Every variable keeps its type, and the pool its size.
THEOREM TypeCorrect == Spec => []TypeOK
  <1>1. Inv => TypeOK
    BY DEF Inv
  <1>2. QED
    BY <1>1, InvAlways, PTL

\* receive_webhook: what is queued, recorded or put on a thread was verified.
THEOREM NothingGoesUnverified == Spec => []NothingUnverified
  <1>1. Inv => NothingUnverified
    <2> SUFFICES ASSUME Inv PROVE NothingUnverified
      OBVIOUS
    <2> USE DEF Inv, TypeOK, StoryInv
    <2>1. ASSUME NEW r \in Requests, r \in events \cup running \/ outcome[r] # "none"
          PROVE  content[r].signature = "right"
      <3>1. Judgement(content[r]) \in {"enqueue", "ignored"}
        BY <2>1 DEF OnThread, Queued, Decided
      <3>2. QED
        BY <3>1, Verified
    <2>2. ASSUME NEW r \in jobs \cup UNION {AddersOf(d) : d \in seen}
          PROVE  /\ content[r].signature = "right"
                 /\ content[r].kind = "pull_request"
                 /\ content[r].action \in SupportedActions
                 /\ content[r].payload = "complete"
      <3>1. r \in Requests /\ Judgement(content[r]) = "enqueue"
        BY <2>2 DEF AddersOf, Queued
      <3>2. QED
        BY <3>1, Verified
    <2>3. QED
      BY <2>1, <2>2 DEF NothingUnverified
  <1>2. QED
    BY <1>1, InvAlways, PTL

\* emit_decision: the decision on record is the one that was answered.
THEOREM EventsAlwaysMatch == Spec => []EventsMatchAnswers
  <1>1. Inv => EventsMatchAnswers
    BY DEF Inv, StoryInv, EventsMatchAnswers
  <1>2. QED
    BY <1>1, InvAlways, PTL

-----------------------------------------------------------------------------
LEMMA SeenInit == Init => SeenInv
  BY DEF Init, SeenInv

LEMMA SeenStep == Inv /\ SeenInv /\ [Next]_vars => SeenInv'
  <1> SUFFICES ASSUME Inv, SeenInv, [Next]_vars PROVE SeenInv'
    OBVIOUS
  <1> USE DEF Inv, TypeOK, StoryInv, SeenInv, Delivery
  <1>1. ASSUME NEW r \in Requests, Receive(r) PROVE SeenInv'
    BY <1>1 DEF Receive
  <1>2. CASE StartThread
    <2>1. Head(waiting) \in Requests /\ pc[Head(waiting)] \in {"enqueue", "emit"}
      BY <1>2 DEF StartThread, PoolInv
    <2>2. QED
      BY <1>2, <2>1 DEF StartThread
  <1>3. ASSUME NEW r \in Requests, Look(r) \/ WriteEvent(r) \/ LoopStep(r) PROVE SeenInv'
    BY <1>3 DEF Look, WriteEvent, LoopStep, EmitDecision, Respond, poolVars
  <1>4. ASSUME NEW r \in Requests, Add(r) PROVE SeenInv'
    BY <1>4 DEF Add, Queued
  <1>5. ASSUME NEW r \in Requests, AppendJob(r) PROVE SeenInv'
    BY <1>5 DEF AppendJob
  <1>6. CASE UNCHANGED vars
    BY <1>6 DEF vars
  <1>7. QED
    BY <1>1, <1>2, <1>3, <1>4, <1>5, <1>6 DEF Next, ThreadStep

LEMMA SeenAlways == Spec => []SeenInv
  BY SeenInit, SeenStep, InvAlways, PTL DEF Spec

\* receive_webhook, InMemoryJobQueue.enqueue: an answer tells the truth about
\* the job.
THEOREM AnswersAlwaysMatch == Spec => []AnswersMatchJobs
  <1>1. Inv /\ SeenInv => AnswersMatchJobs
    BY DEF Inv, TypeOK, StoryInv, SeenInv, AnswersMatchJobs, JobsOf, AddersOf, Delivery
  <1>2. QED
    BY <1>1, InvAlways, SeenAlways, PTL

\* receive_webhook: the queue, the decision on record and the answer agree.
THEOREM AnswersAlwaysAgree == Spec => []AnswersAgree
  BY AnswersAlwaysMatch, EventsAlwaysMatch, PTL DEF AnswersAgree

-----------------------------------------------------------------------------
\* Once a delivery is in the seen set, nobody else comes to add a job for it.
LEMMA AddersDwindle ==
  ASSUME Inv, SeenInv, [Next]_vars, NEW d \in seen
  PROVE  JobsOf(d)' \cup AddersOf(d)' \subseteq JobsOf(d) \cup AddersOf(d)
  <1> USE DEF Inv, TypeOK, JobsOf, AddersOf, Delivery
  <1>1. ASSUME NEW r \in Requests, Receive(r)
        PROVE  JobsOf(d)' \cup AddersOf(d)' \subseteq JobsOf(d) \cup AddersOf(d)
    BY <1>1 DEF Receive
  <1>2. CASE StartThread
    <2>1. Head(waiting) \in Requests
      BY <1>2 DEF StartThread
    <2>2. QED
      BY <1>2, <2>1 DEF StartThread
  <1>3. ASSUME NEW r \in Requests, ThreadStep(r)
        PROVE  JobsOf(d)' \cup AddersOf(d)' \subseteq JobsOf(d) \cup AddersOf(d)
    BY <1>3 DEF ThreadStep, Look, Add, AppendJob, WriteEvent, poolVars
  <1>4. ASSUME NEW r \in Requests, LoopStep(r)
        PROVE  JobsOf(d)' \cup AddersOf(d)' \subseteq JobsOf(d) \cup AddersOf(d)
    BY <1>4 DEF LoopStep, EmitDecision, Respond, poolVars
  <1>5. CASE UNCHANGED vars
    BY <1>5 DEF vars
  <1>6. QED
    BY <1>1, <1>2, <1>3, <1>4, <1>5 DEF Next

\* As long as it is not, whoever is about to add it is on a thread.
LEMMA AddersOnThreads ==
  ASSUME Inv, SeenInv, NEW d, d \notin seen
  PROVE  JobsOf(d) \cup AddersOf(d) \subseteq running
  BY DEF Inv, TypeOK, SeenInv, JobsOf, AddersOf, Delivery, OnThread

\* The count, with what TLC need not say: that it is one.
JobsInv ==
    \A d \in Deliveries : /\ IsFiniteSet(JobsOf(d) \cup AddersOf(d))
                          /\ Cardinality(JobsOf(d) \cup AddersOf(d)) <= PoolSize

LEMMA FewerAreBounded ==
  ASSUME NEW S, NEW T, T \subseteq S, IsFiniteSet(S), Cardinality(S) <= PoolSize
  PROVE  IsFiniteSet(T) /\ Cardinality(T) <= PoolSize
  <1>1. IsFiniteSet(T) /\ Cardinality(T) <= Cardinality(S)
    BY FS_Subset
  <1>2. QED
    BY <1>1, FS_CardinalityType

LEMMA JobsInit == Init => JobsInv
  <1> SUFFICES ASSUME Init, NEW d \in Deliveries
      PROVE  /\ IsFiniteSet(JobsOf(d) \cup AddersOf(d))
             /\ Cardinality(JobsOf(d) \cup AddersOf(d)) <= PoolSize
    BY DEF JobsInv
  <1>1. JobsOf(d) \cup AddersOf(d) = {}
    BY DEF Init, JobsOf, AddersOf
  <1>2. QED
    BY <1>1, FS_EmptySet

LEMMA JobsStep == Inv /\ Inv' /\ SeenInv /\ SeenInv' /\ JobsInv /\ [Next]_vars => JobsInv'
  <1> SUFFICES ASSUME Inv, Inv', SeenInv, SeenInv', JobsInv, [Next]_vars,
                      NEW d \in Deliveries
      PROVE  /\ IsFiniteSet(JobsOf(d)' \cup AddersOf(d)')
             /\ Cardinality(JobsOf(d)' \cup AddersOf(d)') <= PoolSize
    BY DEF JobsInv
  <1>1. CASE d \in seen
    BY <1>1, AddersDwindle, FewerAreBounded DEF JobsInv
  <1>2. CASE d \notin seen'
    <2>1. JobsOf(d)' \cup AddersOf(d)' \subseteq running'
      BY <1>2 DEF Inv, TypeOK, SeenInv, JobsOf, AddersOf, Delivery, OnThread
    <2>2. QED
      BY <2>1, FewerAreBounded DEF Inv, TypeOK, PoolInv
  <1>3. CASE d \in seen' /\ d \notin seen
    <2>1. PICK r \in Requests : Add(r)
      BY <1>3 DEF Next, Receive, StartThread, ThreadStep, Look, AppendJob, WriteEvent,
                  LoopStep, EmitDecision, Respond, vars
    <2>2. JobsOf(d)' \cup AddersOf(d)' \subseteq JobsOf(d) \cup AddersOf(d)
      BY <2>1 DEF Add, JobsOf, AddersOf, Delivery, Inv, TypeOK
    <2>3. QED
      BY <2>2, FewerAreBounded DEF JobsInv
  <1>4. QED
    BY <1>1, <1>2, <1>3

\* InMemoryJobQueue.enqueue: its check and its add are separate steps, and yet
\* a delivery has at most as many jobs as there are threads.
THEOREM JobsBoundedByPool == Spec => []JobsPerDelivery
  <1>1. JobsInv => JobsPerDelivery
    BY DEF JobsInv, JobsPerDelivery
  <1>2. QED
    BY <1>1, JobsInit, JobsStep, InvAlways, SeenAlways, PTL DEF Spec
=============================================================================
