--------------------------- MODULE WebhookIngress ---------------------------
(***************************************************************************)
(* The whole webhook route, webhook_receiver/router.py: receive_webhook,   *)
(* over the in-memory queue of the default configuration                   *)
(* (job_queue/in_memory.py).                                               *)
(*                                                                         *)
(* receive_webhook is a coroutine: it runs without interruption up to its  *)
(* first await.  Both of its awaits, enqueue_async and                     *)
(* emit_decision_async, are asyncio.to_thread calls, which share the event *)
(* loop's bounded thread pool.  On a thread, InMemoryJobQueue.enqueue is   *)
(* three separate steps (look in the seen set, add to it, append the job)  *)
(* and other threads may run between them.                                 *)
(*                                                                         *)
(* The queue that can be unavailable (503) is the subject of RedisJobQueue.*)
(***************************************************************************)
EXTENDS Integers, FiniteSets, Sequences

CONSTANTS Requests,     \* the HTTP requests that may arrive
          Deliveries,   \* X-GitHub-Delivery identifiers
          NoDelivery,   \* the header is absent or empty
          PoolSize,     \* threads of the event loop's default executor
          Inputs        \* the request contents considered

\* What the route distinguishes in a request.
Contents ==
    [signature : {"missing", "malformed", "wrong", "right"},
     body      : {"not_json", "not_object", "object"},
     kind      : {"pull_request", "other"},
     action    : {"opened", "synchronize", "reopened", "closed"},
     delivery  : Deliveries \cup {NoDelivery},
     payload   : {"complete", "field_missing", "field_rejected", "not_nested"}]

ASSUME IngressConfig ==
    /\ PoolSize \in Nat \ {0}
    /\ NoDelivery \notin Deliveries
    /\ Inputs \subseteq Contents

VARIABLES
    pc,        \* per request: where its coroutine or its thread is
    content,   \* per request: what GitHub sent
    outcome,   \* per request: the outcome of its decision event
    waiting,   \* the pool's queue of submitted calls, by request
    running,   \* requests whose call is on a thread of the pool
    seen,      \* InMemoryJobQueue._seen_delivery_ids
    jobs,      \* InMemoryJobQueue._jobs, each job named by its request
    events,    \* requests whose decision event is in agent_events
    answer     \* per request: the HTTP answer

poolVars == <<waiting, running>>
vars == <<pc, content, outcome, poolVars, seen, jobs, events, answer>>

Answers == {"none", "accepted", "duplicate", "ignored", "400", "401", "500"}
OnThread == {"look", "add", "append", "write"}

-----------------------------------------------------------------------------
\* parser.py: the actions that trigger a review.
SupportedActions == {"opened", "synchronize", "reopened"}

\* validator.py: verify_signature over the raw body.
SignatureRefusal(q) ==
    CASE q.signature = "missing"   -> "401"
      [] q.signature = "malformed" -> "400"
      [] q.signature = "wrong"     -> "401"
      [] q.signature = "right"     -> "none"

\* parse_pull_request_payload and WebhookEvent: a missing key and a value the
\* model rejects are caught; indexing something that is no object raises
\* TypeError, which the route does not catch.
ParseRefusal(q) ==
    CASE q.payload = "complete"   -> "none"
      [] q.payload = "not_nested" -> "500"
      [] q.payload \in {"field_missing", "field_rejected"} -> "400"

\* Mutation of Judgement: the event is looked at before the signature.
JudgementBeforeSignature(q) ==
    IF q.body = "object" /\ (q.kind # "pull_request" \/ q.action \notin SupportedActions)
    THEN "ignored"
    ELSE IF SignatureRefusal(q) # "none" THEN SignatureRefusal(q)
    ELSE IF q.body # "object" \/ q.delivery = NoDelivery THEN "400"
    ELSE IF ParseRefusal(q) # "none" THEN ParseRefusal(q)
    ELSE "enqueue"

\* Everything receive_webhook decides before its first await, in its order.
Judgement(q) ==
    IF SignatureRefusal(q) # "none" THEN SignatureRefusal(q)
    ELSE IF q.body # "object" THEN "400"
    ELSE IF q.kind # "pull_request" \/ q.action \notin SupportedActions THEN "ignored"
    ELSE IF q.delivery = NoDelivery THEN "400"
    ELSE IF ParseRefusal(q) # "none" THEN ParseRefusal(q)
    ELSE "enqueue"

Init ==
    /\ pc = [r \in Requests |-> "unsent"]
    /\ content \in [Requests -> Inputs]
    /\ outcome = [r \in Requests |-> "none"]
    /\ waiting = <<>>
    /\ running = {}
    /\ seen = {}
    /\ jobs = {}
    /\ events = {}
    /\ answer = [r \in Requests |-> "none"]

\* The request arrives and its coroutine runs to its first await, or answers.
Receive(r) ==
    LET verdict == Judgement(content[r])
    IN  /\ pc[r] = "unsent"
        /\ \/ /\ verdict = "enqueue"
              /\ pc' = [pc EXCEPT ![r] = "enqueue"]
              /\ waiting' = Append(waiting, r)
              /\ UNCHANGED <<outcome, answer>>
           \/ /\ verdict = "ignored"
              /\ pc' = [pc EXCEPT ![r] = "emit"]
              /\ waiting' = Append(waiting, r)
              /\ outcome' = [outcome EXCEPT ![r] = "rejected"]
              /\ UNCHANGED answer
           \/ /\ verdict \notin {"enqueue", "ignored"}
              /\ pc' = [pc EXCEPT ![r] = "done"]
              /\ answer' = [answer EXCEPT ![r] = verdict]
              /\ UNCHANGED <<outcome, waiting>>
        /\ UNCHANGED <<content, running, seen, jobs, events>>

\* A free thread takes the call that has waited longest.
StartThread ==
    /\ waiting # <<>>
    /\ Cardinality(running) < PoolSize
    /\ LET r == Head(waiting)
       IN  /\ running' = running \cup {r}
           /\ pc' = [pc EXCEPT ![r] = IF @ = "enqueue" THEN "look" ELSE "write"]
    /\ waiting' = Tail(waiting)
    /\ UNCHANGED <<content, outcome, seen, jobs, events, answer>>

\* The thread returns to the pool; the coroutine will be resumed.
ThreadDone(r) == running' = running \ {r}

\* Mutation of Look: the seen set is not consulted.
LookAway(r) ==
    /\ pc[r] = "look"
    /\ pc' = [pc EXCEPT ![r] = "add"]
    /\ UNCHANGED <<content, outcome, poolVars, seen, jobs, events, answer>>

\* InMemoryJobQueue.enqueue: is the delivery in the seen set?
Look(r) ==
    /\ pc[r] = "look"
    /\ IF content[r].delivery \in seen
       THEN /\ pc' = [pc EXCEPT ![r] = "enqueued"]
            /\ outcome' = [outcome EXCEPT ![r] = "duplicate"]
            /\ ThreadDone(r)
       ELSE /\ pc' = [pc EXCEPT ![r] = "add"]
            /\ UNCHANGED <<outcome, running>>
    /\ UNCHANGED <<content, waiting, seen, jobs, events, answer>>

Add(r) ==
    /\ pc[r] = "add"
    /\ seen' = seen \cup {content[r].delivery}
    /\ pc' = [pc EXCEPT ![r] = "append"]
    /\ UNCHANGED <<content, outcome, poolVars, jobs, events, answer>>

\* Mutation of AppendJob: a delivery that already has a job gets no second
\* one, and the call still reports enqueued.
AppendJobOnce(r) ==
    /\ pc[r] = "append"
    /\ jobs' = IF \E o \in jobs : content[o].delivery = content[r].delivery
               THEN jobs ELSE jobs \cup {r}
    /\ pc' = [pc EXCEPT ![r] = "enqueued"]
    /\ outcome' = [outcome EXCEPT ![r] = "accepted"]
    /\ ThreadDone(r)
    /\ UNCHANGED <<content, waiting, seen, events, answer>>

AppendJob(r) ==
    /\ pc[r] = "append"
    /\ jobs' = jobs \cup {r}
    /\ pc' = [pc EXCEPT ![r] = "enqueued"]
    /\ outcome' = [outcome EXCEPT ![r] = "accepted"]
    /\ ThreadDone(r)
    /\ UNCHANGED <<content, waiting, seen, events, answer>>

\* The coroutine resumes after enqueue_async and submits emit_decision.
EmitDecision(r) ==
    /\ pc[r] = "enqueued"
    /\ pc' = [pc EXCEPT ![r] = "emit"]
    /\ waiting' = Append(waiting, r)
    /\ UNCHANGED <<content, outcome, running, seen, jobs, events, answer>>

\* Mutation of WriteEvent: a failed write keeps its thread.
WriteEventLeaky(r) ==
    /\ pc[r] = "write"
    /\ \/ events' = events \cup {r} /\ ThreadDone(r)
       \/ UNCHANGED <<events, running>>
    /\ pc' = [pc EXCEPT ![r] = "emitted"]
    /\ UNCHANGED <<content, outcome, waiting, seen, jobs, answer>>

\* emit_decision on its thread: the row is written, or the failure is logged
\* and swallowed.
WriteEvent(r) ==
    /\ pc[r] = "write"
    /\ events' \in {events, events \cup {r}}
    /\ pc' = [pc EXCEPT ![r] = "emitted"]
    /\ ThreadDone(r)
    /\ UNCHANGED <<content, outcome, waiting, seen, jobs, answer>>

\* Mutation of Respond: every queued request is answered "accepted".
RespondAccepted(r) ==
    /\ pc[r] = "emitted"
    /\ pc' = [pc EXCEPT ![r] = "done"]
    /\ answer' = [answer EXCEPT ![r] =
                    IF outcome[r] = "rejected" THEN "ignored" ELSE "accepted"]
    /\ UNCHANGED <<content, outcome, poolVars, seen, jobs, events>>

\* The coroutine resumes after emit_decision_async and answers 200.
Respond(r) ==
    /\ pc[r] = "emitted"
    /\ pc' = [pc EXCEPT ![r] = "done"]
    /\ answer' = [answer EXCEPT ![r] =
                    IF outcome[r] = "rejected" THEN "ignored" ELSE outcome[r]]
    /\ UNCHANGED <<content, outcome, poolVars, seen, jobs, events>>

ThreadStep(r) == Look(r) \/ Add(r) \/ AppendJob(r) \/ WriteEvent(r)
LoopStep(r) == EmitDecision(r) \/ Respond(r)

Next ==
    \/ StartThread
    \/ \E r \in Requests : Receive(r) \/ ThreadStep(r) \/ LoopStep(r)

Spec == Init /\ [][Next]_vars

\* Threads and the event loop go on; the statement timeout bounds a write.
FairSpec ==
    /\ Spec
    /\ WF_vars(StartThread)
    /\ \A r \in Requests : WF_vars(ThreadStep(r)) /\ WF_vars(LoopStep(r))

-----------------------------------------------------------------------------
Delivery(r) == content[r].delivery
JobsOf(d) == {r \in jobs : Delivery(r) = d}
AddersOf(d) == {r \in Requests : pc[r] \in {"add", "append"} /\ Delivery(r) = d}

TypeOK ==
    /\ pc \in [Requests -> {"unsent", "enqueue", "enqueued", "emit", "emitted", "done"}
                           \cup OnThread]
    /\ content \in [Requests -> Inputs]
    /\ outcome \in [Requests -> {"none", "accepted", "duplicate", "rejected"}]
    /\ waiting \in Seq(Requests)
    /\ running \subseteq Requests
    /\ running = {r \in Requests : pc[r] \in OnThread}
    /\ Cardinality(running) <= PoolSize
    /\ seen \subseteq Deliveries
    /\ jobs \subseteq Requests
    /\ events \subseteq Requests
    /\ answer \in [Requests -> Answers]

\* router.py:3-5 and 42-45: no job, no seen delivery, no event and no thread
\* for a request whose signature was not verified; and nothing is queued but a
\* complete pull_request event of a supported action.
NothingUnverified ==
    /\ \A r \in Requests :
          (r \in events \cup running \/ outcome[r] # "none")
              => content[r].signature = "right"
    /\ \A r \in jobs \cup UNION {AddersOf(d) : d \in seen} :
          /\ content[r].signature = "right"
          /\ content[r].kind = "pull_request"
          /\ content[r].action \in SupportedActions
          /\ content[r].payload = "complete"

\* How far the in-memory queue can miss "exactly one job": the check and the
\* add are separate steps, so as many requests for one delivery pass the check
\* as there are threads, and not one more, however many requests arrive.
JobsPerDelivery ==
    \A d \in Deliveries : Cardinality(JobsOf(d) \cup AddersOf(d)) <= PoolSize

\* What GitHub is told agrees with the queue: "accepted" for a request whose
\* own job is there, "duplicate" for one that added nothing while a job for
\* the delivery is there or being appended, anything else for none.
AnswersMatchJobs ==
    \A r \in Requests :
        /\ answer[r] = "accepted" => r \in jobs
        /\ answer[r] = "duplicate" =>
              /\ r \notin jobs
              /\ JobsOf(Delivery(r)) \cup AddersOf(Delivery(r)) # {}
        /\ answer[r] \in {"ignored", "400", "401", "500"} => r \notin jobs

\* events.py: the decision on record is the one that was answered, and it is
\* written before the answer; a refused request leaves none.
EventsMatchAnswers ==
    \A r \in Requests :
        /\ answer[r] \in {"accepted", "duplicate"} => outcome[r] = answer[r]
        /\ answer[r] = "ignored" => outcome[r] = "rejected"
        /\ answer[r] \in {"400", "401", "500"} => r \notin events

\* The queue, the record and the answer tell one story of every request: both
\* of the above.
AnswersAgree == AnswersMatchJobs /\ EventsMatchAnswers

\* Every request is answered although all of them share one bounded pool and
\* any write of an event may fail.
Answered == \A r \in Requests : pc[r] # "unsent" ~> answer[r] # "none"
=============================================================================
