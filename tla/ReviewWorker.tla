---------------------------- MODULE ReviewWorker ----------------------------
(***************************************************************************)
(* backend/job_queue/arq_worker.py: process_webhook_event, run by ARQ at   *)
(* least once for each job, from dequeuing to the review on the pull       *)
(* request (RealGitHubClient in backend/integrations/github_client.py).    *)
(*                                                                         *)
(* Only the orchestrator run is offloaded to a thread; fetch_diff and      *)
(* post_or_queue are called on the worker process's event loop and hold it *)
(* until they return.  So jobs of one worker overlap only while they are   *)
(* in the orchestrator; jobs of different workers overlap anywhere.        *)
(*                                                                         *)
(* ARQ is modelled by what this code relies on: a job whose process dies   *)
(* is run again from the top, up to MaxTries times; a job that raises or   *)
(* exceeds job_timeout is finished and not run again, and in the second    *)
(* case the orchestrator's thread goes on without it.  The orchestrator is *)
(* reduced to its verdict and to the row aggregate_node writes.            *)
(***************************************************************************)
EXTENDS Integers, FiniteSets

CONSTANTS Workers,      \* worker processes
          Jobs,         \* jobs handed to ARQ
          Deliveries,   \* webhook deliveries
          DeliveryOf,   \* the delivery each job is for; it names the review
          MaxTries,     \* ARQ's max_tries
          MaxAttempts,  \* github_retry_max_attempts
          Faults        \* the faults that may happen

\* "crash": a worker process dies.  "raises": a step of process_webhook_event
\* raises, or GitHub rejects the review.  "timeout":
\* ARQ's job_timeout passes.  "refused": an attempt to post has no effect.
\* "reply_lost": an attempt to post has its effect and its answer is lost.
\* "unstored": the row is not written.  "page_full": the pull request already
\* has a full page of reviews, so a later one is on a page nobody reads.
FaultKinds == {"crash", "raises", "timeout", "refused", "reply_lost", "unstored", "page_full"}

ASSUME WorkerConfig ==
    /\ DeliveryOf \in [Jobs -> Deliveries]
    /\ MaxTries \in Nat \ {0}
    /\ MaxAttempts \in Nat \ {0}
    /\ Faults \subseteq FaultKinds

VARIABLES
    phase,     \* per job: how far process_webhook_event has come
    host,      \* per job: the worker it runs on, or last ran on
    tries,     \* per job: ARQ's job_try
    attempt,   \* per job: the attempt of call_with_retry at the POST
    verdict,   \* per job: the status route_review chose in this run
    stored,    \* per delivery: status in the reviews table
    posts,     \* per delivery: reviews on the pull request with its marker
    blind      \* per delivery: attempts made after one that had its effect

jobVars == <<phase, host, tries, attempt, verdict>>
vars == <<jobVars, stored, posts, blind>>

Statuses == {"POSTED", "QUEUED_FOR_HITL"}
Unstored == "unstored"
Finished == {"done", "failed"}

\* Phases in which the job holds its worker's event loop.
OnLoop == {"fetching", "checking", "posting", "posted"}

\* Phases in which its orchestrator thread runs, or waits for the loop.
InThread == {"reviewing", "orphaned", "reviewed"}

Phases == {"queued"} \cup OnLoop \cup InThread \cup Finished

LoopFree(w) == \A j \in Jobs : host[j] = w => phase[j] \notin OnLoop

GoTo(j, p) == phase' = [phase EXCEPT ![j] = p]

-----------------------------------------------------------------------------
Init ==
    /\ phase = [j \in Jobs |-> "queued"]
    /\ host \in [Jobs -> Workers]
    /\ tries = [j \in Jobs |-> 0]
    /\ attempt = [j \in Jobs |-> 1]
    /\ verdict = [j \in Jobs |-> Unstored]
    /\ stored = [d \in Deliveries |-> Unstored]
    /\ posts = [d \in Deliveries |-> 0]
    /\ blind = [d \in Deliveries |-> 0]

\* Mutation of Start: the tries are not counted.
StartUncounted(j, w) ==
    /\ phase[j] = "queued"
    /\ LoopFree(w)
    /\ GoTo(j, "fetching")
    /\ host' = [host EXCEPT ![j] = w]
    /\ verdict' = [verdict EXCEPT ![j] = Unstored]
    /\ UNCHANGED <<tries, attempt, stored, posts, blind>>

\* A worker takes the job, writes the processed marker (which nothing reads)
\* and starts to fetch the diff.
Start(j, w) ==
    /\ phase[j] = "queued"
    /\ tries[j] < MaxTries
    /\ LoopFree(w)
    /\ GoTo(j, "fetching")
    /\ host' = [host EXCEPT ![j] = w]
    /\ tries' = [tries EXCEPT ![j] = @ + 1]
    /\ verdict' = [verdict EXCEPT ![j] = Unstored]
    /\ UNCHANGED <<attempt, stored, posts, blind>>

\* ARQ gives up a job that was interrupted too often.
Abandon(j) ==
    /\ phase[j] = "queued"
    /\ tries[j] = MaxTries
    /\ GoTo(j, "failed")
    /\ UNCHANGED <<host, tries, attempt, verdict, stored, posts, blind>>

\* fetch_diff returns; engine.run goes to a thread and the loop is free.
Fetched(j) ==
    /\ phase[j] = "fetching"
    /\ GoTo(j, "reviewing")
    /\ UNCHANGED <<host, tries, attempt, verdict, stored, posts, blind>>

\* An exception leaves process_webhook_event, before anything is posted or over
\* the answer to the POST, which does not validate: ARQ counts the job as
\* finished.
Raises(j) ==
    /\ "raises" \in Faults
    /\ phase[j] \in {"fetching", "reviewing", "checking", "posted"}
    /\ GoTo(j, "failed")
    /\ UNCHANGED <<host, tries, attempt, verdict, stored, posts, blind>>

\* aggregate_node routes the review and upserts its row; persist_review
\* swallows the database's errors.
Persist(j, status) ==
    \/ stored' = [stored EXCEPT ![DeliveryOf[j]] = status]
    \/ "unstored" \in Faults /\ UNCHANGED stored

Aggregate(j, status) ==
    /\ phase[j] = "reviewing"
    /\ GoTo(j, "reviewed")
    /\ verdict' = [verdict EXCEPT ![j] = status]
    /\ Persist(j, status)
    /\ UNCHANGED <<host, tries, attempt, posts, blind>>

\* job_timeout: the coroutine is cancelled, the thread is not.
TimeOut(j) ==
    /\ "timeout" \in Faults
    /\ phase[j] = "reviewing"
    /\ GoTo(j, "orphaned")
    /\ UNCHANGED <<host, tries, attempt, verdict, stored, posts, blind>>

\* The orphaned thread still writes its row, and nobody posts its review.
OrphanAggregate(j, status) ==
    /\ phase[j] = "orphaned"
    /\ GoTo(j, "failed")
    /\ Persist(j, status)
    /\ UNCHANGED <<host, tries, attempt, verdict, posts, blind>>

\* The coroutine resumes on the loop, and post_or_queue goes by the status:
\* queue_for_hitl only logs, post_review_comment looks for the marker first.
Dispatch(j) ==
    /\ phase[j] = "reviewed"
    /\ LoopFree(host[j])
    /\ GoTo(j, IF verdict[j] = "POSTED" THEN "checking" ELSE "done")
    /\ UNCHANGED <<host, tries, attempt, verdict, stored, posts, blind>>

\* _find_existing_review_id_marker finds this review on the pull request: the
\* post is skipped.
MarkerFound(j) ==
    /\ phase[j] = "checking"
    /\ posts[DeliveryOf[j]] > 0
    /\ GoTo(j, "posted")
    /\ UNCHANGED <<host, tries, attempt, verdict, stored, posts, blind>>

\* Mutation of MarkerMissing: the search for the marker is skipped.
MarkerIgnored(j) ==
    /\ phase[j] = "checking"
    /\ GoTo(j, "posting")
    /\ attempt' = [attempt EXCEPT ![j] = 1]
    /\ UNCHANGED <<host, tries, verdict, stored, posts, blind>>

\* It is not there, or not on the first page, which is the only one read.
MarkerMissing(j) ==
    /\ phase[j] = "checking"
    /\ posts[DeliveryOf[j]] = 0 \/ "page_full" \in Faults
    /\ GoTo(j, "posting")
    /\ attempt' = [attempt EXCEPT ![j] = 1]
    /\ UNCHANGED <<host, tries, verdict, stored, posts, blind>>

Appear(j) == posts' = [posts EXCEPT ![DeliveryOf[j]] = @ + 1]

\* The POST is answered.
PostAnswered(j) ==
    /\ phase[j] = "posting"
    /\ Appear(j)
    /\ GoTo(j, "posted")
    /\ UNCHANGED <<host, tries, attempt, verdict, stored, blind>>

\* Mutation of PostFails: the last failure is swallowed.
PostFailsSwallowed(j) ==
    /\ phase[j] = "posting"
    /\ "refused" \in Faults
    /\ IF attempt[j] < MaxAttempts
       THEN attempt' = [attempt EXCEPT ![j] = @ + 1] /\ UNCHANGED phase
       ELSE GoTo(j, "posted") /\ UNCHANGED attempt
    /\ UNCHANGED <<host, tries, verdict, stored, posts, blind>>

\* The POST fails with something call_with_retry retries (a rate limit, a 5xx,
\* a dropped connection, httpx's timeout), with or without effect.  The next
\* attempt sends it again without another look for the marker.
PostFails(j) ==
    /\ phase[j] = "posting"
    /\ \/ "refused" \in Faults /\ UNCHANGED <<posts, blind>>
       \/ /\ "reply_lost" \in Faults
          /\ Appear(j)
          /\ blind' = IF attempt[j] < MaxAttempts
                      THEN [blind EXCEPT ![DeliveryOf[j]] = @ + 1]
                      ELSE blind
    /\ IF attempt[j] < MaxAttempts
       THEN attempt' = [attempt EXCEPT ![j] = @ + 1] /\ UNCHANGED phase
       ELSE GoTo(j, "failed") /\ UNCHANGED attempt
    /\ UNCHANGED <<host, tries, verdict, stored>>

\* 401, 403, 422 or CircuitOpenError: not retried, and not caught.
PostRejected(j) ==
    /\ "raises" \in Faults
    /\ phase[j] = "posting"
    /\ GoTo(j, "failed")
    /\ UNCHANGED <<host, tries, attempt, verdict, stored, posts, blind>>

\* process_webhook_event returns and ARQ writes down that the job is done.
Finish(j) ==
    /\ phase[j] = "posted"
    /\ GoTo(j, "done")
    /\ UNCHANGED <<host, tries, attempt, verdict, stored, posts, blind>>

\* The process dies with all that runs in it.  ARQ will run its jobs again,
\* but for those it has already finished.  A POST on its way may arrive.
Crash(w) ==
    LET hit == {j \in Jobs : host[j] = w /\ phase[j] \notin Finished \cup {"queued"}}
        sent == {j \in hit : phase[j] = "posting"}
    IN  /\ "crash" \in Faults
        /\ hit # {}
        /\ phase' = [j \in Jobs |-> IF j \notin hit THEN phase[j]
                                    ELSE IF phase[j] = "orphaned" THEN "failed"
                                    ELSE "queued"]
        /\ \/ UNCHANGED posts
           \/ \E j \in sent : Appear(j)
        /\ UNCHANGED <<host, tries, attempt, verdict, stored, blind>>

Run(j) ==
    \/ Abandon(j)
    \/ \E w \in Workers : Start(j, w)
    \/ Fetched(j) \/ Dispatch(j)
    \/ \E status \in Statuses : Aggregate(j, status) \/ OrphanAggregate(j, status)
    \/ MarkerFound(j) \/ MarkerMissing(j)
    \/ PostAnswered(j) \/ PostFails(j) \/ PostRejected(j) \/ Finish(j)

Next ==
    \/ \E j \in Jobs : Run(j) \/ Raises(j) \/ TimeOut(j)
    \/ \E w \in Workers : Crash(w)

Spec == Init /\ [][Next]_vars

\* Workers run and every call they make is bounded; the faults need not happen.
FairSpec == Spec /\ \A j \in Jobs : WF_vars(Run(j))

-----------------------------------------------------------------------------
TypeOK ==
    /\ phase \in [Jobs -> Phases]
    /\ host \in [Jobs -> Workers]
    /\ tries \in [Jobs -> 0..MaxTries]
    /\ attempt \in [Jobs -> 1..MaxAttempts]
    /\ verdict \in [Jobs -> Statuses \cup {Unstored}]
    /\ stored \in [Deliveries -> Statuses \cup {Unstored}]
    /\ posts \in [Deliveries -> Nat]
    /\ blind \in [Deliveries -> Nat]

\* One job per delivery, and the marker can be seen.
Recognisable ==
    /\ \A j, k \in Jobs : DeliveryOf[j] = DeliveryOf[k] => j = k
    /\ "page_full" \notin Faults

\* Running the whole job again never posts the review again: a second review
\* appears only through call_with_retry repeating a POST that had its effect
\* (github_client.py:68-78, post_review_comment).
OnlyBlindRetriesRepeat ==
    \A d \in Deliveries : posts[d] <= 1 + blind[d]

\* A job ARQ counts as done has had its effect: its review is on the pull
\* request, or a human is to look at it (post_or_queue, process_webhook_event).
DoneIsHandled ==
    \A j \in Jobs : phase[j] = "done" =>
        posts[DeliveryOf[j]] > 0 \/ verdict[j] = "QUEUED_FOR_HITL"

\* Every job ends, whatever crashes.
EveryJobEnds == \A j \in Jobs : <>(phase[j] \in Finished)
=============================================================================
