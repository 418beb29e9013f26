-------------------------- MODULE ReviewWorkerProofs -------------------------
(***************************************************************************)
(* For any workers, jobs and deliveries: a job that is done has been       *)
(* handled, and, when a delivery has one job and its marker can be found,  *)
(* only call_with_retry can post a review twice.                           *)
(*                                                                         *)
(* The second needs to know more than the number of posts: a job that is   *)
(* about to send the POST has seen no marker, so every review that has     *)
(* appeared since is one of its own attempts and was counted as blind.     *)
(***************************************************************************)
EXTENDS ReviewWorker, TLAPS

USE WorkerConfig DEF WorkerConfig

LEMMA TypeInit == Init => TypeOK
  BY DEF Init, TypeOK, Phases, Statuses

LEMMA TypeStep == TypeOK /\ [Next]_vars => TypeOK'
  <1> SUFFICES ASSUME TypeOK, [Next]_vars PROVE TypeOK'
    OBVIOUS
  <1> USE DEF TypeOK, Phases, OnLoop, InThread, Finished, GoTo
  <1>1. ASSUME NEW j \in Jobs, NEW w \in Workers, Start(j, w) PROVE TypeOK'
    BY <1>1 DEF Start
  <1>2. ASSUME NEW j \in Jobs, NEW status \in Statuses, Aggregate(j, status) PROVE TypeOK'
    BY <1>2 DEF Aggregate, Persist
  <1>3. ASSUME NEW j \in Jobs, NEW status \in Statuses, OrphanAggregate(j, status) PROVE TypeOK'
    BY <1>3 DEF OrphanAggregate, Persist
  <1>4. ASSUME NEW j \in Jobs,
               Abandon(j) \/ Fetched(j) \/ Raises(j) \/ TimeOut(j) \/ Dispatch(j)
        PROVE  TypeOK'
    BY <1>4 DEF Abandon, Fetched, Raises, TimeOut, Dispatch
  <1>5. ASSUME NEW j \in Jobs,
               MarkerFound(j) \/ MarkerMissing(j) \/ PostRejected(j) \/ Finish(j)
        PROVE  TypeOK'
    BY <1>5 DEF MarkerFound, MarkerMissing, PostRejected, Finish
  <1>6. ASSUME NEW j \in Jobs, PostAnswered(j) PROVE TypeOK'
    BY <1>6 DEF PostAnswered, Appear
  <1>7. ASSUME NEW j \in Jobs, PostFails(j) PROVE TypeOK'
    <2>1. posts' \in [Deliveries -> Nat] /\ blind' \in [Deliveries -> Nat]
      BY <1>7 DEF PostFails, Appear
    <2>2. attempt' \in [Jobs -> 1..MaxAttempts] /\ phase' \in [Jobs -> Phases]
      BY <1>7 DEF PostFails
    <2>3. QED
      BY <1>7, <2>1, <2>2 DEF PostFails
  <1>8. ASSUME NEW w \in Workers, Crash(w) PROVE TypeOK'
    <2>1. posts' \in [Deliveries -> Nat]
      BY <1>8 DEF Crash, Appear
    <2>2. phase' \in [Jobs -> Phases]
      BY <1>8 DEF Crash
    <2>3. QED
      BY <1>8, <2>1, <2>2 DEF Crash
  <1>9. CASE UNCHANGED vars
    BY <1>9 DEF vars, jobVars
  <1>10. QED
    BY <1>1, <1>2, <1>3, <1>4, <1>5, <1>6, <1>7, <1>8, <1>9 DEF Next, Run

\* Every variable keeps its type.
THEOREM TypeCorrect == Spec => []TypeOK
  BY TypeInit, TypeStep, PTL DEF Spec

-----------------------------------------------------------------------------
\* Reviews are never taken off the pull request.
LEMMA PostsGrow ==
  ASSUME TypeOK, [Next]_vars
  PROVE  \A d \in Deliveries : posts[d] <= posts'[d]
  <1> USE DEF TypeOK
  <1>1. ASSUME NEW j \in Jobs, Appear(j) PROVE \A d \in Deliveries : posts[d] <= posts'[d]
    BY <1>1 DEF Appear
  <1>2. ASSUME UNCHANGED posts PROVE \A d \in Deliveries : posts[d] <= posts'[d]
    BY <1>2
  <1>3. UNCHANGED posts \/ \E j \in Jobs : Appear(j)
    <2>1. ASSUME NEW j \in Jobs, Run(j) \/ Raises(j) \/ TimeOut(j)
          PROVE  UNCHANGED posts \/ Appear(j)
      BY <2>1, Zenon DEF Run, Raises, TimeOut, Abandon, Start, Fetched, Dispatch, Aggregate,
                  OrphanAggregate, MarkerFound, MarkerMissing, PostAnswered, PostFails,
                  PostRejected, Finish
    <2>2. ASSUME NEW w \in Workers, Crash(w)
          PROVE  UNCHANGED posts \/ \E j \in Jobs : Appear(j)
      BY <2>2, Zenon DEF Crash
    <2>3. QED
      BY <2>1, <2>2, Zenon DEF Next, vars
  <1>4. QED
    BY <1>1, <1>2, <1>3

\* What holds of a job in each phase it reaches on the way to done.
Handled(j) ==
    /\ phase[j] = "reviewed" => verdict[j] \in Statuses
    /\ phase[j] = "posted" => posts[DeliveryOf[j]] > 0
    /\ phase[j] = "done" => posts[DeliveryOf[j]] > 0 \/ verdict[j] = "QUEUED_FOR_HITL"

HandledInv == TypeOK /\ \A j \in Jobs : Handled(j)

LEMMA HandledStep == HandledInv /\ [Next]_vars => HandledInv'
  <1> SUFFICES ASSUME HandledInv, [Next]_vars, NEW j \in Jobs PROVE Handled(j)'
    BY TypeStep DEF HandledInv
  <1>0. TypeOK /\ TypeOK' /\ Handled(j) /\ posts[DeliveryOf[j]] <= posts'[DeliveryOf[j]]
    BY TypeStep, PostsGrow DEF HandledInv
  <1>a. posts[DeliveryOf[j]] \in Nat /\ posts'[DeliveryOf[j]] \in Nat
    BY <1>0 DEF TypeOK
  \* A step that leaves the job's phase and verdict alone cannot disturb it,
  \* and neither can one that takes it to another phase.
  <1>same. ASSUME phase'[j] = phase[j], verdict'[j] = verdict[j] PROVE Handled(j)'
    BY <1>same, <1>0, <1>a DEF Handled
  <1>away. ASSUME phase'[j] \notin {"reviewed", "posted", "done"} PROVE Handled(j)'
    BY <1>away DEF Handled
  <1>1. ASSUME NEW k \in Jobs, Run(k) \/ Raises(k) \/ TimeOut(k), k # j PROVE Handled(j)'
    <2>1. phase'[j] = phase[j] /\ verdict'[j] = verdict[j]
      BY <1>0, <1>1 DEF TypeOK, GoTo, Run, Raises, TimeOut, Abandon, Start, Fetched, Dispatch,
             Aggregate, OrphanAggregate, MarkerFound, MarkerMissing, PostAnswered, PostFails,
             PostRejected, Finish
    <2>2. QED
      BY <2>1, <1>same
  <1>2. ASSUME Raises(j) \/ TimeOut(j) \/ Abandon(j) \/ Fetched(j) \/ MarkerMissing(j)
               \/ PostRejected(j)
        PROVE  Handled(j)'
    <2>1. phase'[j] \notin {"reviewed", "posted", "done"}
      BY <1>0, <1>2 DEF TypeOK, GoTo, Raises, TimeOut, Abandon, Fetched, MarkerMissing, PostRejected
    <2>2. QED
      BY <2>1, <1>away
  <1>3. ASSUME NEW w \in Workers, Start(j, w) PROVE Handled(j)'
    BY <1>0, <1>3 DEF TypeOK, GoTo, Start, Handled
  <1>4. ASSUME NEW status \in Statuses, Aggregate(j, status) PROVE Handled(j)'
    BY <1>0, <1>4 DEF TypeOK, GoTo, Aggregate, Handled
  <1>5. ASSUME NEW status \in Statuses, OrphanAggregate(j, status) PROVE Handled(j)'
    BY <1>0, <1>5 DEF TypeOK, GoTo, OrphanAggregate, Handled
  <1>6. CASE Dispatch(j)
    BY <1>0, <1>6 DEF TypeOK, GoTo, Dispatch, Handled, Statuses
  <1>7. CASE MarkerFound(j)
    BY <1>0, <1>7 DEF TypeOK, GoTo, MarkerFound, Handled
  <1>8. CASE PostAnswered(j)
    <2>1. posts'[DeliveryOf[j]] > 0 /\ phase'[j] = "posted"
      BY <1>0, <1>8 DEF TypeOK, GoTo, PostAnswered, Appear
    <2>2. QED
      BY <2>1 DEF Handled
  <1>9. CASE PostFails(j)
    <2>1. phase'[j] \in {"posting", "failed"}
      BY <1>0, <1>9 DEF TypeOK, GoTo, PostFails
    <2>2. QED
      BY <2>1, <1>away
  <1>10. CASE Finish(j)
    BY <1>0, <1>a, <1>10 DEF TypeOK, GoTo, Finish, Handled
  <1>11. ASSUME NEW w \in Workers, Crash(w) PROVE Handled(j)'
    <2>1. verdict'[j] = verdict[j]
          /\ (phase'[j] = phase[j] \/ phase'[j] \in {"queued", "failed"})
      BY <1>0, <1>11 DEF TypeOK, Crash
    <2>2. QED
      BY <2>1, <1>same, <1>away
  <1>12. CASE UNCHANGED vars
    BY <1>12, <1>same DEF vars, jobVars
  <1>13. ASSUME Run(j) PROVE Handled(j)'
    BY <1>2, <1>3, <1>4, <1>5, <1>6, <1>7, <1>8, <1>9, <1>10, <1>13 DEF Run
  <1>14. ASSUME NEW k \in Jobs, Run(k) \/ Raises(k) \/ TimeOut(k) PROVE Handled(j)'
    BY <1>1, <1>2, <1>13, <1>14
  <1>15. QED
    BY <1>11, <1>12, <1>14 DEF Next

\* A job ARQ counts as done had its review posted or kept for a human
\* (process_webhook_event, post_or_queue), with any faults.
THEOREM DoneIsAlwaysHandled == Spec => []DoneIsHandled
  <1>1. Init => HandledInv
    BY TypeInit DEF Init, HandledInv, Handled
  <1>2. HandledInv => DoneIsHandled
    BY DEF HandledInv, Handled, DoneIsHandled
  <1>3. QED
    BY <1>1, <1>2, HandledStep, PTL DEF Spec

-----------------------------------------------------------------------------
\* A job about to send the POST: all that appeared so far, appeared blindly.
PostingIsFresh ==
    \A j \in Jobs : phase[j] = "posting" => posts[DeliveryOf[j]] <= blind[DeliveryOf[j]]

RepeatInv == TypeOK /\ PostingIsFresh /\ OnlyBlindRetriesRepeat

LEMMA RepeatStep ==
  ASSUME Recognisable
  PROVE  RepeatInv /\ [Next]_vars => RepeatInv'
  <1> SUFFICES ASSUME RepeatInv, [Next]_vars
               PROVE  PostingIsFresh' /\ OnlyBlindRetriesRepeat'
    BY TypeStep DEF RepeatInv
  <1>0. TypeOK /\ TypeOK' /\ PostingIsFresh /\ OnlyBlindRetriesRepeat
    BY TypeStep DEF RepeatInv
  <1> USE DEF TypeOK
  \* Steps that post nothing and take no job to posting.
  <1>quiet. ASSUME UNCHANGED <<posts, blind>>,
                   \A k \in Jobs : phase'[k] = "posting" => phase[k] = "posting"
            PROVE  PostingIsFresh' /\ OnlyBlindRetriesRepeat'
    BY <1>0, <1>quiet DEF PostingIsFresh, OnlyBlindRetriesRepeat
  \* Steps in which the review of a posting job appears: other posting jobs
  \* are for other deliveries.
  <1>appear. ASSUME NEW j \in Jobs, phase[j] = "posting", Appear(j),
                    \A k \in Jobs : phase'[k] = "posting" => phase[k] = "posting",
                    \/ blind' = blind /\ phase'[j] # "posting"
                    \/ blind' = [blind EXCEPT ![DeliveryOf[j]] = @ + 1]
             PROVE  PostingIsFresh' /\ OnlyBlindRetriesRepeat'
    <2>1. posts[DeliveryOf[j]] <= blind[DeliveryOf[j]]
      BY <1>0, <1>appear DEF PostingIsFresh
    <2>2. \A d \in Deliveries :
            d # DeliveryOf[j] => posts'[d] = posts[d] /\ blind'[d] = blind[d]
      BY <1>0, <1>appear DEF Appear
    <2>3. /\ posts'[DeliveryOf[j]] = posts[DeliveryOf[j]] + 1
          /\ blind'[DeliveryOf[j]] \in {blind[DeliveryOf[j]], blind[DeliveryOf[j]] + 1}
      BY <1>0, <1>appear DEF Appear
    <2>4. OnlyBlindRetriesRepeat'
      BY <1>0, <2>1, <2>2, <2>3 DEF OnlyBlindRetriesRepeat
    <2>5. ASSUME NEW k \in Jobs, phase'[k] = "posting"
          PROVE  posts'[DeliveryOf[k]] <= blind'[DeliveryOf[k]]
      <3>1. CASE k = j
        <4>1. blind'[DeliveryOf[j]] = blind[DeliveryOf[j]] + 1
          BY <1>0, <1>appear, <2>5, <3>1
        <4>2. QED
          BY <1>0, <2>1, <2>3, <3>1, <4>1
      <3>2. CASE k # j
        <4>1. DeliveryOf[k] # DeliveryOf[j]
          BY <3>2 DEF Recognisable
        <4>2. posts[DeliveryOf[k]] <= blind[DeliveryOf[k]]
          BY <1>0, <1>appear, <2>5 DEF PostingIsFresh
        <4>3. QED
          BY <2>2, <4>1, <4>2
      <3>3. QED
        BY <3>1, <3>2
    <2>6. QED
      BY <2>4, <2>5 DEF PostingIsFresh
  <1>1. ASSUME NEW j \in Jobs,
               Abandon(j) \/ Fetched(j) \/ Raises(j) \/ TimeOut(j) \/ Dispatch(j)
               \/ MarkerFound(j) \/ PostRejected(j) \/ Finish(j)
        PROVE  PostingIsFresh' /\ OnlyBlindRetriesRepeat'
    <2>1. UNCHANGED <<posts, blind>> /\ \A k \in Jobs : phase'[k] = "posting" => phase[k] = "posting"
      BY <1>0, <1>1 DEF GoTo, Abandon, Fetched, Raises, TimeOut, Dispatch, MarkerFound,
                        PostRejected, Finish
    <2>2. QED
      BY <2>1, <1>quiet
  <1>2. ASSUME NEW j \in Jobs, NEW w \in Workers, Start(j, w)
        PROVE  PostingIsFresh' /\ OnlyBlindRetriesRepeat'
    BY <1>0, <1>2, <1>quiet DEF GoTo, Start
  <1>3. ASSUME NEW j \in Jobs, NEW status \in Statuses,
               Aggregate(j, status) \/ OrphanAggregate(j, status)
        PROVE  PostingIsFresh' /\ OnlyBlindRetriesRepeat'
    BY <1>0, <1>3, <1>quiet DEF GoTo, Aggregate, OrphanAggregate
  <1>4. ASSUME NEW j \in Jobs, MarkerMissing(j)
        PROVE  PostingIsFresh' /\ OnlyBlindRetriesRepeat'
    <2>1. posts[DeliveryOf[j]] = 0
      BY <1>4 DEF MarkerMissing, Recognisable
    <2>2. UNCHANGED <<posts, blind>> /\ \A k \in Jobs : k # j => phase'[k] = phase[k]
      BY <1>0, <1>4 DEF GoTo, MarkerMissing
    <2>3. QED
      BY <1>0, <2>1, <2>2 DEF PostingIsFresh, OnlyBlindRetriesRepeat
  <1>5. ASSUME NEW j \in Jobs, PostAnswered(j)
        PROVE  PostingIsFresh' /\ OnlyBlindRetriesRepeat'
    <2>1. /\ phase[j] = "posting" /\ Appear(j) /\ blind' = blind /\ phase'[j] # "posting"
          /\ \A k \in Jobs : phase'[k] = "posting" => phase[k] = "posting"
      BY <1>0, <1>5 DEF GoTo, PostAnswered
    <2>2. QED
      BY <2>1, <1>appear
  <1>6. ASSUME NEW j \in Jobs, PostFails(j)
        PROVE  PostingIsFresh' /\ OnlyBlindRetriesRepeat'
    <2>1. phase[j] = "posting" /\ \A k \in Jobs : phase'[k] = "posting" => phase[k] = "posting"
      BY <1>0, <1>6 DEF GoTo, PostFails
    <2>2. CASE UNCHANGED <<posts, blind>>
      BY <2>1, <2>2, <1>quiet
    <2>3. CASE Appear(j) /\ attempt[j] < MaxAttempts
               /\ blind' = [blind EXCEPT ![DeliveryOf[j]] = @ + 1]
      BY <2>1, <2>3, <1>appear
    <2>4. CASE Appear(j) /\ ~(attempt[j] < MaxAttempts) /\ blind' = blind
      <3>1. phase'[j] # "posting"
        BY <1>0, <1>6, <2>4 DEF GoTo, PostFails
      <3>2. QED
        BY <2>1, <2>4, <3>1, <1>appear
    <2>5. QED
      BY <1>6, <2>2, <2>3, <2>4 DEF PostFails
  <1>7. ASSUME NEW w \in Workers, Crash(w)
        PROVE  PostingIsFresh' /\ OnlyBlindRetriesRepeat'
    <2>1. /\ blind' = blind
          /\ \A k \in Jobs : phase'[k] = "posting" => phase[k] = "posting"
      BY <1>0, <1>7 DEF Crash
    <2>2. CASE UNCHANGED posts
      BY <2>1, <2>2, <1>quiet
    <2>3. ASSUME NEW j \in Jobs, host[j] = w, phase[j] = "posting", Appear(j)
          PROVE  PostingIsFresh' /\ OnlyBlindRetriesRepeat'
      <3>1. phase'[j] # "posting"
        BY <1>0, <1>7, <2>3 DEF Crash, Finished
      <3>2. QED
        BY <2>1, <2>3, <3>1, <1>appear
    <2>4. QED
      BY <1>7, <2>2, <2>3 DEF Crash
  <1>8. CASE UNCHANGED vars
    BY <1>0, <1>8, <1>quiet DEF vars, jobVars
  <1>9. QED
    BY <1>1, <1>2, <1>3, <1>4, <1>5, <1>6, <1>7, <1>8 DEF Next, Run

\* With one job per delivery and a marker that can be found, only a retried
\* POST whose answer was lost repeats a review, whatever crashes, raises or
\* times out (post_review_comment).
THEOREM RepeatsAreBlindRetries ==
  ASSUME Recognisable
  PROVE  Spec => []OnlyBlindRetriesRepeat
  <1>1. Init => RepeatInv
    BY TypeInit DEF Init, RepeatInv, PostingIsFresh, OnlyBlindRetriesRepeat
  <1>2. RepeatInv => OnlyBlindRetriesRepeat
    BY DEF RepeatInv
  <1>3. RepeatInv /\ [Next]_vars => RepeatInv'
    BY RepeatStep
  <1>4. QED
    BY <1>1, <1>2, <1>3, PTL DEF Spec
=============================================================================
