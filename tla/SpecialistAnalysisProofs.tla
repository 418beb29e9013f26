----------------------- MODULE SpecialistAnalysisProofs ---------------------
(***************************************************************************)
(* For any calls, pool and breaker threshold: between two successes, no    *)
(* more attempts are given up than trip the breaker, than were under way   *)
(* when it tripped, and one for each of its probes.                        *)
(*                                                                         *)
(* What is given up must have been waited for.  While the breaker is       *)
(* closed, timeouts count towards its threshold; once it is not, each is   *)
(* taken from the calls that still wait, and only a probe joins them.      *)
(*                                                                         *)
(* And every charge is explained: a task left in the pool was given up, so *)
(* it can be charged in advance.                                           *)
(*                                                                         *)
(* Every variable keeps its type, and a call that has an outcome has the   *)
(* one that parse_llm_json makes of the answer.                            *)
(*                                                                         *)
(* What a prompt shows is in an order that one of the two rankings asks    *)
(* for: a chunk that both put behind another has the lower score.          *)
(***************************************************************************)
EXTENDS SpecialistAnalysis, FiniteSetTheorems, WellFoundedInduction, TLAPS

USE AnalysisConfig DEF AnalysisConfig

Places == {"idle", "vector", "text", "ground", "budget", "attempt", "waiting", "record",
           "parse", "return", "done"}

Waiting == {c \in Calls : pc[c] = "waiting"}

\* The place of a probe that has not been let through yet.
ProbesDue == IF breaker.state = "half_open" /\ ~breaker.probe THEN 1 ELSE 0

BreakerTyped ==
    /\ pc \in [Calls -> Places]
    /\ breaker \in [state : {"closed", "open", "half_open"}, failures : 0..Threshold,
                    probe : BOOLEAN]
    /\ resets \in Nat /\ abandoned \in Nat

Inv ==
    /\ BreakerTyped
    /\ breaker.state = "closed" => abandoned <= breaker.failures /\ breaker.failures < Threshold
    /\ abandoned + Cardinality(Waiting) + ProbesDue
          <= Threshold - 1 + Cardinality(Calls) + resets

-----------------------------------------------------------------------------
LEMMA WaitingCount ==
  /\ IsFiniteSet(Waiting) /\ Cardinality(Waiting) \in Nat
  /\ Cardinality(Calls) \in Nat /\ Cardinality(Waiting) <= Cardinality(Calls)
  <1>1. Waiting \subseteq Calls
    BY DEF Waiting
  <1>2. QED
    BY <1>1, FS_Subset, FS_CardinalityType

LEMMA WaitingCountNext ==
  /\ IsFiniteSet(Waiting') /\ Cardinality(Waiting') \in Nat
  /\ Cardinality(Waiting') <= Cardinality(Calls)
  <1>1. Waiting' \subseteq Calls
    BY DEF Waiting
  <1>2. QED
    BY <1>1, FS_Subset, FS_CardinalityType

\* One call begins to wait, or one no longer waits.
LEMMA Joins ==
  ASSUME NEW c \in Calls, pc \in [Calls -> Places], pc[c] # "waiting",
         pc' = [pc EXCEPT ![c] = "waiting"]
  PROVE  Cardinality(Waiting') = Cardinality(Waiting) + 1
  <1>1. Waiting' = Waiting \cup {c} /\ c \notin Waiting
    BY DEF Waiting
  <1>2. QED
    BY <1>1, WaitingCount, FS_AddElement

LEMMA Leaves ==
  ASSUME NEW c \in Calls, pc \in [Calls -> Places], pc[c] = "waiting",
         NEW p \in Places, p # "waiting", pc' = [pc EXCEPT ![c] = p]
  PROVE  Cardinality(Waiting') = Cardinality(Waiting) - 1
  <1>1. Waiting' = Waiting \ {c} /\ c \in Waiting
    BY DEF Waiting
  <1>2. QED
    BY <1>1, WaitingCount, FS_RemoveElement

LEMMA InvInit == Init => Inv
  <1> SUFFICES ASSUME Init PROVE Inv
    OBVIOUS
  <1>1. BreakerTyped
    BY DEF Init, BreakerTyped, Places
  <1>2. ProbesDue = 0 /\ abandoned = 0 /\ resets = 0 /\ breaker.failures = 0
    BY DEF Init, ProbesDue
  <1>3. QED
    BY <1>1, <1>2, WaitingCount DEF Inv

\* Steps of a call that neither waits nor touches the breaker.
LEMMA ElsewhereStep ==
  ASSUME Inv, UNCHANGED breakerVars, pc' \in [Calls -> Places],
         \A c \in Calls : pc'[c] = "waiting" <=> pc[c] = "waiting"
  PROVE  Inv'
  <1>1. Waiting' = Waiting
    BY DEF Waiting
  <1>2. QED
    BY <1>1 DEF Inv, BreakerTyped, ProbesDue, breakerVars

LEMMA SubmitStep ==
  ASSUME Inv, NEW c \in Calls, Submit(c)
  PROVE  Inv'
  <1> USE DEF Inv
  <1>1. Cardinality(Waiting') = Cardinality(Waiting) + 1
    BY Joins DEF Submit, BreakerTyped
  <1>2. BreakerTyped'
    BY DEF Submit, BreakerTyped, Places
  <1>3. /\ breaker.state \in {"closed", "half_open"}
        /\ breaker.state = "half_open" => ~breaker.probe
        /\ breaker'.state = breaker.state /\ breaker'.failures = breaker.failures
        /\ breaker.state = "half_open" => breaker'.probe
        /\ abandoned' = abandoned /\ resets' = resets
    BY DEF Submit, Refuses, BreakerTyped
  <1>4. CASE breaker.state = "closed"
    BY <1>2, <1>3, <1>4, WaitingCount, WaitingCountNext DEF ProbesDue, BreakerTyped
  <1>5. CASE breaker.state = "half_open"
    BY <1>1, <1>2, <1>3, <1>5, WaitingCount DEF ProbesDue, BreakerTyped
  <1>6. QED
    BY <1>3, <1>4, <1>5

\* A failed call has left; the failure may trip the breaker.
LEMMA FailedStep ==
  ASSUME Inv, NEW c \in Calls, pc[c] = "waiting", Failed,
         NEW p \in Places, p # "waiting", pc' = [pc EXCEPT ![c] = p],
         abandoned' \in {abandoned, abandoned + 1}, resets' = resets
  PROVE  Inv'
  <1> USE DEF Inv
  <1>1. Cardinality(Waiting') = Cardinality(Waiting) - 1
    BY Leaves DEF BreakerTyped
  <1>2. BreakerTyped'
    BY DEF Failed, BreakerTyped, Places
  <1>3. breaker'.state # "half_open" /\ (breaker'.state = "closed" =>
            breaker.state = "closed" /\ breaker'.failures = breaker.failures + 1
            /\ breaker.failures + 1 < Threshold)
    BY DEF Failed, BreakerTyped, Places
  <1>4. ProbesDue' = 0 /\ ProbesDue \in {0, 1}
    BY <1>3 DEF ProbesDue
  <1>5. abandoned' + Cardinality(Waiting') <= abandoned + Cardinality(Waiting)
    BY <1>1, WaitingCount, WaitingCountNext DEF BreakerTyped
  <1>6. abandoned' + Cardinality(Waiting') + ProbesDue'
          <= Threshold - 1 + Cardinality(Calls) + resets'
    BY <1>2, <1>4, <1>5, WaitingCount, WaitingCountNext DEF BreakerTyped
  <1>7. breaker'.state = "closed" => abandoned' <= breaker'.failures /\ breaker'.failures < Threshold
    BY <1>2, <1>3 DEF BreakerTyped
  <1>8. QED
    BY <1>2, <1>6, <1>7

LEMMA SucceededStep ==
  ASSUME Inv, NEW c \in Calls, Succeeded, abandoned' = 0, resets' = resets,
         pc' = [pc EXCEPT ![c] = "record"]
  PROVE  Inv'
  <1>1. BreakerTyped' /\ breaker'.state = "closed" /\ breaker'.failures = 0
    BY DEF Succeeded, Inv, BreakerTyped, Places
  <1>2. ProbesDue' = 0
    BY <1>1 DEF ProbesDue
  <1>3. QED
    BY <1>1, <1>2, WaitingCountNext, WaitingCount DEF Inv, BreakerTyped

LEMMA ReplyStep ==
  ASSUME Inv, NEW c \in Calls, GetReply(c) \/ TimeOut(c)
  PROVE  Inv'
  <1>1. pc[c] = "waiting" /\ resets' = resets
    BY DEF GetReply, TimeOut
  <1>2. ASSUME RetryOrGiveUp(c)
        PROVE  \E p \in Places : p # "waiting" /\ pc' = [pc EXCEPT ![c] = p]
    BY <1>2 DEF RetryOrGiveUp, End, Places
  <1>3. CASE TimeOut(c)
    <2>1. RetryOrGiveUp(c) /\ Failed /\ abandoned' = abandoned + 1
      BY <1>3 DEF TimeOut
    <2>2. QED
      BY <1>1, <1>2, <2>1, FailedStep
  <1>4. CASE GetReply(c)
    <2>1. CASE Succeeded /\ abandoned' = 0 /\ pc' = [pc EXCEPT ![c] = "record"]
      BY <1>1, <2>1, SucceededStep
    <2>2. CASE Failed /\ RetryOrGiveUp(c) /\ UNCHANGED abandoned
      BY <1>1, <1>2, <2>2, FailedStep
    <2>3. CASE Failed /\ End(c, "unavailable") /\ UNCHANGED abandoned
      BY <1>1, <2>3, FailedStep DEF End, Places
    <2>4. QED
      BY <1>4, <2>1, <2>2, <2>3 DEF GetReply
  <1>5. QED
    BY <1>3, <1>4

LEMMA ResetStep ==
  ASSUME Inv, Reset
  PROVE  Inv'
  <1>0. /\ breaker.state = "open" /\ resets' = resets + 1 /\ abandoned' = abandoned /\ pc' = pc
        /\ breaker' = [breaker EXCEPT !.state = "half_open", !.probe = FALSE]
    BY DEF Reset
  <1>1. BreakerTyped' /\ breaker'.state = "half_open"
    <2>1. breaker' = [state |-> "half_open", failures |-> breaker.failures, probe |-> FALSE]
      BY <1>0 DEF Inv, BreakerTyped
    <2>2. breaker.failures \in 0..Threshold
      BY DEF Inv, BreakerTyped
    <2>3. breaker' \in [state : {"closed", "open", "half_open"}, failures : 0..Threshold,
                         probe : BOOLEAN]
      BY <2>1, <2>2
    <2>4. resets' \in Nat /\ abandoned' \in Nat
      BY <1>0 DEF Inv, BreakerTyped
    <2>5. QED
      BY <1>0, <2>1, <2>3, <2>4 DEF Inv, BreakerTyped
  <1>2. Waiting' = Waiting /\ ProbesDue = 0 /\ ProbesDue' \in {0, 1}
    BY <1>0, <1>1 DEF Waiting, ProbesDue
  <1>3. QED
    BY <1>0, <1>1, <1>2, WaitingCount DEF Inv, BreakerTyped

LEMMA InvStep == Inv /\ [Next]_vars => Inv'
  <1> SUFFICES ASSUME Inv, [Next]_vars PROVE Inv'
    OBVIOUS
  <1>1. ASSUME NEW c \in Calls, Submit(c) PROVE Inv'
    BY <1>1, SubmitStep
  <1>2. ASSUME NEW c \in Calls, GetReply(c) \/ TimeOut(c) PROVE Inv'
    BY <1>2, ReplyStep
  <1>3. ASSUME NEW c \in Calls,
               \/ Begin(c) \/ RetrievalFails(c) \/ SearchVector(c) \/ SearchText(c) \/ Ground(c)
               \/ CheckBudget(c) \/ BreakerRefuses(c) \/ Record(c) \/ Parse(c) \/ Return(c)
        PROVE  Inv'
    <2>1. UNCHANGED breakerVars
      BY <1>3 DEF Begin, RetrievalFails, SearchVector, SearchText, Ground, CheckBudget,
                  BreakerRefuses, Record, Parse, Return
    <2>2. /\ pc[c] # "waiting"
          /\ \E p \in Places : p # "waiting" /\ pc' = [pc EXCEPT ![c] = p]
      BY <1>3 DEF Begin, RetrievalFails, SearchVector, SearchText, Ground, CheckBudget, End,
                  BreakerRefuses, Record, Parse, Return, Places
    <2>3. /\ pc' \in [Calls -> Places]
          /\ \A d \in Calls : pc'[d] = "waiting" <=> pc[d] = "waiting"
      BY <2>2 DEF Inv, BreakerTyped
    <2>4. QED
      BY <2>1, <2>3, ElsewhereStep
  <1>4. CASE Reset
    BY <1>4, ResetStep
  <1>5. CASE StartTask \/ (\E t \in Tasks : EndTask(t)) \/ Truncate \/ InsertChunk \/ UNCHANGED vars
    <2>1. UNCHANGED <<pc, breakerVars>>
      BY <1>5, Zenon DEF StartTask, EndTask, Truncate, InsertChunk, vars
    <2>2. QED
      BY <2>1, ElsewhereStep DEF Inv, BreakerTyped
  <1>6. QED
    BY <1>1, <1>2, <1>3, <1>4, <1>5 DEF Next, CallStep

\* run_with_timeout under the breaker: attempts whose threads may be held for
\* ever do not pile up, however many calls come and go.
THEOREM TimeoutsNeverPileUp == Spec => []AbandonedBounded
  <1>1. Inv => AbandonedBounded
    <2> SUFFICES ASSUME Inv PROVE AbandonedBounded
      OBVIOUS
    <2>1. ProbesDue \in {0, 1}
      BY DEF ProbesDue
    <2>2. QED
      BY <2>1, WaitingCount DEF Inv, BreakerTyped, AbandonedBounded
  <1>2. QED
    BY <1>1, InvInit, InvStep, PTL DEF Spec

-----------------------------------------------------------------------------
(***************************************************************************)
(* What the provider charges.  A task of the pool nobody waits for was     *)
(* given up, and may still be answered: it is charged in advance.          *)
(***************************************************************************)
Queued == {queue[i] : i \in 1..Len(queue)}
Pool == Queued \cup running
Live(t) == pc[t[1]] = "waiting" /\ reply[t[1]] = None /\ t = Task(t[1])
Orphans == {t \in Pool : ~Live(t)}
Paid == {c \in Calls : pc[c] = "record" \/ reply[c] = "answer"}
Early == {"idle", "vector", "text", "ground", "budget"}

PoolTyped ==
    /\ pc \in [Calls -> Places]
    /\ attempt \in [Calls -> 0..MaxAttempts]
    /\ reply \in [Calls -> Outcomes \cup {None}]
    /\ queue \in Seq(Tasks) /\ running \subseteq Tasks
    /\ {timeouts, billed, recorded, unwritten} \subseteq Nat

\* A task is in the pool once, and it is of its call's attempt or of an earlier
\* one.
PoolInv ==
    /\ PoolTyped
    /\ \A i, j \in 1..Len(queue) : queue[i] = queue[j] => i = j
    /\ Queued \cap running = {}
    /\ \A c \in Calls : /\ pc[c] \in Early => attempt[c] = 0
                        /\ pc[c] \in {"attempt", "waiting"} => attempt[c] > 0
                        /\ reply[c] # None => pc[c] = "waiting" /\ Task(c) \notin Pool
    /\ \A t \in Pool : /\ t[2] <= attempt[t[1]]
                       /\ pc[t[1]] = "attempt" => t[2] < attempt[t[1]]

SpendInv ==
    /\ PoolInv
    /\ billed + Cardinality(Orphans) <= recorded + unwritten + timeouts + Cardinality(Paid)

LEMMA TasksFinite == IsFiniteSet(Tasks)
  <1>1. IsFiniteSet(1..MaxAttempts)
    BY FS_Interval
  <1>2. QED
    BY <1>1, FS_Product DEF Tasks

LEMMA PoolFinite ==
  ASSUME PoolTyped
  PROVE  /\ Pool \subseteq Tasks /\ IsFiniteSet(Tasks)
         /\ IsFiniteSet(Orphans) /\ Cardinality(Orphans) \in Nat
         /\ IsFiniteSet(Paid) /\ Cardinality(Paid) \in Nat
  <1>2. IsFiniteSet(Tasks)
    BY TasksFinite
  <1>3. Pool \subseteq Tasks
    BY DEF PoolTyped, Pool, Queued
  <1>4. Orphans \subseteq Tasks /\ Paid \subseteq Calls
    BY <1>3 DEF Orphans, Paid
  <1>5. QED
    BY <1>2, <1>3, <1>4, FS_Subset, FS_CardinalityType

\* The counts of the next state, when one element has come or gone.
LEMMA Grows ==
  ASSUME NEW S, NEW T, NEW x, IsFiniteSet(S), T = S \cup {x}
  PROVE  /\ Cardinality(T) <= Cardinality(S) + 1
         /\ x \notin S => Cardinality(T) = Cardinality(S) + 1
         /\ Cardinality(S) <= Cardinality(T)
         /\ Cardinality(S) \in Nat /\ Cardinality(T) \in Nat
  <1>1. Cardinality(S) \in Nat
    BY FS_CardinalityType
  <1>2. CASE x \in S
    <2>1. T = S
      BY <1>2
    <2>2. QED
      BY <1>1, <1>2, <2>1
  <1>3. CASE x \notin S
    <2>1. Cardinality(S \cup {x}) = Cardinality(S) + 1
      BY <1>3, FS_AddElement
    <2>2. QED
      BY <1>1, <1>3, <2>1
  <1>4. QED
    BY <1>2, <1>3

LEMMA Shrinks ==
  ASSUME NEW S, NEW T, NEW x \in S, IsFiniteSet(S), T = S \ {x}
  PROVE  Cardinality(T) = Cardinality(S) - 1 /\ Cardinality(S) \in Nat /\ Cardinality(T) \in Nat
  <1>1. IsFiniteSet(T)
    BY FS_Subset
  <1>2. QED
    BY <1>1, FS_RemoveElement, FS_CardinalityType

LEMMA SpendInit == Init => SpendInv
  <1> SUFFICES ASSUME Init PROVE SpendInv
    OBVIOUS
  <1>1. PoolInv
    BY DEF Init, PoolInv, PoolTyped, Pool, Queued, Places, Outcomes, None
  <1>2. Orphans = {}
    BY DEF Init, Orphans, Pool, Queued
  <1>3. QED
    BY <1>1, <1>2, FS_EmptySet, PoolFinite DEF Init, SpendInv, PoolInv

\* A step of a call that is not waiting, before or after, and has no answer to
\* record: nothing changes in what is charged.
LEMMA ByTheWay ==
  ASSUME SpendInv, NEW c \in Calls, NEW p \in Places \ {"waiting", "record"},
         pc[c] \notin {"waiting", "record"}, pc' = [pc EXCEPT ![c] = p],
         p \in Early => pc[c] \in Early,
         \/ p # "attempt" /\ attempt' = attempt
         \/ p = "attempt" /\ pc[c] \in Early /\ attempt' = [attempt EXCEPT ![c] = 1],
         UNCHANGED <<reply, queue, running, costVars>>
  PROVE  SpendInv'
  <1> USE DEF SpendInv, PoolInv
  <1>1. Pool' = Pool /\ Queued' = Queued /\ Pool \subseteq Tasks
    BY PoolFinite DEF Pool, Queued
  <1>2. PoolTyped'
    <2>1. attempt' \in [Calls -> 0..MaxAttempts]
      <3>1. attempt \in [Calls -> 0..MaxAttempts] /\ 1 \in 0..MaxAttempts
        BY DEF PoolTyped
      <3>2. attempt' = attempt \/ attempt' = [attempt EXCEPT ![c] = 1]
        OBVIOUS
      <3>3. QED
        BY <3>1, <3>2
    <2>2. pc' \in [Calls -> Places]
      BY DEF PoolTyped
    <2>3. QED
      BY <2>1, <2>2 DEF PoolTyped, costVars
  <1>3. \A d \in Calls : /\ d # c => pc'[d] = pc[d] /\ attempt'[d] = attempt[d]
                         /\ attempt[d] <= attempt'[d]
    BY DEF PoolTyped
  <1>4. pc'[c] = p /\ reply[c] = None
    BY DEF PoolTyped
  <1>5. \A t \in Pool : t[1] \in Calls /\ t[2] \in 1..MaxAttempts
    BY <1>1 DEF Tasks
  <1>6. \A t \in Pool : Live(t)' <=> Live(t)
    BY <1>3, <1>4, <1>5 DEF Live, Task
  <1>7. Orphans' = Orphans
    BY <1>1, <1>6 DEF Orphans
  <1>8. Paid' = Paid
    BY <1>3, <1>4 DEF Paid
  <1>9. PoolInv'
    <2>1. \A d \in Calls : /\ pc'[d] \in Early => attempt'[d] = 0
                           /\ pc'[d] \in {"attempt", "waiting"} => attempt'[d] > 0
                           /\ reply'[d] # None => pc'[d] = "waiting" /\ Task(d)' \notin Pool'
      BY <1>1, <1>3, <1>4 DEF PoolTyped, Early, Task
    <2>2. \A t \in Pool : /\ t[2] <= attempt'[t[1]]
                          /\ pc'[t[1]] = "attempt" => t[2] < attempt'[t[1]]
      <3>1. SUFFICES ASSUME NEW t \in Pool
            PROVE  /\ t[2] <= attempt'[t[1]]
                   /\ pc'[t[1]] = "attempt" => t[2] < attempt'[t[1]]
        OBVIOUS
      <3>2. CASE t[1] # c
        BY <1>3, <1>5, <3>2
      <3>3. CASE t[1] = c /\ pc[c] \in Early
        <4>1. t[2] <= 0 /\ t[2] \in 1..MaxAttempts
          BY <1>5, <3>3
        <4>2. QED
          BY <4>1
      <3>4. CASE t[1] = c /\ pc[c] \notin Early
        BY <1>3, <1>4, <1>5, <3>4
      <3>5. QED
        BY <3>2, <3>3, <3>4
    <2>3. QED
      BY <1>1, <1>2, <2>1, <2>2
  <1>10. QED
    BY <1>7, <1>8, <1>9 DEF costVars

LEMMA SpendSubmit ==
  ASSUME SpendInv, NEW c \in Calls, Submit(c)
  PROVE  SpendInv'
  <1> USE DEF SpendInv, PoolInv
  <1>1. /\ pc[c] = "attempt" /\ pc' = [pc EXCEPT ![c] = "waiting"]
        /\ queue' = Append(queue, Task(c))
        /\ UNCHANGED <<attempt, reply, running, costVars>>
    BY DEF Submit
  <1>2. Task(c) = <<c, attempt[c]>> /\ Task(c) \in Tasks /\ Task(c)' = Task(c)
    BY <1>1 DEF Task, Tasks, PoolTyped
  <1>3. Task(c) \notin Pool
    BY <1>1, <1>2 DEF PoolTyped
  <1>4. /\ queue' \in Seq(Tasks) /\ Len(queue') = Len(queue) + 1
        /\ \A i \in 1..Len(queue') : queue'[i] = IF i <= Len(queue) THEN queue[i] ELSE Task(c)
    BY <1>1, <1>2 DEF PoolTyped
  <1>5. Queued' = Queued \cup {Task(c)} /\ Pool' = Pool \cup {Task(c)}
    <2>1. Queued' = Queued \cup {Task(c)}
      <3>1. Len(queue) \in Nat
        BY DEF PoolTyped
      <3>2. \A t \in Queued' : t \in Queued \cup {Task(c)}
        BY <1>4, <3>1 DEF Queued
      <3>3. \A t \in Queued : t \in Queued'
        BY <1>4, <3>1 DEF Queued
      <3>4. Task(c) \in Queued'
        BY <1>4, <3>1 DEF Queued
      <3>5. QED
        BY <3>2, <3>3, <3>4
    <2>2. QED
      BY <1>1, <2>1 DEF Pool
  <1>6. PoolTyped'
    BY <1>1, <1>4 DEF PoolTyped, costVars, Places
  <1>7. \A i, j \in 1..Len(queue') : queue'[i] = queue'[j] => i = j
    <2>1. \A i \in 1..Len(queue) : queue[i] # Task(c)
      BY <1>3 DEF Pool, Queued
    <2>2. Len(queue) \in Nat
      BY DEF PoolTyped
    <2>3. ASSUME NEW i \in 1..Len(queue'), NEW j \in 1..Len(queue'), queue'[i] = queue'[j]
          PROVE  i = j
      <3>1. CASE i <= Len(queue) /\ j <= Len(queue)
        <4>1. i \in 1..Len(queue) /\ j \in 1..Len(queue) /\ queue[i] = queue[j]
          BY <1>4, <2>2, <2>3, <3>1
        <4>2. QED
          BY <4>1
      <3>2. CASE i = Len(queue) + 1 \/ j = Len(queue) + 1
        BY <1>4, <2>1, <2>2, <2>3, <3>2
      <3>3. QED
        BY <1>4, <2>2, <3>1, <3>2
    <2>4. QED
      BY <2>3
  <1>8. \A t \in Pool : t[1] \in Calls /\ t[2] \in 1..MaxAttempts
    BY PoolFinite DEF Tasks
  <1>9. \A t \in Pool : Live(t)' <=> Live(t)
    <2>1. \A t \in Pool : t[1] = c => t # Task(c)
      BY <1>3
    <2>2. QED
      BY <1>1, <1>8, <2>1 DEF Live, Task, PoolTyped
  <1>10. \A t \in {Task(c)} : Live(t)'
    <2>1. pc'[c] = "waiting" /\ reply'[c] = None /\ attempt'[c] = attempt[c]
      BY <1>1 DEF PoolTyped
    <2>2. QED
      BY <1>2, <2>1 DEF Live, Task
  <1>11. Orphans' = Orphans /\ Paid' = Paid
    <2>1. Orphans' = Orphans
      <3>1. \A t \in Pool' : ~Live(t)' <=> (t \in Pool /\ ~Live(t))
        BY <1>3, <1>5, <1>9, <1>10
      <3>2. Orphans' = {t \in Pool' : ~Live(t)'}
        BY DEF Orphans
      <3>3. QED
        BY <1>5, <3>1, <3>2, Zenon DEF Orphans
    <2>2. Paid' = Paid
      BY <1>1 DEF Paid, PoolTyped
    <2>3. QED
      BY <2>1, <2>2
  <1>12. PoolInv'
    <2>1. Queued' \cap running' = {}
      BY <1>1, <1>3, <1>5 DEF Pool
    <2>2. \A d \in Calls : /\ pc'[d] \in Early => attempt'[d] = 0
                           /\ pc'[d] \in {"attempt", "waiting"} => attempt'[d] > 0
                           /\ reply'[d] # None => pc'[d] = "waiting" /\ Task(d)' \notin Pool'
      BY <1>1, <1>2, <1>5 DEF PoolTyped, Early, Task
    <2>3. \A t \in Pool' : /\ t[2] <= attempt'[t[1]]
                           /\ pc'[t[1]] = "attempt" => t[2] < attempt'[t[1]]
      BY <1>1, <1>2, <1>5, <1>8 DEF PoolTyped
    <2>4. QED
      BY <1>6, <1>7, <2>1, <2>2, <2>3
  <1>13. QED
    BY <1>1, <1>11, <1>12 DEF costVars

\* A call stops waiting: what it waited for may become an orphan.
LEMMA StopsWaiting ==
  ASSUME SpendInv, NEW c \in Calls, pc[c] = "waiting",
         NEW p \in {"attempt", "record", "done"}, pc' = [pc EXCEPT ![c] = p],
         p = "record" <=> reply[c] = "answer",
         \/ p # "attempt" /\ attempt' = attempt
         \/ p = "attempt" /\ attempt[c] < MaxAttempts /\ attempt' = [attempt EXCEPT ![c] = @ + 1],
         reply' = [reply EXCEPT ![c] = None], queue' = queue, running' = running,
         {timeouts', billed', recorded', unwritten'} \subseteq Nat
  PROVE  /\ PoolInv' /\ Paid' = Paid
         /\ Orphans' = Orphans \/ (reply[c] = None /\ Orphans' = Orphans \cup {Task(c)})
  <1> USE DEF SpendInv, PoolInv
  <1>1. Pool' = Pool /\ Queued' = Queued /\ Pool \subseteq Tasks
    BY PoolFinite DEF Pool, Queued
  <1>2. PoolTyped'
    <2>1. attempt' \in [Calls -> 0..MaxAttempts]
      <3>1. attempt \in [Calls -> 0..MaxAttempts]
        BY DEF PoolTyped
      <3>2. CASE attempt' = attempt
        BY <3>1, <3>2
      <3>3. CASE attempt[c] < MaxAttempts /\ attempt' = [attempt EXCEPT ![c] = @ + 1]
        <4>1. attempt[c] + 1 \in 0..MaxAttempts
          BY <3>1, <3>3
        <4>2. QED
          BY <3>1, <3>3, <4>1
      <3>4. QED
        BY <3>2, <3>3
    <2>2. pc' \in [Calls -> Places] /\ reply' \in [Calls -> Outcomes \cup {None}]
      BY DEF PoolTyped, Places
    <2>3. QED
      BY <2>1, <2>2 DEF PoolTyped
  <1>3. \A d \in Calls : d # c => pc'[d] = pc[d] /\ attempt'[d] = attempt[d] /\ reply'[d] = reply[d]
    BY DEF PoolTyped
  <1>4. /\ pc'[c] = p /\ reply'[c] = None /\ attempt[c] \in 1..MaxAttempts
        /\ attempt'[c] \in 1..MaxAttempts /\ attempt[c] <= attempt'[c]
        /\ p = "attempt" => attempt[c] < attempt'[c]
    BY DEF PoolTyped
  <1>5. \A t \in Pool : t[1] \in Calls /\ t[2] \in 1..MaxAttempts
    BY <1>1 DEF Tasks
  <1>6. \A t \in Pool : t[1] # c => (Live(t)' <=> Live(t))
    BY <1>3, <1>5 DEF Live, Task
  <1>7. \A t \in Pool : t[1] = c => /\ ~Live(t)'
                                    /\ Live(t) <=> reply[c] = None /\ t = Task(c)
    BY <1>4 DEF Live
  <1>8. Orphans' = Orphans \/ (reply[c] = None /\ Orphans' = Orphans \cup {Task(c)})
    <2>1. Orphans' = {t \in Pool : ~Live(t)'}
      BY <1>1 DEF Orphans
    <2>2. CASE reply[c] = None /\ Task(c) \in Pool
      <3>1. Task(c)[1] = c
        BY DEF Task
      <3>2. \A t \in Pool : ~Live(t)' <=> (~Live(t) \/ t = Task(c))
        BY <1>6, <1>7, <2>2, <3>1
      <3>3. QED
        BY <2>1, <2>2, <3>2 DEF Orphans
    <2>3. CASE ~(reply[c] = None /\ Task(c) \in Pool)
      <3>1. \A t \in Pool : ~Live(t)' <=> ~Live(t)
        BY <1>6, <1>7, <2>3
      <3>2. QED
        BY <2>1, <3>1 DEF Orphans
    <2>4. QED
      BY <2>2, <2>3
  <1>9. Paid' = Paid
    BY <1>3, <1>4 DEF Paid, Outcomes, None
  <1>10. PoolInv'
    <2>1. \A d \in Calls : /\ pc'[d] \in Early => attempt'[d] = 0
                           /\ pc'[d] \in {"attempt", "waiting"} => attempt'[d] > 0
                           /\ reply'[d] # None => pc'[d] = "waiting" /\ Task(d)' \notin Pool'
      BY <1>1, <1>3, <1>4 DEF Early, Task
    <2>2. \A t \in Pool : /\ t[2] <= attempt'[t[1]]
                          /\ pc'[t[1]] = "attempt" => t[2] < attempt'[t[1]]
      <3>1. SUFFICES ASSUME NEW t \in Pool
            PROVE  /\ t[2] <= attempt'[t[1]]
                   /\ pc'[t[1]] = "attempt" => t[2] < attempt'[t[1]]
        OBVIOUS
      <3>2. CASE t[1] # c
        BY <1>3, <1>5, <3>2
      <3>3. CASE t[1] = c
        <4>1. t[2] <= attempt[c] /\ t[2] \in 1..MaxAttempts
          BY <1>5, <3>3
        <4>2. QED
          BY <1>4, <3>3, <4>1
      <3>4. QED
        BY <3>2, <3>3
    <2>3. QED
      BY <1>1, <1>2, <2>1, <2>2
  <1>11. QED
    BY <1>8, <1>9, <1>10

LEMMA SpendWait ==
  ASSUME SpendInv, NEW c \in Calls, GetReply(c) \/ TimeOut(c)
  PROVE  SpendInv'
  <1> USE DEF SpendInv
  <1>1. /\ pc[c] = "waiting" /\ queue' = queue /\ running' = running
        /\ reply' = [reply EXCEPT ![c] = None]
        /\ UNCHANGED <<billed, recorded, unwritten>>
        /\ \/ timeouts' = timeouts + 1 /\ reply[c] = None
           \/ timeouts' = timeouts /\ reply[c] # None
    BY DEF GetReply, TimeOut, PoolInv, PoolTyped, poolVars, costVars
  <1>2. \E p \in {"attempt", "record", "done"} :
            /\ pc' = [pc EXCEPT ![c] = p]
            /\ p = "record" <=> reply[c] = "answer"
            /\ \/ p # "attempt" /\ attempt' = attempt
               \/ /\ p = "attempt" /\ attempt[c] < MaxAttempts
                  /\ attempt' = [attempt EXCEPT ![c] = @ + 1]
    BY DEF GetReply, TimeOut, RetryOrGiveUp, End, None
  <1>3. {timeouts, timeouts', billed, recorded, unwritten} \subseteq Nat
    BY <1>1 DEF PoolInv, PoolTyped
  <1>4. /\ PoolInv' /\ Paid' = Paid
        /\ Orphans' = Orphans \/ (reply[c] = None /\ Orphans' = Orphans \cup {Task(c)})
    BY <1>1, <1>2, <1>3, StopsWaiting
  <1>5. PoolTyped /\ PoolTyped'
    BY <1>4 DEF PoolInv
  <1>6. /\ IsFiniteSet(Orphans) /\ Cardinality(Orphans) \in Nat /\ Cardinality(Paid) \in Nat
    BY <1>5, PoolFinite
  <1>7. CASE Orphans' = Orphans
    BY <1>1, <1>3, <1>4, <1>6, <1>7
  <1>8. CASE reply[c] = None /\ Orphans' = Orphans \cup {Task(c)}
    <2>1. Cardinality(Orphans') <= Cardinality(Orphans) + 1 /\ Cardinality(Orphans') \in Nat
      BY <1>6, <1>8, Grows
    <2>2. QED
      BY <1>1, <1>3, <1>4, <1>6, <1>8, <2>1
  <1>9. QED
    BY <1>4, <1>7, <1>8

LEMMA SpendRecord ==
  ASSUME SpendInv, NEW c \in Calls, Record(c)
  PROVE  SpendInv'
  <1> USE DEF SpendInv, PoolInv
  <1>1. /\ pc[c] = "record" /\ pc' = [pc EXCEPT ![c] = "parse"]
        /\ UNCHANGED <<attempt, reply, queue, running, timeouts, billed>>
    BY DEF Record, poolVars
  <1>2. /\ recorded' + unwritten' = recorded + unwritten + 1
        /\ {timeouts, billed, recorded, unwritten, recorded', unwritten'} \subseteq Nat
    <2>1. timeouts \in Nat /\ billed \in Nat /\ recorded \in Nat /\ unwritten \in Nat
      BY DEF PoolTyped
    <2>2. CASE recorded' = recorded + 1 /\ unwritten' = unwritten
      BY <2>1, <2>2
    <2>3. CASE unwritten' = unwritten + 1 /\ recorded' = recorded
      BY <2>1, <2>3
    <2>4. QED
      BY <2>2, <2>3 DEF Record
  <1>3. Pool' = Pool /\ Queued' = Queued /\ Pool \subseteq Tasks
    BY <1>1, PoolFinite DEF Pool, Queued
  <1>4. PoolTyped'
    BY <1>1, <1>2 DEF PoolTyped, Places
  <1>5. \A d \in Calls : d # c => pc'[d] = pc[d]
    BY <1>1 DEF PoolTyped
  <1>6. pc'[c] = "parse" /\ reply[c] = None
    BY <1>1 DEF PoolTyped
  <1>7. \A t \in Pool : t[1] \in Calls
    BY <1>3 DEF Tasks
  <1>8. \A t \in Pool : Live(t)' <=> Live(t)
    BY <1>1, <1>5, <1>6, <1>7 DEF Live, Task
  <1>9. Orphans' = Orphans
    BY <1>3, <1>8 DEF Orphans
  <1>10. Paid' = Paid \ {c} /\ c \in Paid
    BY <1>1, <1>5, <1>6 DEF Paid, None
  <1>11. PoolInv'
    BY <1>1, <1>3, <1>4, <1>5, <1>6, <1>7 DEF Early, Task
  <1>12. Cardinality(Paid') = Cardinality(Paid) - 1
         /\ Cardinality(Paid) \in Nat /\ Cardinality(Orphans) \in Nat
    BY <1>10, PoolFinite, Shrinks
  <1>13. QED
    BY <1>1, <1>2, <1>9, <1>11, <1>12

LEMMA SpendStart ==
  ASSUME SpendInv, StartTask
  PROVE  SpendInv'
  <1> USE DEF SpendInv, PoolInv
  <1> DEFINE h == Head(queue)
  <1>1. /\ queue # <<>> /\ running' = running \cup {h} /\ queue' = Tail(queue)
        /\ UNCHANGED <<pc, attempt, reply, costVars>>
    BY DEF StartTask
  <1>2. /\ queue \in Seq(Tasks) /\ Len(queue) \in Nat /\ Len(queue) > 0
        /\ h = queue[1] /\ h \in Tasks
    BY <1>1 DEF PoolTyped
  <1>3. /\ queue' \in Seq(Tasks) /\ Len(queue') = Len(queue) - 1
        /\ \A i \in 1..Len(queue') : queue'[i] = queue[i + 1] /\ i + 1 \in 1..Len(queue)
    BY <1>1, <1>2
  <1>4. \A i \in 1..Len(queue) : i # 1 => i - 1 \in 1..Len(queue') /\ queue'[i - 1] = queue[i]
    BY <1>2, <1>3
  <1>5. h \in Queued /\ h \notin running
    BY <1>2 DEF Queued
  <1>6. Queued' = Queued \ {h}
    <2>1. ASSUME NEW i \in 1..Len(queue') PROVE queue'[i] \in Queued \ {h}
      BY <1>2, <1>3, <2>1 DEF Queued
    <2>2. ASSUME NEW i \in 1..Len(queue), queue[i] # h PROVE queue[i] \in Queued'
      <3>1. i - 1 \in 1..Len(queue') /\ queue'[i - 1] = queue[i]
        BY <1>2, <1>4, <2>2
      <3>2. QED
        BY <3>1 DEF Queued
    <2>3. \A t \in Queued' : t \in Queued \ {h}
      BY <2>1 DEF Queued
    <2>4. \A t \in Queued \ {h} : t \in Queued'
      <3>1. SUFFICES ASSUME NEW t \in Queued, t # h PROVE t \in Queued'
        OBVIOUS
      <3>2. PICK i \in 1..Len(queue) : t = queue[i]
        BY DEF Queued
      <3>3. QED
        BY <2>2, <3>1, <3>2
    <2>5. QED
      BY <2>3, <2>4
  <1>7. Pool' = Pool
    BY <1>1, <1>5, <1>6 DEF Pool
  <1>8. PoolTyped'
    BY <1>1, <1>2, <1>3 DEF PoolTyped, costVars
  <1>9. \A i, j \in 1..Len(queue') : queue'[i] = queue'[j] => i = j
    <2>1. ASSUME NEW i \in 1..Len(queue'), NEW j \in 1..Len(queue'), queue'[i] = queue'[j]
          PROVE  i = j
      <3>1. i + 1 \in 1..Len(queue) /\ j + 1 \in 1..Len(queue) /\ queue[i + 1] = queue[j + 1]
        BY <1>3, <2>1
      <3>2. i + 1 = j + 1
        BY <3>1
      <3>3. QED
        BY <1>2, <1>3, <3>2
    <2>2. QED
      BY <2>1
  <1>10. Queued' \cap running' = {}
    BY <1>1, <1>6
  <1>11. PoolInv'
    BY <1>1, <1>7, <1>8, <1>9, <1>10 DEF Task
  <1>12. Orphans' = Orphans /\ Paid' = Paid
    BY <1>1, <1>7 DEF Orphans, Paid, Live, Task
  <1>13. QED
    BY <1>1, <1>11, <1>12 DEF costVars

LEMMA SpendEnd ==
  ASSUME SpendInv, NEW t \in Tasks, EndTask(t)
  PROVE  SpendInv'
  <1> USE DEF SpendInv, PoolInv
  <1> DEFINE c == t[1]
  <1>1. /\ t \in running /\ running' = running \ {t} /\ c \in Calls
        /\ UNCHANGED <<pc, attempt, queue, timeouts, recorded, unwritten>>
    BY DEF EndTask, Tasks
  <1>2. PICK how \in Outcomes :
            /\ billed' = IF how = "answer" THEN billed + 1 ELSE billed
            /\ reply' = IF pc[c] = "waiting" /\ Task(c) = t THEN [reply EXCEPT ![c] = how] ELSE reply
    BY DEF EndTask
  <1>3. {timeouts, billed, billed', recorded, unwritten} \subseteq Nat
    BY <1>2 DEF PoolTyped
  <1>4. /\ Queued' = Queued /\ t \in Pool /\ Pool' = Pool \ {t} /\ Pool \subseteq Tasks
    BY <1>1, PoolFinite DEF Pool, Queued
  <1>5. reply' \in [Calls -> Outcomes \cup {None}]
    BY <1>2 DEF PoolTyped
  <1>6. PoolTyped'
    BY <1>1, <1>3, <1>5 DEF PoolTyped
  <1>7. Live(t) <=> (pc[c] = "waiting" /\ Task(c) = t)
    BY <1>1, <1>4 DEF Live
  <1>8. \A s \in Pool : s[1] \in Calls
    BY <1>4 DEF Tasks
  <1>9. \A s \in Pool \ {t} : Live(s)' <=> Live(s)
    <2>1. CASE Live(t)
      <3>1. \A d \in Calls : d # c => reply'[d] = reply[d]
        BY <1>2 DEF PoolTyped
      <3>2. \A s \in Pool \ {t} : s[1] = c => s # Task(c)
        BY <1>7, <2>1
      <3>3. QED
        BY <1>1, <1>8, <3>1, <3>2 DEF Live, Task
    <2>2. CASE ~Live(t)
      BY <1>1, <1>2, <1>7, <2>2 DEF Live, Task
    <2>3. QED
      BY <2>1, <2>2
  <1>10. Orphans' = Orphans \ {t}
    <2>1. Orphans' = {s \in Pool' : ~Live(s)'}
      BY DEF Orphans
    <2>2. QED
      BY <1>4, <1>9, <2>1 DEF Orphans
  <1>11. PoolInv'
    <2>1. \A d \in Calls : reply'[d] # None => pc'[d] = "waiting" /\ Task(d)' \notin Pool'
      <3>1. SUFFICES ASSUME NEW d \in Calls, reply'[d] # None
            PROVE  pc'[d] = "waiting" /\ Task(d)' \notin Pool'
        OBVIOUS
      <3>2. CASE reply[d] # None
        BY <1>1, <1>4, <3>2 DEF Task
      <3>3. CASE reply[d] = None
        <4>1. d = c /\ Task(c) = t /\ pc[c] = "waiting"
          BY <1>2, <3>1, <3>3 DEF PoolTyped
        <4>2. QED
          BY <1>1, <1>4, <4>1 DEF Task
      <3>4. QED
        BY <3>2, <3>3
    <2>2. QED
      BY <1>1, <1>4, <1>6, <2>1
  <1>12. PoolTyped /\ IsFiniteSet(Orphans) /\ Cardinality(Orphans) \in Nat
         /\ IsFiniteSet(Paid) /\ Cardinality(Paid) \in Nat
    BY PoolFinite
  <1>13. CASE Live(t)
    <2>1. t \notin Orphans /\ Orphans' = Orphans
      BY <1>10, <1>13 DEF Orphans
    <2>2. reply[c] = None /\ reply' = [reply EXCEPT ![c] = how]
      BY <1>2, <1>7, <1>13 DEF Live
    <2>3. pc[c] = "waiting"
      BY <1>13 DEF Live
    <2>4. CASE how = "answer"
      <3>1. Paid' = Paid \cup {c} /\ c \notin Paid
        BY <1>1, <2>2, <2>3, <2>4 DEF Paid, PoolTyped, None
      <3>2. Cardinality(Paid') = Cardinality(Paid) + 1
        BY <1>12, <3>1, Grows
      <3>3. QED
        BY <1>1, <1>2, <1>3, <1>11, <1>12, <2>1, <2>4, <3>2
    <2>5. CASE how # "answer"
      <3>1. Paid' = Paid
        BY <1>1, <2>2, <2>3, <2>5 DEF Paid, PoolTyped, None
      <3>2. QED
        BY <1>1, <1>2, <1>3, <1>11, <1>12, <2>1, <2>5, <3>1
    <2>6. QED
      BY <2>4, <2>5
  <1>14. CASE ~Live(t)
    <2>1. t \in Orphans
      BY <1>4, <1>14 DEF Orphans
    <2>2. Cardinality(Orphans') = Cardinality(Orphans) - 1 /\ Cardinality(Orphans') \in Nat
      BY <1>10, <1>12, <2>1, Shrinks
    <2>3. Paid' = Paid
      BY <1>1, <1>2, <1>7, <1>14 DEF Paid
    <2>4. QED
      BY <1>1, <1>2, <1>3, <1>11, <1>12, <2>2, <2>3
  <1>15. QED
    BY <1>13, <1>14

LEMMA SpendStep == SpendInv /\ [Next]_vars => SpendInv'
  <1> SUFFICES ASSUME SpendInv, [Next]_vars PROVE SpendInv'
    OBVIOUS
  <1>1. ASSUME NEW c \in Calls,
               \/ Begin(c) \/ RetrievalFails(c) \/ SearchVector(c) \/ SearchText(c) \/ Ground(c)
               \/ CheckBudget(c) \/ BreakerRefuses(c) \/ Parse(c) \/ Return(c)
        PROVE  SpendInv'
    <2>1. /\ UNCHANGED <<reply, queue, running, costVars>>
          /\ pc[c] \notin {"waiting", "record"}
          /\ \E p \in Places \ {"waiting", "record"} :
                /\ pc' = [pc EXCEPT ![c] = p]
                /\ p \in Early => pc[c] \in Early
                /\ \/ p # "attempt" /\ attempt' = attempt
                   \/ p = "attempt" /\ pc[c] \in Early /\ attempt' = [attempt EXCEPT ![c] = 1]
      BY <1>1 DEF Begin, RetrievalFails, SearchVector, SearchText, Ground, CheckBudget, End,
                  BreakerRefuses, Parse, Return, Places, Early, poolVars
    <2>2. QED
      BY <2>1, ByTheWay
  <1>2. ASSUME NEW c \in Calls, Submit(c) \/ GetReply(c) \/ TimeOut(c) \/ Record(c) PROVE SpendInv'
    BY <1>2, SpendSubmit, SpendWait, SpendRecord
  <1>3. ASSUME NEW t \in Tasks, EndTask(t) PROVE SpendInv'
    BY <1>3, SpendEnd
  <1>4. CASE StartTask
    BY <1>4, SpendStart
  <1>5. CASE Reset \/ Truncate \/ InsertChunk \/ UNCHANGED vars
    <2>1. UNCHANGED <<pc, attempt, reply, queue, running, costVars>>
      BY <1>5, Zenon DEF Reset, Truncate, InsertChunk, vars, poolVars
    <2>2. QED
      BY <2>1 DEF SpendInv, PoolInv, PoolTyped, Pool, Queued, Orphans, Paid, Live, Task, costVars
  <1>6. QED
    BY <1>1, <1>2, <1>3, <1>4, <1>5 DEF Next, CallStep

\* complete: no charge without a row, a timeout, a failed write, or an answer
\* that is about to be recorded.
THEOREM SpendAlwaysExplained == Spec => []SpendExplained
  <1>1. SpendInv => SpendExplained
    <2> SUFFICES ASSUME SpendInv PROVE SpendExplained
      OBVIOUS
    <2>1. PoolTyped /\ Cardinality(Orphans) \in Nat /\ Cardinality(Paid) \in Nat
      BY PoolFinite DEF SpendInv, PoolInv
    <2>2. QED
      BY <2>1 DEF SpendInv, SpendExplained, Paid, PoolTyped
  <1>2. QED
    BY <1>1, SpendInit, SpendStep, PTL DEF Spec

-----------------------------------------------------------------------------
(***************************************************************************)
(* The types of the state.  A call that is given its report is given the   *)
(* outcome of the text it holds, and its text is still that one.           *)
(***************************************************************************)
Results == {None, "findings", "clean", "fallback", "unavailable", "escaped"}

Reported == \A c \in Calls : pc[c] = "return" => result[c] = Outcome(text[c])

\* The parts of TypeOK a step changes at one call, and those it leaves alone.
CallTyped ==
    /\ pc \in [Calls -> Places]
    /\ attempt \in [Calls -> 0..MaxAttempts]
    /\ reply \in [Calls -> Outcomes \cup {None}]
    /\ text \in [Calls -> Texts \cup {<<>>}]
    /\ result \in [Calls -> Results]
    /\ hits \in [Calls -> Seq(SUBSET Chunks)]
    /\ \A c \in Calls : reply[c] # None => pc[c] = "waiting"

CorpusTyped == rows \subseteq Chunks /\ seeding \in 0..MaxSeedings

TasksTyped ==
    /\ queue \in Seq(Tasks) /\ running \subseteq Tasks
    /\ Cardinality(running) <= PoolSize

CountsTyped ==
    /\ breaker \in [state : {"closed", "open", "half_open"}, failures : 0..Threshold,
                    probe : BOOLEAN]
    /\ resets \in 0..MaxResets
    /\ {abandoned, timeouts, billed, recorded, unwritten} \subseteq Nat

AnalysisInv == CallTyped /\ CorpusTyped /\ TasksTyped /\ CountsTyped /\ Reported

LEMMA TypesHold == AnalysisInv => TypeOK
  <1> SUFFICES ASSUME AnalysisInv PROVE TypeOK
    OBVIOUS
  <1>1. /\ pc \in [Calls -> {"idle", "vector", "text", "ground", "budget", "attempt", "waiting",
                            "record", "parse", "return", "done"}]
        /\ attempt \in [Calls -> 0..MaxAttempts]
        /\ reply \in [Calls -> Outcomes \cup {None}]
        /\ text \in [Calls -> Texts \cup {<<>>}]
        /\ \A c \in Calls : reply[c] # None => pc[c] = "waiting"
        /\ seeding \in 0..MaxSeedings
    BY DEF AnalysisInv, CallTyped, CorpusTyped, Places
  <1>2. result \in [Calls -> {None, "findings", "clean", "fallback", "unavailable", "escaped"}]
    BY DEF AnalysisInv, CallTyped, Results
  <1>3. rows \subseteq Chunks
    BY DEF AnalysisInv, CorpusTyped
  <1>4. hits \in [Calls -> Seq(SUBSET Chunks)]
    BY DEF AnalysisInv, CallTyped
  <1>5. /\ queue \in Seq(Tasks) /\ running \subseteq Tasks
        /\ Cardinality(running) <= PoolSize
        /\ breaker \in [state : {"closed", "open", "half_open"}, failures : 0..Threshold,
                        probe : BOOLEAN]
        /\ resets \in 0..MaxResets
        /\ {abandoned, timeouts, billed, recorded, unwritten} \subseteq Nat
    BY DEF AnalysisInv, TasksTyped, CountsTyped
  <1>6. QED
    BY <1>1, <1>2, <1>3, <1>4, <1>5, Zenon DEF TypeOK

LEMMA OutcomeKinds == \A t : Outcome(t) \in {"findings", "clean", "fallback"}
  BY DEF Outcome

LEMMA AnalysisInit == Init => AnalysisInv
  <1> SUFFICES ASSUME Init PROVE AnalysisInv
    OBVIOUS
  <1>1. CallTyped
    <2>1. <<>> \in Seq(SUBSET Chunks)
      OBVIOUS
    <2>2. QED
      BY <2>1 DEF Init, CallTyped, Places, Outcomes, Results, NoHits
  <1>2. CorpusTyped
    BY DEF Init, CorpusTyped, Chunks
  <1>3. TasksTyped
    BY FS_EmptySet DEF Init, TasksTyped
  <1>4. CountsTyped /\ Reported
    BY DEF Init, CountsTyped, Reported
  <1>5. QED
    BY <1>1, <1>2, <1>3, <1>4 DEF AnalysisInv

\* What one call's thread does to what is kept per call.
LEMMA CallStepTyped ==
  ASSUME CallTyped, CorpusTyped, Reported, NEW c \in Calls, CallStep(c)
  PROVE  CallTyped' /\ Reported'
  <1>1. ASSUME NEW p \in Places \ {"return"}, pc' = [pc EXCEPT ![c] = p],
               UNCHANGED <<reply, text>>, reply[c] # None => p = "waiting",
               NEW n \in 0..MaxAttempts, attempt' = [attempt EXCEPT ![c] = n],
               NEW h \in Seq(SUBSET Chunks), hits' = [hits EXCEPT ![c] = h],
               NEW r \in Results, result' = [result EXCEPT ![c] = r]
        PROVE  CallTyped' /\ Reported'
    BY <1>1 DEF CallTyped, Reported
  <1>2. /\ attempt[c] \in 0..MaxAttempts /\ attempt = [attempt EXCEPT ![c] = attempt[c]]
        /\ hits[c] \in Seq(SUBSET Chunks) /\ hits = [hits EXCEPT ![c] = hits[c]]
        /\ result[c] \in Results /\ result = [result EXCEPT ![c] = result[c]]
        /\ reply[c] # None => pc[c] = "waiting"
        /\ NoHits \in Seq(SUBSET Chunks) /\ <<rows>> \in Seq(SUBSET Chunks)
        /\ Append(hits[c], rows) \in Seq(SUBSET Chunks)
    <2> HIDE DEF Chunks
    <2>1. rows \in SUBSET Chunks
      BY DEF CorpusTyped
    <2>2. QED
      BY <2>1 DEF CallTyped, NoHits
  <1>3. CASE Begin(c) \/ RetrievalFails(c) \/ SearchVector(c) \/ SearchText(c) \/ Ground(c)
             \/ Submit(c) \/ Record(c)
    <2>1. /\ UNCHANGED <<reply, text, attempt, result>>
          /\ pc[c] # "waiting"
          /\ \E p \in Places \ {"return"} : pc' = [pc EXCEPT ![c] = p]
          /\ \E h \in Seq(SUBSET Chunks) : hits' = [hits EXCEPT ![c] = h]
      BY <1>2, <1>3 DEF Begin, RetrievalFails, SearchVector, SearchText, Ground, Submit, Record,
                        Places
    <2>2. QED
      BY <1>1, <1>2, <2>1
  <1>4. CASE CheckBudget(c) \/ BreakerRefuses(c)
    <2>1. /\ UNCHANGED <<reply, text, hits>>
          /\ pc[c] # "waiting"
          /\ \E p \in Places \ {"return"} : pc' = [pc EXCEPT ![c] = p]
          /\ \E n \in 0..MaxAttempts : attempt' = [attempt EXCEPT ![c] = n]
          /\ \E r \in Results : result' = [result EXCEPT ![c] = r]
      <3>1. CASE CheckBudget(c)
        <4>1. UNCHANGED <<reply, text, hits>> /\ pc[c] = "budget"
          BY <3>1 DEF CheckBudget
        <4>2. \/ /\ pc' = [pc EXCEPT ![c] = "attempt"] /\ attempt' = [attempt EXCEPT ![c] = 1]
                 /\ result' = result
              \/ End(c, "unavailable") /\ attempt' = attempt
              \/ End(c, "escaped") /\ attempt' = attempt
          BY <3>1, Zenon DEF CheckBudget
        <4>3. {"attempt", "done"} \subseteq Places \ {"return"} /\ 1 \in 0..MaxAttempts
              /\ {"unavailable", "escaped"} \subseteq Results
          BY DEF Places, Results
        <4>4. QED
          BY <1>2, <4>1, <4>2, <4>3 DEF End
      <3>2. CASE BreakerRefuses(c)
        BY <1>2, <3>2 DEF BreakerRefuses, End, Places, Results
      <3>3. QED
        BY <1>4, <3>1, <3>2
    <2>2. QED
      BY <1>1, <1>2, <2>1
  <1>5. CASE GetReply(c) \/ TimeOut(c)
    <2>1. /\ UNCHANGED <<text, hits>> /\ reply' = [reply EXCEPT ![c] = None]
          /\ \E p \in Places \ {"return"} : pc' = [pc EXCEPT ![c] = p]
          /\ \E n \in 0..MaxAttempts : attempt' = [attempt EXCEPT ![c] = n]
          /\ \E r \in Results : result' = [result EXCEPT ![c] = r]
      BY <1>2, <1>5 DEF GetReply, TimeOut, RetryOrGiveUp, End, Places, Results, CallTyped
    <2>2. QED
      BY <2>1, <1>2 DEF CallTyped, Reported
  <1>6. CASE Parse(c)
    <2>1. /\ UNCHANGED <<attempt, hits, reply>> /\ pc' = [pc EXCEPT ![c] = "return"]
          /\ pc[c] = "parse" /\ result' = [result EXCEPT ![c] = Outcome(text'[c])]
      BY <1>6 DEF Parse
    <2>2. PICK t \in Texts : text' = [text EXCEPT ![c] = t]
      BY <1>6 DEF Parse
    <2>3. text'[c] = t /\ Outcome(t) \in Results
      BY <2>2, OutcomeKinds DEF CallTyped, Results
    <2>4. CallTyped'
      BY <2>1, <2>2, <2>3 DEF CallTyped, Places
    <2>5. Reported'
      BY <2>1, <2>2, <2>3 DEF CallTyped, Reported
    <2>6. QED
      BY <2>4, <2>5
  <1>7. CASE Return(c)
    BY <1>7 DEF Return, CallTyped, Reported, Places
  <1>8. QED
    BY <1>3, <1>4, <1>5, <1>6, <1>7 DEF CallStep

\* That a task that is submitted has a number is in SpendInv.
LEMMA AnalysisStep == AnalysisInv /\ SpendInv /\ [Next]_vars => AnalysisInv'
  <1> SUFFICES ASSUME AnalysisInv, SpendInv, [Next]_vars PROVE AnalysisInv'
    OBVIOUS
  <1> USE DEF AnalysisInv
  <1>2. CASE \E c \in Calls : CallStep(c)
    <2>1. PICK c \in Calls : CallStep(c)
      BY <1>2
    <2>2. CallTyped' /\ Reported'
      BY <2>1, CallStepTyped
    <2>3. CorpusTyped'
      BY <2>1 DEF CallStep, CorpusTyped, corpusVars, Begin, RetrievalFails, SearchVector,
                  SearchText, Ground, CheckBudget, Submit, BreakerRefuses, GetReply, TimeOut,
                  Record, Parse, Return
    <2>4. /\ running' = running
          /\ queue' = queue \/ queue' = Append(queue, Task(c))
      BY <2>1 DEF CallStep, poolVars, Begin, RetrievalFails, SearchVector, SearchText, Ground,
                  CheckBudget, Submit, BreakerRefuses, GetReply, TimeOut, Record, Parse, Return
    <2>5. CountsTyped'
      <3> USE DEF CountsTyped, breakerVars, costVars
      <3>1. CASE Submit(c)
        <4>1. breaker' = [state |-> breaker.state, failures |-> breaker.failures,
                          probe |-> breaker.probe \/ breaker.state = "half_open"]
          BY <3>1 DEF Submit
        <4>2. UNCHANGED <<resets, abandoned, costVars>>
          BY <3>1 DEF Submit
        <4>3. QED
          BY <4>1, <4>2
      <3>2. CASE Record(c)
        BY <3>2 DEF Record
      <3>4. CASE GetReply(c) \/ TimeOut(c)
        <4>1. /\ UNCHANGED <<resets, billed, recorded, unwritten>>
              /\ timeouts' = timeouts \/ timeouts' = timeouts + 1
              /\ abandoned' = 0 \/ abandoned' = abandoned \/ abandoned' = abandoned + 1
          BY <3>4 DEF GetReply, TimeOut
        <4>2. Failed \/ Succeeded
          BY <3>4 DEF GetReply, TimeOut
        <4>3. breaker' \in [state : {"closed", "open", "half_open"}, failures : 0..Threshold,
                            probe : BOOLEAN]
          <5>1. CASE Failed
            BY <5>1 DEF Failed
          <5>2. CASE Succeeded
            BY <5>2 DEF Succeeded
          <5>3. QED
            BY <4>2, <5>1, <5>2
        <4>4. QED
          BY <4>1, <4>3
      <3>3. CASE UNCHANGED <<breakerVars, costVars>>
        BY <3>3 DEF CountsTyped, breakerVars, costVars
      <3>5. QED
        <4>1. \/ Submit(c) \/ Record(c) \/ GetReply(c) \/ TimeOut(c)
              \/ UNCHANGED <<breakerVars, costVars>>
          BY <2>1, Zenon DEF CallStep, Begin, RetrievalFails, SearchVector, SearchText, Ground,
                  CheckBudget, BreakerRefuses, Parse, Return
        <4>2. QED
          BY <3>1, <3>2, <3>3, <3>4, <4>1, Zenon
    <2>6. TasksTyped'
      <3>1. CASE queue' = queue
        BY <2>4, <3>1 DEF TasksTyped
      <3>2. CASE queue' # queue
        <4>1. Submit(c)
          BY <2>1, <3>2 DEF CallStep, poolVars, Begin, RetrievalFails, SearchVector, SearchText,
                Ground, CheckBudget, BreakerRefuses, GetReply, TimeOut, Record, Parse, Return
        <4>2. attempt[c] > 0 /\ attempt[c] \in 0..MaxAttempts
          BY <4>1 DEF Submit, CallTyped, SpendInv, PoolInv
        <4>3. Task(c) \in Tasks
          BY <4>2 DEF Task, Tasks
        <4>4. QED
          BY <2>4, <4>3 DEF TasksTyped
      <3>3. QED
        BY <3>1, <3>2
    <2>7. QED
      BY <2>2, <2>3, <2>5, <2>6
  <1>3. CASE StartTask
    <2>2. IsFiniteSet(running) /\ Cardinality(running) \in Nat
      BY TasksFinite, FS_Subset, FS_CardinalityType DEF TasksTyped
    <2>3. TasksTyped'
      <3>1. Head(queue) \in Tasks /\ Tail(queue) \in Seq(Tasks)
        BY <1>3 DEF StartTask, TasksTyped
      <3>2. Cardinality(running') <= Cardinality(running) + 1
        BY <1>3, <2>2, Grows DEF StartTask
      <3>3. Cardinality(running') \in Nat
        BY <1>3, <2>2, Grows DEF StartTask
      <3>4. QED
        BY <1>3, <2>2, <3>1, <3>2, <3>3 DEF StartTask, TasksTyped
    <2>4. UNCHANGED <<pc, attempt, hits, reply, text, result, corpusVars, breakerVars, costVars>>
      BY <1>3 DEF StartTask
    <2>5. QED
      BY <2>3, <2>4 DEF CallTyped, CorpusTyped, CountsTyped, Reported, corpusVars,
                              breakerVars, costVars
  <1>4. CASE \E t \in Tasks : EndTask(t)
    <2>1. PICK t \in Tasks : EndTask(t)
      BY <1>4
    <2>2. /\ t \in running /\ running' = running \ {t} /\ t[1] \in Calls
          /\ UNCHANGED <<pc, attempt, hits, text, result, corpusVars, queue, breakerVars,
                         timeouts, recorded, unwritten>>
      BY <2>1 DEF EndTask, Tasks
    <2>3. PICK how \in Outcomes :
              /\ billed' = IF how = "answer" THEN billed + 1 ELSE billed
              /\ reply' = IF pc[t[1]] = "waiting" /\ Task(t[1]) = t
                          THEN [reply EXCEPT ![t[1]] = how] ELSE reply
      BY <2>1 DEF EndTask
    <2>4. TasksTyped'
      <3>1. IsFiniteSet(running)
        BY TasksFinite, FS_Subset DEF TasksTyped
      <3>2. Cardinality(running') = Cardinality(running) - 1 /\ Cardinality(running) \in Nat
        BY <2>2, <3>1, Shrinks
      <3>3. QED
        BY <2>2, <3>2 DEF TasksTyped
    <2>5. CallTyped' /\ Reported'
      BY <2>2, <2>3 DEF CallTyped, Reported
    <2>6. CorpusTyped' /\ CountsTyped'
      BY <2>2, <2>3 DEF CorpusTyped, CountsTyped, corpusVars, breakerVars
    <2>7. QED
      BY <2>4, <2>5, <2>6
  <1>5. CASE Reset
    <2>1. CountsTyped'
      <3>1. breaker' = [state |-> "half_open", failures |-> breaker.failures, probe |-> FALSE]
        BY <1>5 DEF Reset, CountsTyped
      <3>2. breaker.failures \in 0..Threshold
        BY DEF CountsTyped
      <3>3. breaker' \in [state : {"closed", "open", "half_open"}, failures : 0..Threshold,
                          probe : BOOLEAN]
        BY <3>1, <3>2
      <3>4. resets' \in 0..MaxResets
        BY <1>5 DEF Reset, CountsTyped
      <3>5. QED
        BY <1>5, <3>3, <3>4 DEF Reset, CountsTyped, costVars
    <2>2. QED
      BY <1>5, <2>1 DEF Reset, CallTyped, CorpusTyped, TasksTyped, Reported, corpusVars,
                              poolVars
  <1>6. CASE Truncate \/ InsertChunk
    <2>1. UNCHANGED <<pc, attempt, hits, reply, text, result, poolVars, breakerVars, costVars>>
      BY <1>6, Zenon DEF Truncate, InsertChunk
    <2>2. CorpusTyped'
      <3>1. CASE Truncate
        BY <3>1 DEF Truncate, CorpusTyped
      <3>2. CASE InsertChunk
        BY <3>2 DEF InsertChunk, CorpusTyped, Chunks
      <3>3. QED
        BY <1>6, <3>1, <3>2
    <2>3. QED
      BY <2>1, <2>2 DEF CallTyped, TasksTyped, CountsTyped, Reported, poolVars,
                              breakerVars, costVars
  <1>7. CASE UNCHANGED vars
    BY <1>7 DEF vars, CallTyped, CorpusTyped, TasksTyped, CountsTyped, Reported, corpusVars,
                      poolVars, breakerVars, costVars
  <1>8. QED
    BY <1>2, <1>3, <1>4, <1>5, <1>6, <1>7 DEF Next

\* The state of base_agent.py, llm_client.py and timeout.py keeps its types.
THEOREM AnalysisTypeCorrect == Spec => []TypeOK
  BY TypesHold, AnalysisInit, AnalysisStep, SpendInit, SpendStep, PTL DEF Spec

LEMMA OutcomeSound ==
  ASSUME NEW t
  PROVE  /\ Outcome(t) = "clean" => \E i \in DOMAIN t : t[i].items = <<>>
         /\ (\E items \in Lists(Payload(t)) : "valid" \in ToSet(items)) => Outcome(t) = "findings"
  <1>1. (\E items \in Lists(Payload(t)) : "valid" \in ToSet(items)) => Outcome(t) = "findings"
    <2>1. SUFFICES ASSUME NEW items \in Lists(Payload(t)), "valid" \in ToSet(items)
          PROVE  Outcome(t) = "findings"
      OBVIOUS
    <2>2. "valid" \notin ToSet(<<>>)
      BY DEF ToSet
    <2>3. \A other \in Lists(Payload(t)) : other = items
      BY DEF Lists, Payload
    <2>4. ~ \E other \in Lists(Payload(t)) : other = <<>>
      BY <2>1, <2>2, <2>3
    <2>5. QED
      BY <2>1, <2>4 DEF Outcome
  <1>2. Outcome(t) = "clean" => \E items \in Lists(Payload(t)) : items = <<>>
    BY DEF Outcome
  <1>3. \A items \in Lists(Payload(t)) : \E i \in DOMAIN t : items = t[i].items
    BY DEF Lists, Payload
  <1>4. QED
    BY <1>1, <1>2, <1>3

\* parse_findings_from_llm_response: whatever the model sends, a report is
\* clean only on an empty list, and a list that leads with a valid finding
\* yields findings.
THEOREM CleanAlwaysEmpty == Spec => []CleanOnlyIfEmpty
  <1>1. AnalysisInv => CleanOnlyIfEmpty
    BY OutcomeSound DEF AnalysisInv, Reported, CleanOnlyIfEmpty
  <1>2. QED
    BY <1>1, AnalysisInit, AnalysisStep, SpendInit, SpendStep, PTL DEF Spec

-----------------------------------------------------------------------------
(* Retrieval: sorting a finite set by an order on it.                       *)

\* A strict total order on S, as pairs.
Orders(R, S) ==
    /\ \A x \in S : <<x, x>> \notin R
    /\ \A x, y, z \in S : <<x, y>> \in R /\ <<y, z>> \in R => <<x, z>> \in R
    /\ \A x, y \in S : x # y => <<x, y>> \in R \/ <<y, x>> \in R

\* The elements of S before x.
Below(S, R, x) == {y \in S : <<y, x>> \in R}

\* InOrder takes each element once, and no element comes before its time.
LEMMA BelowCounts ==
  ASSUME NEW S, IsFiniteSet(S), NEW R, Orders(R, S)
  PROVE  /\ \A x \in S : Cardinality(Below(S, R, x)) \in 0..Cardinality(S) - 1
         /\ \A x, y \in S :
               <<x, y>> \in R <=> Cardinality(Below(S, R, x)) < Cardinality(Below(S, R, y))
  <1> DEFINE n(x) == Cardinality(Below(S, R, x))
  <1>1. Cardinality(S) \in Nat
    BY FS_CardinalityType
  <1>2. \A T \in SUBSET S : IsFiniteSet(T) /\ Cardinality(T) \in Nat
    BY FS_Subset, FS_CardinalityType
  <1>3. \A T \in SUBSET S : \A U \in SUBSET T : U # T => Cardinality(U) < Cardinality(T)
    <2> SUFFICES ASSUME NEW T \in SUBSET S, NEW U \in SUBSET T, U # T
                 PROVE  Cardinality(U) < Cardinality(T)
      OBVIOUS
    <2>1. IsFiniteSet(T) /\ Cardinality(T) \in Nat /\ Cardinality(U) \in Nat
      BY <1>2
    <2>2. Cardinality(U) <= Cardinality(T) /\ Cardinality(U) # Cardinality(T)
      BY <2>1, FS_Subset
    <2>3. QED
      BY <2>1, <2>2
  <1>4. ASSUME NEW x \in S PROVE n(x) \in 0..Cardinality(S) - 1
    <2>1. Below(S, R, x) \in SUBSET S /\ x \notin Below(S, R, x)
      BY DEF Below, Orders
    <2>2. Cardinality(Below(S, R, x)) \in Nat /\ Cardinality(Below(S, R, x)) < Cardinality(S)
      BY <1>2, <1>3, <2>1
    <2>3. QED
      BY <1>1, <2>2
  <1>5. ASSUME NEW x \in S, NEW y \in S, <<x, y>> \in R PROVE n(x) < n(y)
    <2>1. /\ Below(S, R, y) \in SUBSET S
          /\ Below(S, R, x) \in SUBSET Below(S, R, y)
          /\ Below(S, R, x) # Below(S, R, y)
      <3>1. x \in Below(S, R, y) /\ x \notin Below(S, R, x)
        BY <1>5 DEF Below, Orders
      <3>2. QED
        BY <1>5, <3>1 DEF Below, Orders
    <2>2. QED
      BY <1>3, <2>1
  <1>6. ASSUME NEW x \in S, NEW y \in S, n(x) < n(y) PROVE <<x, y>> \in R
    <2>1. n(x) \in Int /\ n(y) \in Int
      BY <1>4
    <2> HIDE DEF n
    <2>2. x # y /\ ~(<<y, x>> \in R)
      BY <1>5, <1>6, <2>1
    <2>3. QED
      BY <2>2 DEF Orders
  <1>7. QED
    BY <1>4, <1>5, <1>6

LEMMA InOrderSound ==
  ASSUME NEW S, IsFiniteSet(S), NEW R, Orders(R, S)
  PROVE  LET t == InOrder(S, R)
         IN  /\ t \in Seq(S) /\ Len(t) = Cardinality(S) /\ Cardinality(S) \in Nat
             /\ \A i, j \in DOMAIN t : i < j => <<t[i], t[j]>> \in R
             /\ \A x \in S : \E i \in DOMAIN t : t[i] = x
  <1> DEFINE m == Cardinality(S)
             T == 0..m - 1
             f == [x \in S |-> Cardinality(Below(S, R, x))]
             t == InOrder(S, R)
  <1>1. m \in Nat
    BY FS_CardinalityType
  <1>2. \A x \in S : f[x] \in T
    BY BelowCounts
  <1>3. \A x, y \in S : <<x, y>> \in R <=> f[x] < f[y]
    BY BelowCounts
  <1>4. t = [k \in 1..m |-> CHOOSE x \in S : Cardinality(Below(S, R, x)) = k - 1]
    BY DEF InOrder, Below
  <1>5. IsFiniteSet(T) /\ Cardinality(T) = m
    <2>1. IsFiniteSet(T) /\ Cardinality(T) = IF 0 > m - 1 THEN 0 ELSE (m - 1) - 0 + 1
      BY <1>1, FS_Interval
    <2>2. QED
      BY <1>1, <2>1
  <1>6. f \in Surjection(S, T)
    <2>1. \A x, y \in S : x # y => f[x] # f[y]
      <3>1. \A x \in S : f[x] \in Int
        BY <1>1, <1>2
      <3>2. \A x, y \in S : x # y => f[x] < f[y] \/ f[y] < f[x]
        BY <1>3 DEF Orders
      <3> HIDE DEF f
      <3>3. QED
        BY <3>1, <3>2
    <2>2. f \in [S -> T]
      BY <1>2
    <2>3. f \in Injection(S, T)
      BY <2>1, <2>2 DEF Injection, IsInjective
    <2>4. QED
      BY <1>5, <2>3, FS_Injection
  <1> HIDE DEF f, t
  <1>7. ASSUME NEW k \in 1..m PROVE t[k] \in S /\ f[t[k]] = k - 1
    <2>1. k - 1 \in T
      BY <1>1
    <2>2. PICK x \in S : f[x] = k - 1
      BY <1>6, <2>1 DEF Surjection
    <2>3. Cardinality(Below(S, R, x)) = k - 1
      BY <2>2 DEF f
    <2>4. t[k] = CHOOSE y \in S : Cardinality(Below(S, R, y)) = k - 1
      BY <1>4
    <2>5. t[k] \in S /\ Cardinality(Below(S, R, t[k])) = k - 1
      BY <2>3, <2>4
    <2>6. QED
      BY <2>5 DEF f
  <1>8. t \in [1..m -> S] /\ DOMAIN t = 1..m
    BY <1>4, <1>7
  <1>9. t \in Seq(S) /\ Len(t) = m
    BY <1>1, <1>8
  <1>10. \A i, j \in DOMAIN t : i < j => <<t[i], t[j]>> \in R
    BY <1>1, <1>3, <1>7, <1>8
  <1>11. ASSUME NEW x \in S PROVE \E i \in DOMAIN t : t[i] = x
    <2>1. f[x] \in T /\ f[x] + 1 \in 1..m
      BY <1>1, <1>2
    <2>2. PICK k \in 1..m : k = f[x] + 1
      BY <2>1
    <2>3. t[k] \in S /\ f[t[k]] = f[x]
      BY <1>7, <2>1, <2>2
    <2>4. ~(f[x] < f[x])
      BY <1>1, <1>2
    <2>5. t[k] = x
      BY <1>3, <2>3, <2>4 DEF Orders
    <2>6. QED
      BY <1>8, <2>5
  <1>12. QED
    BY <1>1, <1>9, <1>10, <1>11 DEF t

LEMMA RankIs ==
  ASSUME NEW X, NEW s \in Seq(X), NEW x \in ToSet(s)
  PROVE  Rank(s, x) \in 1..Len(s) /\ s[Rank(s, x)] = x /\ x \in X
  <1>1. DOMAIN s = 1..Len(s) /\ \A i \in DOMAIN s : s[i] \in X
    OBVIOUS
  <1>2. \E i \in DOMAIN s : s[i] = x
    BY DEF ToSet
  <1>3. QED
    BY <1>1, <1>2 DEF Rank

\* The rows of code_chunks, and a ranking of some of them.
Stored == [path : Paths, seeding : Nat]
Ranking(s) == s \in Seq(Stored) /\ \A i, j \in DOMAIN s : i # j => s[i] # s[j]

LEMMA FirstOfSound ==
  ASSUME NEW X, NEW s \in Seq(X), NEW n \in Nat
  PROVE  LET t == FirstOf(s, n)
         IN  /\ t \in Seq(X) /\ Len(t) \in Nat /\ DOMAIN t \subseteq DOMAIN s
             /\ \A i \in DOMAIN t : t[i] = s[i]
  BY DEF FirstOf

\* A search returns rows of the table it reads, and none of them twice.
LEMMA RankedRowsSound ==
  ASSUME NEW order \in {ByVector, ByText}, NEW table \in SUBSET Stored, IsFiniteSet(table)
  PROVE  Ranking(RankedRows(order, table)) /\ ToSet(RankedRows(order, table)) \subseteq table
  <1> DEFINE place(c) == Rank(order, c.path)
             better == {p \in table \X table :
                          \/ place(p[1]) < place(p[2])
                          \/ place(p[1]) = place(p[2]) /\ p[1].seeding < p[2].seeding}
             s == InOrder(table, better)
             t == FirstOf(s, Candidates)
  <1>1. order \in Seq(Paths) /\ ToSet(order) = Paths
    BY RetrievalConfig
  <1>2. ASSUME NEW c \in table
        PROVE  place(c) \in Nat /\ c.seeding \in Nat /\ order[place(c)] = c.path
               /\ c = [path |-> c.path, seeding |-> c.seeding]
    <2>1. c \in Stored
      OBVIOUS
    <2>2. c.path \in ToSet(order) /\ c.seeding \in Nat
          /\ c = [path |-> c.path, seeding |-> c.seeding]
      BY <1>1, <2>1 DEF Stored
    <2>3. QED
      BY <1>1, <2>2, RankIs
  <1> HIDE DEF place
  <1>3. Orders(better, table)
    <2>1. \A x \in table : <<x, x>> \notin better
      BY <1>2
    <2>2. \A x, y, z \in table : <<x, y>> \in better /\ <<y, z>> \in better => <<x, z>> \in better
      BY <1>2
    <2>3. ASSUME NEW x \in table, NEW y \in table, x # y
          PROVE  <<x, y>> \in better \/ <<y, x>> \in better
      <3>1. place(x) # place(y) \/ x.seeding # y.seeding
        BY <1>2, <2>3
      <3>2. QED
        BY <1>2, <3>1
    <2>4. QED
      BY <2>1, <2>2, <2>3 DEF Orders
  <1>4. RankedRows(order, table) = t
    BY DEF RankedRows, place
  <1> HIDE DEF better
  <1>5. s \in Seq(table) /\ \A i, j \in DOMAIN s : i < j => <<s[i], s[j]>> \in better
    BY <1>3, InOrderSound
  <1> HIDE DEF s
  <1>6. \A i, j \in DOMAIN s : i # j => s[i] # s[j]
    <2>1. \A i, j \in DOMAIN s : i < j => s[i] # s[j]
      <3>1. \A i \in DOMAIN s : s[i] \in table
        BY <1>5
      <3>2. QED
        BY <1>3, <1>5, <3>1 DEF Orders
    <2>2. DOMAIN s \subseteq Nat
      BY <1>5
    <2>3. QED
      BY <2>1, <2>2
  <1>7. /\ t \in Seq(table) /\ DOMAIN t \subseteq DOMAIN s
        /\ \A i \in DOMAIN t : t[i] = s[i]
    BY <1>5, RetrievalConfig, FirstOfSound
  <1> HIDE DEF t
  <1>8. t \in Seq(Stored) /\ ToSet(t) \subseteq table
    BY <1>7 DEF ToSet
  <1>9. QED
    BY <1>4, <1>6, <1>7, <1>8 DEF Ranking

-----------------------------------------------------------------------------
(* Scores are compared as fractions, by multiplying crosswise.              *)

LEMMA Times ==
  ASSUME NEW x \in Nat, NEW y \in Nat, NEW z \in Nat \ {0}
  PROVE  /\ x < y <=> x * z < y * z
         /\ x <= y <=> x * z <= y * z
         /\ x * z \in Nat /\ y * z \in Nat /\ x * z = z * x
  OBVIOUS

LEMMA Crosswise ==
  ASSUME NEW a \in Nat, NEW b \in Nat \ {0}, NEW c \in Nat, NEW d \in Nat \ {0},
         NEW e \in Nat, NEW f \in Nat \ {0}, c * b <= a * d, e * d <= c * f
  PROVE  /\ e * b <= a * f
         /\ c * b < a * d \/ e * d < c * f => e * b < a * f
  <1>1. {c * b, a * d, e * d, c * f, e * b, a * f} \subseteq Nat
    BY Times
  <1>2. /\ (c * b) * f <= (a * d) * f /\ (c * b < a * d => (c * b) * f < (a * d) * f)
        /\ (e * d) * b <= (c * f) * b /\ (e * d < c * f => (e * d) * b < (c * f) * b)
    BY <1>1, Times
  <1>3. (c * b) * f = (c * f) * b /\ (a * d) * f = (a * f) * d /\ (e * d) * b = (e * b) * d
    OBVIOUS
  <1>4. {(c * f) * b, (a * f) * d, (e * b) * d} \subseteq Nat
    BY <1>1, Times
  <1>5. (e * b) * d <= (a * f) * d
        /\ (c * b < a * d \/ e * d < c * f => (e * b) * d < (a * f) * d)
    BY <1>2, <1>3, <1>4
  <1>6. QED
    BY <1>1, <1>5, Times

\* The places of a chunk in the rankings that have it, shifted by k.
LEMMA RanksOf ==
  ASSUME NEW s, Ranking(s)
  PROVE  /\ \A c \in ToSet(s) : /\ RrfK + Rank(s, c) \in Nat \ {0}
                                /\ Rank(s, c) \in 1..Len(s) /\ c \in Stored
         /\ \A c, d \in ToSet(s) : c # d => Rank(s, c) # Rank(s, d)
  <1>1. s \in Seq(Stored) /\ Len(s) \in Nat
    BY DEF Ranking
  <1>2. \A c \in ToSet(s) : Rank(s, c) \in 1..Len(s) /\ s[Rank(s, c)] = c /\ c \in Stored
    BY <1>1, RankIs
  <1>3. RrfK \in Nat
    BY RetrievalConfig
  <1>4. QED
    BY <1>1, <1>2, <1>3

LEMMA ScoreIs ==
  ASSUME NEW v, Ranking(v), NEW t, Ranking(t), NEW c \in ToSet(v) \cup ToSet(t)
  PROVE  /\ Score(v, t, c).num \in Nat \ {0} /\ Score(v, t, c).den \in Nat \ {0}
         /\ Entry(v, t, c) \in Nat
  <1> DEFINE a == RrfK + Rank(v, c)
             b == RrfK + Rank(t, c)
  <1>1. c \in ToSet(v) => a \in Nat \ {0} /\ Rank(v, c) \in Nat
    BY RanksOf
  <1>2. c \in ToSet(t) => b \in Nat \ {0} /\ Rank(t, c) \in Nat
    BY RanksOf
  <1>3. Len(v) \in Nat
    BY DEF Ranking
  <1>4. Score(v, t, c) = IF c \notin ToSet(t) THEN [num |-> 1, den |-> a]
                         ELSE IF c \notin ToSet(v) THEN [num |-> 1, den |-> b]
                         ELSE [num |-> a + b, den |-> a * b]
    BY DEF Score
  <1> HIDE DEF a, b
  <1>5. a \in Nat \ {0} /\ b \in Nat \ {0} => a * b \in Nat \ {0}
    OBVIOUS
  <1>6. Score(v, t, c).num \in Nat \ {0} /\ Score(v, t, c).den \in Nat \ {0}
    BY <1>1, <1>2, <1>4, <1>5
  <1>7. Entry(v, t, c) \in Nat
    BY <1>1, <1>2, <1>3 DEF Entry
  <1>8. QED
    BY <1>6, <1>7

LEMMA EntriesDiffer ==
  ASSUME NEW v, Ranking(v), NEW t, Ranking(t),
         NEW c \in ToSet(v) \cup ToSet(t), NEW d \in ToSet(v) \cup ToSet(t), c # d
  PROVE  Entry(v, t, c) # Entry(v, t, d)
  <1>1. Len(v) \in Nat /\ Len(t) \in Nat
    BY DEF Ranking
  <1>2. \A x \in ToSet(v) : Rank(v, x) \in 1..Len(v)
    BY RanksOf
  <1>3. \A x \in ToSet(t) : Rank(t, x) \in 1..Len(t)
    BY RanksOf
  <1>4. c \in ToSet(v) /\ d \in ToSet(v) => Rank(v, c) # Rank(v, d)
    BY RanksOf
  <1>5. c \in ToSet(t) /\ d \in ToSet(t) => Rank(t, c) # Rank(t, d)
    BY RanksOf
  <1>6. QED
    BY <1>1, <1>2, <1>3, <1>4, <1>5 DEF Entry

\* The sort of reciprocal_rank_fusion has one result.
LEMMA FrontOrders ==
  ASSUME NEW v, Ranking(v), NEW t, Ranking(t)
  PROVE  LET S == ToSet(v) \cup ToSet(t)
         IN  Orders({p \in S \X S : InFront(v, t, p[1], p[2])}, S)
  <1> DEFINE S == ToSet(v) \cup ToSet(t)
             n(x) == Score(v, t, x).num
             m(x) == Score(v, t, x).den
             e(x) == Entry(v, t, x)
  <1>1. \A x \in S : n(x) \in Nat /\ m(x) \in Nat \ {0} /\ e(x) \in Nat
    BY ScoreIs
  <1>2. \A x, y \in S : x # y => e(x) # e(y)
    BY EntriesDiffer
  <1>3. \A x, y \in S : InFront(v, t, x, y)
                          <=> \/ n(y) * m(x) < n(x) * m(y)
                              \/ n(x) * m(y) = n(y) * m(x) /\ e(x) < e(y)
    <2> SUFFICES ASSUME NEW x \in S, NEW y \in S
                 PROVE  InFront(v, t, x, y)
                          <=> \/ n(y) * m(x) < n(x) * m(y)
                              \/ n(x) * m(y) = n(y) * m(x) /\ e(x) < e(y)
      OBVIOUS
    <2>1. n(y) * m(x) \in Nat /\ n(x) * m(y) \in Nat
      BY <1>1, Times
    <2>2. n(x) * m(y) > n(y) * m(x) <=> n(y) * m(x) < n(x) * m(y)
      BY <2>1
    <2>3. QED
      BY <2>2 DEF InFront
  <1> HIDE DEF S, n, m, e
  <1>4. \A x, y \in S : n(x) * m(y) \in Nat
    BY <1>1, Times
  <1>5. \A x \in S : ~InFront(v, t, x, x)
    BY <1>1, <1>3, <1>4
  <1>6. \A x, y \in S : x # y => InFront(v, t, x, y) \/ InFront(v, t, y, x)
    BY <1>1, <1>2, <1>3, <1>4
  <1>7. ASSUME NEW x \in S, NEW y \in S, NEW z \in S, InFront(v, t, x, y), InFront(v, t, y, z)
        PROVE  InFront(v, t, x, z)
    <2>1. /\ n(y) * m(x) <= n(x) * m(y) /\ n(z) * m(y) <= n(y) * m(z)
          /\ \/ n(y) * m(x) < n(x) * m(y)
             \/ n(z) * m(y) < n(y) * m(z)
             \/ e(x) < e(y) /\ e(y) < e(z)
      BY <1>3, <1>4, <1>7
    <2>2. /\ n(z) * m(x) <= n(x) * m(z)
          /\ \/ n(z) * m(x) < n(x) * m(z)
             \/ e(x) < e(y) /\ e(y) < e(z)
      BY <1>1, <2>1, Crosswise
    <2>3. e(x) < e(y) /\ e(y) < e(z) => e(x) < e(z)
      BY <1>1
    <2>4. QED
      BY <1>3, <1>4, <2>2, <2>3
  <1>8. QED
    BY <1>5, <1>6, <1>7 DEF Orders, S

LEMMA HigherScores ==
  ASSUME NEW a \in Nat \ {0}, NEW b \in Nat \ {0}, NEW c \in Nat \ {0}, NEW d \in Nat \ {0}
  PROVE  /\ c < a => c * d < (c + d) * a
         /\ d < b => c * d < (c + d) * b
         /\ c < a /\ d < b => (a + b) * (c * d) < (c + d) * (a * b)
  <1>1. /\ {c * d, c * a, d * a, c * b, d * b, a * b} \subseteq Nat \ {0}
        /\ (c + d) * a = c * a + d * a /\ (c + d) * b = c * b + d * b
    OBVIOUS
  <1>2. c < a => c * d < (c + d) * a
    <2>1. c < a => c * d < a * d
      BY Times
    <2>2. a * d = d * a
      OBVIOUS

    <2>3. QED
      BY <1>1, <2>1, <2>2
  <1>3. d < b => c * d < (c + d) * b
    <2>1. d < b => d * c < b * c
      BY Times
    <2>2. b * c = c * b /\ d * c = c * d
      OBVIOUS
    <2>3. QED
      BY <1>1, <2>1, <2>2
  <1>4. ASSUME c < a, d < b PROVE (a + b) * (c * d) < (c + d) * (a * b)
    <2>1. d * (a * c) < b * (a * c) /\ c * (b * d) < a * (b * d)
      <3>1. a * c \in Nat \ {0} /\ b * d \in Nat \ {0}
        OBVIOUS
      <3>2. QED
        BY <1>4, <3>1, Times
    <2>2. /\ (a + b) * (c * d) = d * (a * c) + c * (b * d)
          /\ (c + d) * (a * b) = b * (a * c) + a * (b * d)
      OBVIOUS
    <2>3. {d * (a * c), b * (a * c), c * (b * d), a * (b * d)} \subseteq Int
      OBVIOUS
    <2>4. QED
      BY <2>1, <2>2, <2>3
  <1>5. QED
    BY <1>2, <1>3, <1>4

Ahead(s, x, y) == x \in ToSet(s) /\ (y \in ToSet(s) => Rank(s, x) < Rank(s, y))

\* A chunk that no ranking puts ahead of another has the lower score.
LEMMA FrontIsAhead ==
  ASSUME NEW v, Ranking(v), NEW t, Ranking(t),
         NEW x \in ToSet(v) \cup ToSet(t), NEW y \in ToSet(v) \cup ToSet(t),
         x # y, InFront(v, t, x, y)
  PROVE  Ahead(v, x, y) \/ Ahead(t, x, y)
  <1> DEFINE av(c) == RrfK + Rank(v, c)
             at(c) == RrfK + Rank(t, c)
             n(c) == Score(v, t, c).num
             m(c) == Score(v, t, c).den
             V == ToSet(v)
             T == ToSet(t)
  <1>1. SUFFICES ASSUME ~Ahead(v, x, y), ~Ahead(t, x, y) PROVE FALSE
    OBVIOUS
  <1>2. RrfK \in Nat
    BY RetrievalConfig
  <1>3. \A c \in V : av(c) \in Nat \ {0} /\ Rank(v, c) \in Nat
    BY RanksOf DEF Ranking
  <1>4. \A c \in T : at(c) \in Nat \ {0} /\ Rank(t, c) \in Nat
    BY RanksOf DEF Ranking
  <1>5. x \in V => y \in V /\ av(y) < av(x)
    <2>1. x \in V => y \in V /\ Rank(v, x) # Rank(v, y) /\ ~(Rank(v, x) < Rank(v, y))
      BY <1>1, RanksOf DEF Ahead
    <2>2. QED
      BY <1>2, <1>3, <2>1
  <1>6. x \in T => y \in T /\ at(y) < at(x)
    <2>1. x \in T => y \in T /\ Rank(t, x) # Rank(t, y) /\ ~(Rank(t, x) < Rank(t, y))
      BY <1>1, RanksOf DEF Ahead
    <2>2. QED
      BY <1>2, <1>4, <2>1
  <1>7. /\ \A c \in V \ T : n(c) = 1 /\ m(c) = av(c)
        /\ \A c \in T \ V : n(c) = 1 /\ m(c) = at(c)
        /\ \A c \in V \cap T : n(c) = av(c) + at(c) /\ m(c) = av(c) * at(c)
    BY DEF Score
  <1>8. \A c \in V \cup T : n(c) \in Nat /\ m(c) \in Nat
    BY ScoreIs
  <1> HIDE DEF n, m, av, at, V, T
  <1>9. n(x) * m(y) < n(y) * m(x)
    <2>1. CASE x \in V \ T /\ y \in V \ T
      BY <1>3, <1>5, <1>7, <2>1
    <2>2. CASE x \in T \ V /\ y \in T \ V
      BY <1>4, <1>6, <1>7, <2>2
    <2>3. CASE x \in V \ T /\ y \in V \cap T
      <3>1. n(x) * m(y) = av(y) * at(y) /\ n(y) * m(x) = (av(y) + at(y)) * av(x)
        BY <1>3, <1>4, <1>7, <2>3
      <3>2. QED
        BY <1>3, <1>4, <1>5, <2>3, <3>1, HigherScores
    <2>4. CASE x \in T \ V /\ y \in V \cap T
      <3>1. n(x) * m(y) = av(y) * at(y) /\ n(y) * m(x) = (av(y) + at(y)) * at(x)
        BY <1>3, <1>4, <1>7, <2>4
      <3>2. QED
        BY <1>3, <1>4, <1>6, <2>4, <3>1, HigherScores
    <2>5. CASE x \in V \cap T
      <3>1. /\ y \in V \cap T
            /\ n(x) * m(y) = (av(x) + at(x)) * (av(y) * at(y))
            /\ n(y) * m(x) = (av(y) + at(y)) * (av(x) * at(x))
        BY <1>5, <1>6, <1>7, <2>5
      <3>2. QED
        BY <1>3, <1>4, <1>5, <1>6, <2>5, <3>1, HigherScores
    <2>6. x \in V \cup T
      BY DEF V, T
    <2>7. QED
      BY <1>5, <1>6, <2>1, <2>2, <2>3, <2>4, <2>5, <2>6
  <1>10. n(x) * m(y) \in Int /\ n(y) * m(x) \in Int
    BY <1>8 DEF V, T
  <1>11. n(x) * m(y) > n(y) * m(x) \/ n(x) * m(y) = n(y) * m(x)
    BY DEF InFront, n, m
  <1>12. QED
    BY <1>9, <1>10, <1>11

\* reciprocal_rank_fusion returns what the rankings have, without repetition,
\* and nothing in front of what it does not follow in one of them.
LEMMA FusedSound ==
  ASSUME NEW v, Ranking(v), IsFiniteSet(ToSet(v)), NEW t, Ranking(t), IsFiniteSet(ToSet(t))
  PROVE  LET S == ToSet(v) \cup ToSet(t)
             f == Fused(v, t)
         IN  /\ f \in Seq(S)
             /\ \A i, j \in DOMAIN f :
                   i < j => f[i] # f[j] /\ (Ahead(v, f[i], f[j]) \/ Ahead(t, f[i], f[j]))
  <1> DEFINE S == ToSet(v) \cup ToSet(t)
             R == {p \in S \X S : InFront(v, t, p[1], p[2])}
             f == Fused(v, t)
  <1>1. IsFiniteSet(S)
    BY FS_Union
  <1>2. Orders(R, S)
    BY FrontOrders
  <1>3. f = InOrder(S, R)
    BY DEF Fused
  <1> HIDE DEF S, f
  <1>4. f \in Seq(S) /\ \A i, j \in DOMAIN f : i < j => <<f[i], f[j]>> \in R
    <2> HIDE DEF R
    <2>1. QED
      BY <1>1, <1>2, <1>3, InOrderSound
  <1>5. ASSUME NEW i \in DOMAIN f, NEW j \in DOMAIN f, i < j
        PROVE  f[i] # f[j] /\ (Ahead(v, f[i], f[j]) \/ Ahead(t, f[i], f[j]))
    <2>1. f[i] \in S /\ f[j] \in S /\ InFront(v, t, f[i], f[j])
      BY <1>4, <1>5
    <2>2. f[i] # f[j]
      BY <1>2, <1>4, <1>5, <2>1 DEF Orders
    <2>3. QED
      BY <2>1, <2>2, FrontIsAhead DEF S
  <1>6. QED
    BY <1>4, <1>5 DEF S, f

LEMMA NatSetInduction ==
  ASSUME NEW T, 0 \in T, \A n \in Nat : n \in T => n + 1 \in T
  PROVE  Nat \subseteq T
  <1> DEFINE bad == Nat \ T
  <1>1. SUFFICES ASSUME bad # {} PROVE FALSE
    OBVIOUS
  <1>2. PICK x \in bad : \A y \in bad : ~(<<y, x>> \in OpToRel(<, Nat))
    <2>1. bad \subseteq Nat
      OBVIOUS
    <2> HIDE DEF bad
    <2>2. QED
     BY <1>1, <2>1, NatLessThanWellFounded, WFMin
  <1>3. \A y \in bad : ~(y < x)
    BY <1>2 DEF OpToRel
  <1>4. x # 0 /\ x - 1 \in Nat /\ x - 1 < x
    OBVIOUS
  <1>5. x - 1 \in T
    BY <1>3, <1>4
  <1>6. QED
    BY <1>4, <1>5

\* hybrid_search: the first chunks of the fused ranking.
LEMMA HybridSound ==
  ASSUME NEW rows1 \in SUBSET Stored, IsFiniteSet(rows1),
         NEW rows2 \in SUBSET Stored, IsFiniteSet(rows2), NEW query
  PROVE  LET v == VectorHits(rows1)
             t == TextHits(rows2, query)
             h == HybridSearch(rows1, rows2, query)
         IN  /\ h \in Seq(rows1 \cup rows2)
             /\ \A i, j \in DOMAIN h :
                   i < j => h[i] # h[j] /\ (Ahead(v, h[i], h[j]) \/ Ahead(t, h[i], h[j]))
  <1> DEFINE v == VectorHits(rows1)
             t == TextHits(rows2, query)
             f == Fused(v, t)
             h == HybridSearch(rows1, rows2, query)
             found == {c \in rows2 : query # {} /\ query \subseteq Mentions[c.path]}
  <1>1. Ranking(v) /\ ToSet(v) \subseteq rows1
    BY RankedRowsSound DEF VectorHits
  <1>2. Ranking(t) /\ ToSet(t) \subseteq rows2
    <2>1. found \in SUBSET Stored /\ found \subseteq rows2 /\ IsFiniteSet(found)
      BY FS_Subset
    <2>2. t = RankedRows(ByText, found)
      BY DEF TextHits
    <2> HIDE DEF found
    <2>3. QED
      BY <2>1, <2>2, RankedRowsSound
  <1>3. IsFiniteSet(ToSet(v)) /\ IsFiniteSet(ToSet(t))
    BY <1>1, <1>2, FS_Subset
  <1>4. h = FirstOf(f, TopK) /\ TopK \in Nat
    BY RetrievalConfig DEF HybridSearch
  <1> HIDE DEF v, t, h
  <1>5. /\ f \in Seq(ToSet(v) \cup ToSet(t))
        /\ \A i, j \in DOMAIN f :
              i < j => f[i] # f[j] /\ (Ahead(v, f[i], f[j]) \/ Ahead(t, f[i], f[j]))
    BY <1>1, <1>2, <1>3, FusedSound
  <1> HIDE DEF f
  <1>6. /\ h \in Seq(ToSet(v) \cup ToSet(t)) /\ DOMAIN h \subseteq DOMAIN f
        /\ \A i \in DOMAIN h : h[i] = f[i]
    BY <1>4, <1>5, FirstOfSound
  <1>7. h \in Seq(rows1 \cup rows2)
    BY <1>1, <1>2, <1>6
  <1>8. \A i, j \in DOMAIN h :
           i < j => h[i] # h[j] /\ (Ahead(v, h[i], h[j]) \/ Ahead(t, h[i], h[j]))
    BY <1>5, <1>6
  <1>9. QED
    BY <1>7, <1>8 DEF v, t, h

-----------------------------------------------------------------------------
(* The context block.                                                       *)

SizeUpTo(chunks, n, size) ==
  size = [i \in 0..n |-> IF i = 0 THEN 0 ELSE size[i - 1] + SizeOf[chunks[i].path]]

Fill(block, c) ==
  LET size == block.used + SizeOf[c.path]
  IN  IF size > MaxSize THEN block
      ELSE [used |-> size, chunks |-> Append(block.chunks, c)]

BlockUpTo(chunks, n, block) ==
  block = [i \in 0..n |-> IF i = 0 THEN [used |-> 0, chunks |-> <<>>]
                          ELSE Fill(block[i - 1], chunks[i])]

LEMMA SizeExists == \A chunks : \A n \in Nat : \E size : SizeUpTo(chunks, n, size)
  <1>1. TAKE chunks
  <1> DEFINE T == {n \in Nat : \E size : SizeUpTo(chunks, n, size)}
  <1>2. 0 \in T
    <2> DEFINE g == [i \in 0..0 |-> 0]
    <2>1. \A i \in 0..0 : i = 0
      OBVIOUS
    <2>2. SizeUpTo(chunks, 0, g)
      BY <2>1 DEF SizeUpTo
    <2>3. QED
      BY <2>2
  <1>3. ASSUME NEW n \in Nat, n \in T PROVE n + 1 \in T
    <2>1. PICK g : SizeUpTo(chunks, n, g)
      BY <1>3
    <2> DEFINE next == g[n] + SizeOf[chunks[n + 1].path]
               h == [i \in 0..(n + 1) |-> IF i <= n THEN g[i] ELSE next]
    <2>2. ASSUME NEW i \in 0..(n + 1)
          PROVE  h[i] = IF i = 0 THEN 0 ELSE h[i - 1] + SizeOf[chunks[i].path]
      <3>1. CASE i = 0
        BY <2>1, <3>1 DEF SizeUpTo
      <3>2. CASE i > 0 /\ i <= n
        BY <2>1, <3>2 DEF SizeUpTo
      <3>3. CASE i = n + 1
        BY <3>3
      <3>4. QED
        BY <3>1, <3>2, <3>3
    <2>3. SizeUpTo(chunks, n + 1, h)
      BY <2>2 DEF SizeUpTo
    <2>4. QED
      BY <2>3
  <1>4. Nat \subseteq T
    BY <1>2, <1>3, NatSetInduction
  <1>5. QED
    BY <1>4

LEMMA BlockExists == \A chunks : \A n \in Nat : \E block : BlockUpTo(chunks, n, block)
  <1>1. TAKE chunks
  <1> DEFINE T == {n \in Nat : \E block : BlockUpTo(chunks, n, block)}
             Empty == [used |-> 0, chunks |-> <<>>]
  <1>2. 0 \in T
    <2> DEFINE g == [i \in 0..0 |-> Empty]
    <2>1. \A i \in 0..0 : i = 0
      OBVIOUS
    <2>2. BlockUpTo(chunks, 0, g)
      BY <2>1 DEF BlockUpTo
    <2>3. QED
      BY <2>2
  <1>3. ASSUME NEW n \in Nat, n \in T PROVE n + 1 \in T
    <2>1. PICK g : BlockUpTo(chunks, n, g)
      BY <1>3
    <2> DEFINE next == Fill(g[n], chunks[n + 1])
               h == [i \in 0..(n + 1) |-> IF i <= n THEN g[i] ELSE next]
    <2>2. ASSUME NEW i \in 0..(n + 1)
          PROVE  h[i] = IF i = 0 THEN Empty ELSE Fill(h[i - 1], chunks[i])
      <3>1. CASE i = 0
        BY <2>1, <3>1 DEF BlockUpTo
      <3>2. CASE i > 0 /\ i <= n
        BY <2>1, <3>2 DEF BlockUpTo
      <3>3. CASE i = n + 1
        BY <3>3
      <3>4. QED
        BY <3>1, <3>2, <3>3
    <2>3. BlockUpTo(chunks, n + 1, h)
      BY <2>2 DEF BlockUpTo
    <2>4. QED
      BY <2>3
  <1>4. Nat \subseteq T
    BY <1>2, <1>3, NatSetInduction
  <1>5. QED
    BY <1>4

LEMMA SizeIs ==
  ASSUME NEW chunks, Len(chunks) \in Nat
  PROVE  \E size : SizeUpTo(chunks, Len(chunks), size) /\ Size(chunks) = size[Len(chunks)]
  <1> DEFINE size[n \in 0..Len(chunks)] ==
                IF n = 0 THEN 0 ELSE size[n - 1] + SizeOf[chunks[n].path]
  <1>1. Size(chunks) = size[Len(chunks)]
    BY DEF Size
  <1>2. \E s : SizeUpTo(chunks, Len(chunks), s)
    BY SizeExists
  <1>3. SizeUpTo(chunks, Len(chunks), size)
    BY <1>2 DEF SizeUpTo
  <1>4. QED
    BY <1>1, <1>3

LEMMA ContextIs ==
  ASSUME NEW chunks, Len(chunks) \in Nat
  PROVE  \E block : /\ BlockUpTo(chunks, Len(chunks), block)
                    /\ Context(chunks) = block[Len(chunks)].chunks
  <1> DEFINE block[n \in 0..Len(chunks)] ==
            IF n = 0 THEN [used |-> 0, chunks |-> <<>>]
            ELSE LET size == block[n - 1].used + SizeOf[chunks[n].path]
                 IN  IF size > MaxSize THEN block[n - 1]
                     ELSE [used   |-> size,
                           chunks |-> Append(block[n - 1].chunks, chunks[n])]
  <1>1. Context(chunks) = block[Len(chunks)].chunks
    BY DEF Context
  <1>2. \E b : BlockUpTo(chunks, Len(chunks), b)
    BY BlockExists
  <1>3. BlockUpTo(chunks, Len(chunks), block)
    BY <1>2 DEF BlockUpTo, Fill
  <1>4. QED
    BY <1>1, <1>3

\* The sizes of a sequence are those of its beginning, and of one chunk more.
LEMMA SizeOfAppend ==
  ASSUME NEW s \in Seq(Stored), NEW c \in Stored
  PROVE  /\ Size(<<>>) = 0
         /\ Size(Append(s, c)) = Size(s) + SizeOf[c.path]
  <1>1. Size(<<>>) = 0
    <2>1. PICK g : SizeUpTo(<<>>, 0, g) /\ Size(<<>>) = g[0]
      BY SizeIs
    <2>2. QED
      BY <2>1 DEF SizeUpTo
  <1> DEFINE t == Append(s, c)
             n == Len(s)
  <1>2. n \in Nat /\ Len(t) = n + 1 /\ t[n + 1] = c /\ \A i \in 1..n : t[i] = s[i]
    OBVIOUS
  <1>3. PICK g : SizeUpTo(s, n, g) /\ Size(s) = g[n]
    BY <1>2, SizeIs
  <1> HIDE DEF t, n
  <1>4. PICK h : SizeUpTo(t, n + 1, h) /\ Size(t) = h[n + 1]
    <2>1. Len(t) \in Nat /\ Len(t) = n + 1
      BY <1>2
    <2>2. \E h : SizeUpTo(t, Len(t), h) /\ Size(t) = h[Len(t)]
      BY <2>1, SizeIs
    <2>3. QED
      BY <2>1, <2>2
  <1> DEFINE T == {i \in Nat : i <= n => h[i] = g[i]}
  <1>5. 0 \in T
    BY <1>2, <1>3, <1>4 DEF SizeUpTo
  <1>6. ASSUME NEW i \in Nat, i \in T PROVE i + 1 \in T
    <2>1. SUFFICES ASSUME i + 1 <= n PROVE h[i + 1] = g[i + 1]
      OBVIOUS
    <2>2. h[i] = g[i] /\ i + 1 # 0 /\ (i + 1) - 1 = i /\ t[i + 1] = s[i + 1]
      BY <1>2, <1>6, <2>1
    <2>3. i + 1 \in 0..n /\ i + 1 \in 0..(n + 1)
      BY <1>2, <2>1
    <2>4. h[i + 1] = h[i] + SizeOf[t[i + 1].path]
      BY <1>4, <2>2, <2>3 DEF SizeUpTo
    <2>5. g[i + 1] = g[i] + SizeOf[s[i + 1].path]
      BY <1>3, <2>2, <2>3 DEF SizeUpTo
    <2>6. QED
      BY <2>2, <2>4, <2>5
  <1>7. h[n] = g[n]
    <2>1. Nat \subseteq T
      BY <1>5, <1>6, NatSetInduction
    <2>2. n \in T
      BY <1>2, <2>1
    <2>3. QED
      BY <1>2, <2>2
  <1>8. h[n + 1] = h[n] + SizeOf[c.path]
    <2>1. n + 1 \in 0..(n + 1) /\ n + 1 # 0 /\ (n + 1) - 1 = n
      BY <1>2
    <2>2. QED
      BY <1>2, <1>4, <2>1 DEF SizeUpTo
  <1>9. QED
    BY <1>1, <1>3, <1>4, <1>7, <1>8 DEF t

\* What the block holds after the n-th chunk: some of the chunks so far, in
\* their order, and as many characters as it has counted.
Filled(chunks, b, n) ==
  /\ b.chunks \in Seq(Stored)
  /\ b.used = Size(b.chunks) /\ b.used \in Nat /\ b.used <= MaxSize
  /\ \A i \in DOMAIN b.chunks : \E k \in 1..n : b.chunks[i] = chunks[k]
  /\ \A i, j \in DOMAIN b.chunks : i < j =>
        \E k, m \in 1..n : k < m /\ b.chunks[i] = chunks[k] /\ b.chunks[j] = chunks[m]

LEMMA FilledStep ==
  ASSUME NEW chunks \in Seq(Stored), NEW n \in Nat, n + 1 <= Len(chunks),
         NEW b, Filled(chunks, b, n)
  PROVE  Filled(chunks, Fill(b, chunks[n + 1]), n + 1)
  <1> DEFINE c == chunks[n + 1]
             size == b.used + SizeOf[c.path]
  <1>1. c \in Stored /\ SizeOf[c.path] \in Nat
    <2>1. c \in Stored
      OBVIOUS
    <2>2. c.path \in Paths
      BY <2>1 DEF Stored
    <2>3. QED
      BY <2>1, <2>2, RetrievalConfig
  <1>2. CASE size > MaxSize
    <2>1. Filled(chunks, b, n + 1)
      <3>1. \A k \in 1..n : k \in 1..(n + 1)
        OBVIOUS
      <3>2. QED
        BY <3>1 DEF Filled
    <2>2. QED
      BY <1>2, <2>1 DEF Fill
  <1>3. CASE ~(size > MaxSize)
    <2> DEFINE s == b.chunks
               t == Append(s, c)
               d == [used |-> size, chunks |-> t]
    <2>1. s \in Seq(Stored) /\ b.used \in Nat
      BY DEF Filled
    <2>2. /\ t \in Seq(Stored) /\ DOMAIN t = 1..(Len(s) + 1) /\ DOMAIN s = 1..Len(s)
          /\ t[Len(s) + 1] = c /\ \A i \in 1..Len(s) : t[i] = s[i]
      BY <1>1, <2>1
    <2>3. size = Size(t) /\ size \in Nat /\ size <= MaxSize
      <3>1. Size(t) = Size(s) + SizeOf[c.path]
        BY <1>1, <2>1, SizeOfAppend
      <3>2. MaxSize \in Nat
        BY RetrievalConfig
      <3>3. QED
        BY <1>1, <1>3, <2>1, <3>1, <3>2 DEF Filled
    <2>4. \A i \in DOMAIN t : \E k \in 1..(n + 1) : t[i] = chunks[k]
      <3>1. SUFFICES ASSUME NEW i \in DOMAIN t PROVE \E k \in 1..(n + 1) : t[i] = chunks[k]
        OBVIOUS
      <3>2. CASE i \in DOMAIN s
        <4>1. PICK k \in 1..n : s[i] = chunks[k]
          BY <3>2 DEF Filled
        <4>2. QED
          BY <2>2, <3>2, <4>1
      <3>3. CASE i = Len(s) + 1
        BY <2>2, <3>3
      <3>4. QED
        BY <2>1, <2>2, <3>2, <3>3
    <2>5. ASSUME NEW i \in DOMAIN t, NEW j \in DOMAIN t, i < j
          PROVE  \E k, m \in 1..(n + 1) : k < m /\ t[i] = chunks[k] /\ t[j] = chunks[m]
      <3>1. i \in DOMAIN s
        BY <2>1, <2>2, <2>5
      <3>2. CASE j \in DOMAIN s
        <4>1. PICK k \in 1..n, m \in 1..n : k < m /\ s[i] = chunks[k] /\ s[j] = chunks[m]
          BY <2>5, <3>1, <3>2 DEF Filled
        <4>2. t[i] = s[i] /\ t[j] = s[j] /\ k \in 1..(n + 1) /\ m \in 1..(n + 1)
          BY <2>2, <3>1, <3>2
        <4>3. QED
          BY <4>1, <4>2
      <3>3. CASE j = Len(s) + 1
        <4>1. PICK k \in 1..n : s[i] = chunks[k]
          BY <3>1 DEF Filled
        <4>2. n + 1 \in 1..(n + 1) /\ k \in 1..(n + 1) /\ k < n + 1
          OBVIOUS
        <4>3. t[i] = chunks[k] /\ t[j] = chunks[n + 1]
          BY <2>2, <3>1, <3>3, <4>1
        <4> HIDE DEF t
        <4>4. QED
          BY <4>2, <4>3, Zenon
      <3>4. j \in DOMAIN s \/ j = Len(s) + 1
        BY <2>1, <2>2
      <3>5. QED
        BY <3>2, <3>3, <3>4
    <2>6. Fill(b, c) = d
      BY <1>3 DEF Fill
    <2>7. d.used = size /\ d.chunks = t
      OBVIOUS
    <2> HIDE DEF d, t, size
    <2>8. Filled(chunks, d, n + 1)
      <3>1. \A i, j \in DOMAIN t : i < j =>
               \E k, m \in 1..(n + 1) : k < m /\ t[i] = chunks[k] /\ t[j] = chunks[m]
        BY <2>5
      <3>2. /\ d.chunks \in Seq(Stored) /\ d.used = Size(d.chunks)
            /\ d.used \in Nat /\ d.used <= MaxSize
        BY <2>2, <2>3, <2>7, Zenon
      <3>3. \A i \in DOMAIN d.chunks : \E k \in 1..(n + 1) : d.chunks[i] = chunks[k]
        BY <2>4, <2>7, Zenon
      <3>4. \A i, j \in DOMAIN d.chunks : i < j =>
               \E k, m \in 1..(n + 1) : k < m /\ d.chunks[i] = chunks[k]
                                              /\ d.chunks[j] = chunks[m]
        <4>1. d.chunks = t
          BY <2>7
        <4>2. QED
          BY <3>1, <4>1
      <3>5. QED
        BY <3>2, <3>3, <3>4, Zenon DEF Filled
    <2>9. QED
      BY <2>6, <2>8
  <1>4. QED
    BY <1>2, <1>3

\* format_retrieved_context keeps the order and the budget.
LEMMA ContextSound ==
  ASSUME NEW chunks \in Seq(Stored)
  PROVE  LET shown == Context(chunks)
         IN  /\ shown \in Seq(Stored) /\ Size(shown) <= MaxSize
             /\ \A i \in DOMAIN shown : \E k \in DOMAIN chunks : shown[i] = chunks[k]
             /\ \A i, j \in DOMAIN shown : i < j =>
                   \E k, m \in DOMAIN chunks :
                      k < m /\ shown[i] = chunks[k] /\ shown[j] = chunks[m]
  <1>1. Len(chunks) \in Nat /\ DOMAIN chunks = 1..Len(chunks)
    OBVIOUS
  <1>2. PICK block : /\ BlockUpTo(chunks, Len(chunks), block)
                     /\ Context(chunks) = block[Len(chunks)].chunks
    BY <1>1, ContextIs
  <1> DEFINE T == {n \in Nat : n <= Len(chunks) => Filled(chunks, block[n], n)}
  <1>3. 0 \in T
    <2> DEFINE b == [used |-> 0, chunks |-> <<>>]
    <2>1. block[0] = b
      BY <1>1, <1>2 DEF BlockUpTo
    <2>2. b.chunks = <<>> /\ b.used = 0 /\ Size(<<>>) = 0 /\ MaxSize \in Nat
      <3>1. PICK g : SizeUpTo(<<>>, 0, g) /\ Size(<<>>) = g[0]
        BY SizeIs
      <3>2. QED
        BY <3>1, RetrievalConfig DEF SizeUpTo
    <2>3. <<>> \in Seq(Stored) /\ DOMAIN <<>> = {}
      OBVIOUS
    <2> HIDE DEF b
    <2>4. Filled(chunks, b, 0)
      BY <2>2, <2>3 DEF Filled
    <2>5. QED
      BY <2>1, <2>4
  <1>4. ASSUME NEW n \in Nat, n \in T PROVE n + 1 \in T
    <2>1. SUFFICES ASSUME n + 1 <= Len(chunks) PROVE Filled(chunks, block[n + 1], n + 1)
      OBVIOUS
    <2>2. block[n + 1] = Fill(block[n], chunks[n + 1])
      <3>1. n + 1 \in 0..Len(chunks) /\ n + 1 # 0 /\ (n + 1) - 1 = n
        BY <1>1, <2>1
      <3>2. QED
        BY <1>2, <3>1 DEF BlockUpTo
    <2>3. Filled(chunks, block[n], n)
      BY <1>1, <1>4, <2>1
    <2>4. QED
      BY <2>1, <2>2, <2>3, FilledStep
  <1>5. Len(chunks) \in T
    BY <1>1, <1>3, <1>4, NatSetInduction
  <1>6. Filled(chunks, block[Len(chunks)], Len(chunks))
    BY <1>1, <1>5
  <1> DEFINE shown == Context(chunks)
  <1>7. shown = block[Len(chunks)].chunks
    BY <1>2
  <1> HIDE DEF shown
  <1>8. shown \in Seq(Stored) /\ Size(shown) <= MaxSize
    BY <1>6, <1>7 DEF Filled
  <1>9. \A i \in DOMAIN shown : \E k \in DOMAIN chunks : shown[i] = chunks[k]
    BY <1>1, <1>6, <1>7 DEF Filled
  <1>10. ASSUME NEW i \in DOMAIN shown, NEW j \in DOMAIN shown, i < j
         PROVE  \E k, m \in DOMAIN chunks :
                   k < m /\ shown[i] = chunks[k] /\ shown[j] = chunks[m]
    <2>1. PICK k \in 1..Len(chunks), m \in 1..Len(chunks) :
             k < m /\ shown[i] = chunks[k] /\ shown[j] = chunks[m]
      BY <1>6, <1>7, <1>10 DEF Filled
    <2>2. QED
      BY <1>1, <2>1
  <1>11. QED
    BY <1>8, <1>9, <1>10 DEF shown

-----------------------------------------------------------------------------
(***************************************************************************)
(* Grounding.  A call that searched has seen the table once or twice.      *)
(***************************************************************************)
Searched(c) ==
    /\ pc[c] = "text" => Len(hits[c]) = 1
    /\ pc[c] = "ground" => Len(hits[c]) = 2

SearchedInv == \A c \in Calls : Searched(c)

LEMMA SearchedInit == Init => SearchedInv
  BY DEF Init, SearchedInv, Searched

LEMMA SearchedStep == AnalysisInv /\ SearchedInv /\ [Next]_vars => SearchedInv'
  <1> SUFFICES ASSUME AnalysisInv, SearchedInv, [Next]_vars, NEW d \in Calls PROVE Searched(d)'
    BY DEF SearchedInv
  <1> HIDE DEF Chunks
  <1>1. /\ pc \in [Calls -> Places] /\ hits \in [Calls -> Seq(SUBSET Chunks)]
        /\ rows \in SUBSET Chunks /\ Searched(d)
    BY DEF AnalysisInv, CallTyped, CorpusTyped, SearchedInv
  <1>2. CASE UNCHANGED <<pc, hits>>
    BY <1>1, <1>2 DEF Searched
  <1>3. ASSUME NEW c \in Calls, CallStep(c) PROVE Searched(d)'
    <2>1. CASE SearchVector(c)
      BY <1>1, <2>1 DEF SearchVector, Searched
    <2>2. CASE SearchText(c)
      <3>1. hits[c] \in Seq(SUBSET Chunks) /\ Len(Append(hits[c], rows)) = Len(hits[c]) + 1
        BY <1>1
      <3>2. Len(hits[c]) = 1
        BY <2>2 DEF SearchText, SearchedInv, Searched
      <3>3. /\ pc' = [pc EXCEPT ![c] = "ground"]
            /\ hits' = [hits EXCEPT ![c] = Append(hits[c], rows)]
        BY <2>2 DEF SearchText
      <3>4. QED
        BY <1>1, <3>1, <3>2, <3>3 DEF Searched
    <2>3. CASE ~SearchVector(c) /\ ~SearchText(c)
      <3>1. /\ hits' = hits \/ hits' = [hits EXCEPT ![c] = NoHits]
            /\ \E p \in Places \ {"text", "ground"} : pc' = [pc EXCEPT ![c] = p]
        <4>1. CASE Begin(c) \/ RetrievalFails(c) \/ Ground(c) \/ Submit(c) \/ Record(c)
          BY <4>1 DEF Begin, RetrievalFails, Ground, Submit, Record, Places
        <4>2. CASE CheckBudget(c)
          <5>1. /\ hits' = hits
                /\ pc' = [pc EXCEPT ![c] = "attempt"] \/ pc' = [pc EXCEPT ![c] = "done"]
            BY <4>2, Zenon DEF CheckBudget, End
          <5>2. QED
            BY <5>1 DEF Places
        <4>3. CASE BreakerRefuses(c) \/ GetReply(c) \/ TimeOut(c)
          BY <4>3 DEF BreakerRefuses, GetReply, TimeOut, RetryOrGiveUp, End, Places
        <4>4. CASE Parse(c) \/ Return(c)
          BY <4>4 DEF Parse, Return, Places
        <4>5. QED
          BY <1>3, <2>3, <4>1, <4>2, <4>3, <4>4 DEF CallStep
      <3>2. PICK p \in Places \ {"text", "ground"} : pc' = [pc EXCEPT ![c] = p]
        BY <3>1
      <3>3. CASE d = c
        BY <1>1, <3>2, <3>3 DEF Searched
      <3>4. CASE d # c
        BY <1>1, <3>1, <3>2, <3>4 DEF Searched
      <3>5. QED
        BY <3>3, <3>4
    <2>4. QED
      BY <2>1, <2>2, <2>3
  <1>4. (\E c \in Calls : CallStep(c)) \/ UNCHANGED <<pc, hits>>
    BY Zenon DEF Next, vars, StartTask, EndTask, Reset, Truncate, InsertChunk
  <1>5. QED
    BY <1>2, <1>3, <1>4

LEMMA ChunksStored == Chunks \subseteq Stored /\ IsFiniteSet(Chunks)
  <1>1. Chunks \subseteq Stored
    BY DEF Chunks, Chunk, Stored
  <1> DEFINE P == DOMAIN ByVector
             F == P \X (0..MaxSeedings)
             f == [u \in F |-> Chunk(ByVector[u[1]], u[2])]
  <1>2. ByVector \in Seq(Paths) /\ ToSet(ByVector) = Paths
    BY RetrievalConfig
  <1>3. IsFiniteSet(F)
    <2>1. P = 1..Len(ByVector) /\ Len(ByVector) \in Nat
      BY <1>2
    <2>2. IsFiniteSet(P) /\ IsFiniteSet(0..MaxSeedings)
      BY <2>1, FS_Interval
    <2> HIDE DEF P
    <2>3. QED
      BY <2>2, FS_Product
  <1>4. f \in Surjection(F, Chunks)
    <2>1. \A u \in F : f[u] \in Chunks
      <3>1. \A u \in F : u[1] \in DOMAIN ByVector /\ u[2] \in 0..MaxSeedings
        OBVIOUS
      <3>2. \A i \in DOMAIN ByVector : ByVector[i] \in Paths
        BY <1>2
      <3>3. QED
        BY <3>1, <3>2 DEF Chunks
    <2>2. ASSUME NEW x \in Chunks PROVE \E u \in F : f[u] = x
      <3>1. PICK p \in Paths, n \in 0..MaxSeedings : x = Chunk(p, n)
        BY <2>2 DEF Chunks
      <3>2. PICK i \in DOMAIN ByVector : ByVector[i] = p
        BY <1>2 DEF ToSet
      <3>3. <<i, n>> \in F /\ f[<<i, n>>] = x
        BY <3>1, <3>2
      <3>4. QED
        BY <3>3
    <2>3. f \in [F -> Chunks]
      BY <2>1
    <2> HIDE DEF f, F
    <2>4. QED
      BY <2>2, <2>3 DEF Surjection
  <1>5. IsFiniteSet(Chunks)
    BY <1>3, <1>4, FS_Surjection
  <1>6. QED
    BY <1>1, <1>5

LEMMA GroundingFromInv == AnalysisInv /\ SearchedInv => GroundingSound
  <1> SUFFICES ASSUME AnalysisInv, SearchedInv, NEW c \in Calls, pc[c] = "ground"
               PROVE  LET vector == VectorHits(hits[c][1])
                          found  == TextHits(hits[c][2], Query(DiffOf[c]))
                          shown  == Prompt(c)
                      IN  /\ \A i, j \in DOMAIN shown : i < j =>
                                /\ shown[i] # shown[j]
                                /\ Ahead(vector, shown[i], shown[j])
                                   \/ Ahead(found, shown[i], shown[j])
                          /\ ToSet(shown) \subseteq hits[c][1] \cup hits[c][2]
                          /\ Size(shown) <= MaxSize
    BY DEF GroundingSound, Ahead
  <1> DEFINE r1 == hits[c][1]
             r2 == hits[c][2]
             q == Query(DiffOf[c])
             v == VectorHits(r1)
             t == TextHits(r2, q)
             h == HybridSearch(r1, r2, q)
             shown == Prompt(c)
  <1>1. r1 \in SUBSET Chunks /\ r2 \in SUBSET Chunks
    <2> HIDE DEF Chunks
    <2>1. hits[c] \in Seq(SUBSET Chunks) /\ Len(hits[c]) = 2
      BY DEF AnalysisInv, CallTyped, SearchedInv, Searched
    <2>2. QED
      BY <2>1
  <1>2. r1 \in SUBSET Stored /\ r2 \in SUBSET Stored /\ IsFiniteSet(r1) /\ IsFiniteSet(r2)
    BY <1>1, ChunksStored, FS_Subset
  <1>3. shown = Context(h)
    BY DEF Prompt
  <1> HIDE DEF r1, r2, q, v, t, h, shown
  <1>4. /\ h \in Seq(r1 \cup r2)
        /\ \A i, j \in DOMAIN h :
              i < j => h[i] # h[j] /\ (Ahead(v, h[i], h[j]) \/ Ahead(t, h[i], h[j]))
    BY <1>2, HybridSound DEF v, t, h
  <1>5. h \in Seq(Stored)
    BY <1>2, <1>4
  <1>6. /\ shown \in Seq(Stored) /\ Size(shown) <= MaxSize
        /\ \A i \in DOMAIN shown : \E k \in DOMAIN h : shown[i] = h[k]
        /\ \A i, j \in DOMAIN shown : i < j =>
              \E k, m \in DOMAIN h : k < m /\ shown[i] = h[k] /\ shown[j] = h[m]
    BY <1>3, <1>5, ContextSound
  <1>7. ASSUME NEW i \in DOMAIN shown, NEW j \in DOMAIN shown, i < j
        PROVE  /\ shown[i] # shown[j]
               /\ Ahead(v, shown[i], shown[j]) \/ Ahead(t, shown[i], shown[j])
    <2>1. PICK k \in DOMAIN h, m \in DOMAIN h :
             k < m /\ shown[i] = h[k] /\ shown[j] = h[m]
      BY <1>6, <1>7
    <2>2. QED
      BY <1>4, <2>1
  <1>8. ToSet(shown) \subseteq r1 \cup r2
    <2>1. \A k \in DOMAIN h : h[k] \in r1 \cup r2
      BY <1>4
    <2>2. QED
      BY <1>6, <2>1 DEF ToSet
  <1>9. QED
    BY <1>6, <1>7, <1>8 DEF r1, r2, q, v, t, shown

\* context_retriever.py and base_agent.py: whatever is in the table at the two
\* searches, and however it changes between them, the prompt shows chunks that
\* were there, each once, in an order that the rankings account for, and keeps
\* to its budget.
THEOREM GroundingAlwaysSound == Spec => []GroundingSound
  BY SearchedInit, SearchedStep, GroundingFromInv, AnalysisInit, AnalysisStep, SpendInit,
     SpendStep, PTL DEF Spec
=============================================================================
