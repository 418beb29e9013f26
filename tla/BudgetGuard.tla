----------------------------- MODULE BudgetGuard ----------------------------
(***************************************************************************)
(* The daily spending cap: backend/economics/budget.py as it is used by    *)
(* AnthropicLLMClient.complete (backend/tools/llm_client.py).  Every       *)
(* specialist of every concurrent review, in every process, reads the sum  *)
(* of today's llm.call rows, compares it with the cap, talks to the        *)
(* provider for seconds, and only then adds a row of its own.  Nothing is  *)
(* reserved in between.                                                    *)
(*                                                                         *)
(* Money is counted in whole units; the cost of one attempt is at most     *)
(* MaxCost (the prompt and _MAX_OUTPUT_TOKENS bound it).  An attempt that  *)
(* ends in a timeout or a dropped connection may have been charged by the  *)
(* provider all the same, and no row is written for it.                    *)
(*                                                                         *)
(* The names are distinct from those of CircuitBreaker, the other guard on *)
(* the way to the provider, since GuardProofs is about both.               *)
(***************************************************************************)
EXTENDS Integers, FiniteSets

CONSTANTS Clients,      \* concurrent users of complete(), all processes together
          Cap,          \* budget_daily_cap_usd, in units
          MaxCost,      \* the most one attempt can cost, in units
          MaxAttempts,  \* llm_retry_max_attempts
          BilledBound   \* bound: no call starts once this much was billed today

\* RetryPolicy rejects max_attempts < 1; a cap that is not positive refuses
\* every call.
ASSUME BudgetConfig ==
    /\ IsFiniteSet(Clients)
    /\ Cap \in Nat \ {0}
    /\ MaxCost \in Nat
    /\ MaxAttempts \in Nat \ {0}
    /\ BilledBound \in Nat

VARIABLES
    stage,      \* per client: ready, calling, answered, or how complete() ended
    attempt,    \* per client: the attempt of call_with_retry
    due,        \* per client: the cost of the answer it has in hand
    recorded,   \* sum_llm_cost_for_day of today
    billed,     \* what the provider charged today
    escaped     \* charges that will never be in any row, and fell today

callerVars == <<stage, attempt, due>>
moneyVars == <<recorded, billed, escaped>>
budgetVars == <<callerVars, moneyVars>>

Costs == 0..MaxCost
Ended == {"ready", "returned", "refused", "failed"}

Calling == {c \in Clients : stage[c] = "calling"}
Answered == {c \in Clients : stage[c] = "answered"}
Underway == Calling \cup Answered

-----------------------------------------------------------------------------
BudgetInit ==
    /\ stage = [c \in Clients |-> "ready"]
    /\ attempt = [c \in Clients |-> 1]
    /\ due = [c \in Clients |-> 0]
    /\ recorded = 0
    /\ billed = 0
    /\ escaped = 0

\* Mutation of Allow: the cap itself still lets a call through.
AllowAtCap(c) ==
    /\ stage[c] \in Ended
    /\ recorded <= Cap
    /\ billed < BilledBound
    /\ stage' = [stage EXCEPT ![c] = "calling"]
    /\ attempt' = [attempt EXCEPT ![c] = 1]
    /\ UNCHANGED <<due, moneyVars>>

\* check_and_raise reads a sum below the cap, and complete() goes on to the
\* provider.  The comparison needs nothing but the sum, so the read is the
\* step.
Allow(c) ==
    /\ stage[c] \in Ended
    /\ recorded < Cap
    /\ billed < BilledBound
    /\ stage' = [stage EXCEPT ![c] = "calling"]
    /\ attempt' = [attempt EXCEPT ![c] = 1]
    /\ UNCHANGED <<due, moneyVars>>

\* BudgetExceededError: the provider is not called.
Refuse(c) ==
    /\ stage[c] \in Ended
    /\ recorded >= Cap
    /\ stage' = [stage EXCEPT ![c] = "refused"]
    /\ UNCHANGED <<attempt, due, moneyVars>>

\* The read fails (psycopg.Error, statement_timeout) and complete() with it.
ReadFails(c) ==
    /\ stage[c] \in Ended
    /\ stage' = [stage EXCEPT ![c] = "failed"]
    /\ UNCHANGED <<attempt, due, moneyVars>>

\* The provider answers the attempt, and charges for it.
ProviderAnswers(c, cost) ==
    /\ stage[c] = "calling"
    /\ stage' = [stage EXCEPT ![c] = "answered"]
    /\ due' = [due EXCEPT ![c] = cost]
    /\ billed' = billed + cost
    /\ UNCHANGED <<attempt, recorded, escaped>>

\* The attempt ends in an error, charged or not: the next attempt, or
\* LLMCallFailedError.  The timeout abandons a request without cancelling it.
AttemptFails(c, cost) ==
    /\ stage[c] = "calling"
    /\ billed' = billed + cost
    /\ escaped' = escaped + cost
    /\ IF attempt[c] < MaxAttempts
       THEN attempt' = [attempt EXCEPT ![c] = @ + 1] /\ UNCHANGED stage
       ELSE stage' = [stage EXCEPT ![c] = "failed"] /\ UNCHANGED attempt
    /\ UNCHANGED <<due, recorded>>

\* No API key, a provider error in _NON_RETRYABLE_EXCEPTIONS, or CircuitOpenError: no
\* other attempt.
GiveUp(c) ==
    /\ stage[c] = "calling"
    /\ stage' = [stage EXCEPT ![c] = "failed"]
    /\ UNCHANGED <<attempt, due, moneyVars>>

Settle(c, outcome) ==
    /\ stage[c] = "answered"
    /\ stage' = [stage EXCEPT ![c] = outcome]
    /\ due' = [due EXCEPT ![c] = 0]
    /\ UNCHANGED <<attempt, billed>>

\* Mutation of Record: the answer is returned and its row forgotten.
RecordNothing(c) == Settle(c, "returned") /\ UNCHANGED <<recorded, escaped>>

\* emit_llm_call appends the row, dated now: from here on every reader sees it.
Record(c) ==
    /\ Settle(c, "returned")
    /\ recorded' = recorded + due[c]
    /\ UNCHANGED escaped

\* The row is not written: _emit swallows the database's error or
\* CircuitOpenError, or there is no review_id to write it for; complete()
\* returns all the same.  Or the model has no price: UnknownModelPriceError.
Unrecorded(c) ==
    /\ \/ Settle(c, "returned")
       \/ Settle(c, "failed")
    /\ escaped' = escaped + due[c]
    /\ UNCHANGED recorded

\* Midnight UTC: the window of sum_llm_cost_for_day moves on.  Calls admitted
\* yesterday are still in flight and will be dated today.
NewDay ==
    /\ recorded' = 0
    /\ billed' = 0
    /\ escaped' = 0
    /\ UNCHANGED callerVars

BudgetNext ==
    \/ \E c \in Clients :
        \/ Allow(c) \/ Refuse(c) \/ ReadFails(c)
        \/ GiveUp(c) \/ Record(c) \/ Unrecorded(c)
        \/ \E cost \in Costs : ProviderAnswers(c, cost) \/ AttemptFails(c, cost)
    \/ NewDay

BudgetSpec == BudgetInit /\ [][BudgetNext]_budgetVars

-----------------------------------------------------------------------------
BudgetTypeOK ==
    /\ stage \in [Clients -> Ended \cup {"calling", "answered"}]
    /\ attempt \in [Clients -> 1..MaxAttempts]
    /\ due \in [Clients -> Costs]
    /\ recorded \in Nat
    /\ billed \in Nat
    /\ escaped \in Nat

\* By how much the day's cap can be passed: every concurrent caller may have
\* read a sum just below the cap, so recorded spend ends below the cap plus
\* one call for each of them, and no further (check_and_raise, complete).
Ceiling == Cap - 1 + MaxCost * Cardinality(Clients)
OvershootBounded == recorded <= Ceiling

\* The guard accounts for every charge it can see: what the provider charged
\* today, less what escaped the rows, stays under the same ceiling, also while
\* answers are waiting to be recorded and across midnight.  So the only way
\* past the ceiling is through charges no row was written for.
SpendAccounted == billed - escaped <= Ceiling
=============================================================================
