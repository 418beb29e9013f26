----------------------------- MODULE GuardProofs ----------------------------
(***************************************************************************)
(* The two guards on a specialist's way to the provider, each on its own:  *)
(* their variables are disjoint, and neither proof uses the other module.  *)
(*                                                                         *)
(* CircuitBreaker, for any number of callers, any threshold and any reset  *)
(* timeout: type correctness and the agreement of the fields hold for      *)
(* every call bound; that a HALF_OPEN breaker admits a single call needs   *)
(* the timeout layer to be faster than the reset timeout.                  *)
(*                                                                         *)
(* BudgetGuard, for any number of clients, cap and call cost: how far the  *)
(* day's spend can pass the cap.  A client in flight holds a claim on      *)
(* MaxCost more, so the quantity that is kept under the ceiling is what is *)
(* recorded plus MaxCost for each client in flight: a call is only         *)
(* admitted below the cap, recording a row trades one claim for at most as *)
(* much, and midnight only lowers it.                                      *)
(***************************************************************************)
EXTENDS CircuitBreaker, BudgetGuard, FiniteSetTheorems, TLAPS

\* What one critical section relies on and re-establishes.
SafetyInv ==
    /\ TypeOK
    /\ ProbeFlagHeld
    /\ FieldsAgree
    /\ \A c \in Callers : pc[c] # "calling" => callAge[c] = 0

\* A call that is running while the breaker is OPEN was admitted no later than
\* the last time the breaker opened; a HALF_OPEN breaker has waited out the
\* reset timeout, and only its probe runs.
StaleCallsAreOld ==
    /\ state = "open" => \A c \in InFlight : callAge[c] >= openAge
    /\ state = "half_open" /\ InFlight # {} => probeInFlight

ProbeInv == SafetyInv /\ StaleCallsAreOld /\ SingleProbe

USE BreakerConfig DEF BreakerConfig, Unset, States, Outcomes

LEMMA InitSafety == Init => SafetyInv
  <1> SUFFICES ASSUME Init PROVE SafetyInv
    OBVIOUS
  <1>1. probeInFlight \in BOOLEAN /\ up \in BOOLEAN /\ ProbeFlagHeld
    BY Zenon DEF Init, ProbeFlagHeld
  <1>2. QED
    BY <1>1 DEF Init, SafetyInv, TypeOK, FieldsAgree, InFlight

\* One step per action: the type, the flag and the fields are re-established by
\* every critical section, by time and by the environment.
LEMMA StepSafety == SafetyInv /\ [Next]_vars => SafetyInv'
  <1> SUFFICES ASSUME SafetyInv, [Next]_vars PROVE SafetyInv'
    OBVIOUS
  <1> USE DEF SafetyInv, TypeOK, ProbeFlagHeld, FieldsAgree, InFlight, Min2
  <1>1. ASSUME NEW c \in Callers, Admit(c) PROVE SafetyInv'
    BY <1>1 DEF Admit, SeenState, SeenProbe, Expired
  <1>2. ASSUME NEW c \in Callers, Reject(c) PROVE SafetyInv'
    BY <1>2 DEF Reject, SeenState, SeenProbe, Expired, envVars
  <1>3. ASSUME NEW c \in Callers, Fail(c) PROVE SafetyInv'
    <2>1. probeInFlight' \in BOOLEAN /\ ProbeFlagHeld'
      BY <1>3, Zenon DEF Fail, RecordFailure
    <2>2. QED
      BY <1>3, <2>1 DEF Fail, RecordFailure
  <1>4. ASSUME NEW c \in Callers, Succeed(c) PROVE SafetyInv'
    <2>1. probeInFlight' \in BOOLEAN /\ ProbeFlagHeld'
      BY <1>4, Zenon DEF Succeed, RecordSuccess
    <2>2. QED
      BY <1>4, <2>1 DEF Succeed, RecordSuccess
  <1>5. CASE Snapshot
    BY <1>5 DEF Snapshot, SeenState, SeenProbe, Expired, envVars
  <1>6. CASE Tick
    BY <1>6 DEF Tick, envVars
  <1>7. CASE Toggle
    BY <1>7 DEF Toggle, breakerVars
  <1>8. CASE UNCHANGED vars
    BY <1>8 DEF vars, breakerVars, envVars
  <1>9. QED
    BY <1>1, <1>2, <1>3, <1>4, <1>5, <1>6, <1>7, <1>8 DEF Next

\* Every field keeps its type, whatever callers interleave.
THEOREM TypeCorrect == Spec => []TypeOK
  <1>1. SafetyInv => TypeOK
    BY DEF SafetyInv
  <1>2. QED
    BY InitSafety, StepSafety, <1>1, PTL DEF Spec

\* The probe flag is never left set with nobody to clear it, so the breaker
\* cannot wedge itself in HALF_OPEN.
THEOREM ProbeFlagNeverLeaks == Spec => []ProbeFlagHeld
  <1>1. SafetyInv => ProbeFlagHeld
    BY DEF SafetyInv
  <1>2. QED
    BY InitSafety, StepSafety, <1>1, PTL DEF Spec

\* The failure count and the opening time always agree with the state, so an
\* OPEN breaker always has an opening time to expire from.
THEOREM FieldsAlwaysAgree == Spec => []FieldsAgree
  <1>1. SafetyInv => FieldsAgree
    BY DEF SafetyInv
  <1>2. QED
    BY InitSafety, StepSafety, <1>1, PTL DEF Spec

\* call, _record_failure, _record_success: no order of
\* stale and fresh outcomes makes the four fields contradict each other.
THEOREM StateAlwaysSound == Spec => []StateSound
  BY ProbeFlagNeverLeaks, FieldsAlwaysAgree, PTL DEF StateSound

-----------------------------------------------------------------------------
LEMMA InitProbe == Init => ProbeInv
  BY InitSafety DEF Init, ProbeInv, StaleCallsAreOld, SingleProbe

\* When OPEN expires, the calls admitted before it opened have timed out:
\* callAge >= openAge >= ResetTimeout > CallBound is impossible.
LEMMA NoneLeftAtExpiry ==
  ASSUME CallBound < ResetTimeout, TypeOK, StaleCallsAreOld, Expired
  PROVE  InFlight = {}
  <1>1. ASSUME NEW c \in InFlight PROVE FALSE
    <2>1. callAge[c] >= openAge /\ openAge >= ResetTimeout
      BY DEF StaleCallsAreOld, Expired
    <2>2. callAge[c] \in 0..CallBound /\ openAge \in 0..ResetTimeout
      BY DEF TypeOK, InFlight, Expired
    <2>3. QED
      BY <2>1, <2>2
  <1>2. QED
    BY <1>1

LEMMA StepProbe ==
  ASSUME CallBound < ResetTimeout
  PROVE  ProbeInv /\ [Next]_vars => ProbeInv'
  <1> SUFFICES ASSUME ProbeInv, [Next]_vars
               PROVE  StaleCallsAreOld' /\ SingleProbe'
    BY StepSafety DEF ProbeInv
  <1> USE DEF InFlight
  <1>0. /\ TypeOK /\ ProbeFlagHeld /\ FieldsAgree
        /\ StaleCallsAreOld /\ SingleProbe
    BY DEF ProbeInv, SafetyInv
  <1>e. Expired => InFlight = {}
    BY <1>0, NoneLeftAtExpiry
  <1>1. ASSUME NEW c \in Callers, Admit(c)
        PROVE  StaleCallsAreOld' /\ SingleProbe'
    <2>1. state' # "open"
      BY <1>1 DEF Admit, SeenState
    <2>2. state' = "half_open" => InFlight = {} /\ probeInFlight'
      BY <1>0, <1>1, <1>e DEF Admit, SeenState, SeenProbe, StaleCallsAreOld
    <2>3. InFlight' = InFlight \cup {c}
      BY <1>0, <1>1 DEF Admit, TypeOK
    <2>4. QED
      BY <2>1, <2>2, <2>3 DEF StaleCallsAreOld, SingleProbe
  <1>2. ASSUME NEW c \in Callers, Reject(c)
        PROVE  StaleCallsAreOld' /\ SingleProbe'
    <2>1. ~Expired /\ state' = state /\ probeInFlight' = probeInFlight
      BY <1>2 DEF Reject, SeenState, SeenProbe
    <2>2. InFlight' = InFlight /\ callAge' = callAge /\ openAge' = openAge
      BY <1>0, <1>2 DEF Reject, TypeOK
    <2>3. QED
      BY <1>0, <2>1, <2>2 DEF StaleCallsAreOld, SingleProbe
  <1>3. ASSUME NEW c \in Callers, Fail(c)
        PROVE  StaleCallsAreOld' /\ SingleProbe'
    <2>1. InFlight' = InFlight \ {c}
      BY <1>0, <1>3 DEF Fail, TypeOK
    <2>2. state' # "half_open"
      BY <1>0, <1>3 DEF Fail, RecordFailure, TypeOK
    <2>3. \A d \in InFlight' : callAge'[d] \in Nat /\ callAge'[d] = callAge[d]
      BY <1>0, <1>3, <2>1 DEF Fail, TypeOK
    <2>4. state' = "open" => openAge' = 0 \/ (state = "open" /\ openAge' = openAge)
      BY <1>0, <1>3 DEF Fail, RecordFailure, TypeOK
    <2>5. QED
      BY <1>0, <2>1, <2>2, <2>3, <2>4 DEF StaleCallsAreOld, SingleProbe
  <1>4. ASSUME NEW c \in Callers, Succeed(c)
        PROVE  StaleCallsAreOld' /\ SingleProbe'
    BY <1>4 DEF Succeed, RecordSuccess, StaleCallsAreOld, SingleProbe
  <1>5. CASE Snapshot
    <2>1. InFlight = {} /\ InFlight' = InFlight
      BY <1>5, <1>e DEF Snapshot
    <2>2. QED
      BY <1>5, <2>1 DEF Snapshot, SeenState, StaleCallsAreOld, SingleProbe
  <1>6. CASE Tick
    <2>1. InFlight' = InFlight /\ state' = state /\ probeInFlight' = probeInFlight
      BY <1>6 DEF Tick
    <2>2. \A d \in InFlight : callAge'[d] = callAge[d] + 1 /\ callAge[d] \in Nat
      BY <1>0, <1>6 DEF Tick, TypeOK
    <2>3. state = "open" => openAge' <= openAge + 1 /\ openAge \in Nat /\ openAge' \in Nat
      BY <1>0, <1>6 DEF Tick, TypeOK, FieldsAgree, Min2
    <2>4. QED
      BY <1>0, <2>1, <2>2, <2>3 DEF StaleCallsAreOld, SingleProbe
  <1>7. CASE Toggle
    BY <1>0, <1>7 DEF Toggle, breakerVars, StaleCallsAreOld, SingleProbe
  <1>8. CASE UNCHANGED vars
    BY <1>0, <1>8 DEF vars, breakerVars, envVars, StaleCallsAreOld, SingleProbe
  <1>9. QED
    BY <1>1, <1>2, <1>3, <1>4, <1>5, <1>6, <1>7, <1>8 DEF Next

\* With a call bound below the reset timeout, HALF_OPEN lets exactly one call
\* reach the dependency: no call admitted earlier is still running.
THEOREM ProbeIsAlone ==
  ASSUME CallBound < ResetTimeout
  PROVE  Spec => []SingleProbe
  <1>1. ProbeInv /\ [Next]_vars => ProbeInv'
    BY StepProbe
  <1>2. ProbeInv => SingleProbe
    BY DEF ProbeInv
  <1>3. QED
    BY InitProbe, <1>1, <1>2, PTL DEF Spec

HIDE BreakerConfig DEF BreakerConfig, Unset, States, Outcomes

-----------------------------------------------------------------------------
(***************************************************************************)
(* BudgetGuard.                                                            *)
(***************************************************************************)
Committed == recorded + MaxCost * Cardinality(Underway)

BudgetInv == BudgetTypeOK /\ Committed <= Ceiling

USE BudgetConfig DEF BudgetConfig

LEMMA BudgetTypeInit == BudgetInit => BudgetTypeOK
  BY DEF BudgetInit, BudgetTypeOK, Ended, Costs

LEMMA BudgetTypeStep == BudgetTypeOK /\ [BudgetNext]_budgetVars => BudgetTypeOK'
  <1> SUFFICES ASSUME BudgetTypeOK, [BudgetNext]_budgetVars PROVE BudgetTypeOK'
    OBVIOUS
  <1> USE DEF BudgetTypeOK, Ended, Costs, callerVars, moneyVars, budgetVars
  <1>1. ASSUME NEW c \in Clients, Allow(c) PROVE BudgetTypeOK'
    BY <1>1 DEF Allow
  <1>2. ASSUME NEW c \in Clients, Refuse(c) PROVE BudgetTypeOK'
    BY <1>2 DEF Refuse
  <1>3. ASSUME NEW c \in Clients, ReadFails(c) PROVE BudgetTypeOK'
    BY <1>3 DEF ReadFails
  <1>4. ASSUME NEW c \in Clients, NEW cost \in Costs, ProviderAnswers(c, cost) PROVE BudgetTypeOK'
    BY <1>4 DEF ProviderAnswers
  <1>5. ASSUME NEW c \in Clients, NEW cost \in Costs, AttemptFails(c, cost) PROVE BudgetTypeOK'
    BY <1>5 DEF AttemptFails
  <1>6. ASSUME NEW c \in Clients, GiveUp(c) PROVE BudgetTypeOK'
    BY <1>6 DEF GiveUp
  <1>7. ASSUME NEW c \in Clients, Record(c) PROVE BudgetTypeOK'
    BY <1>7 DEF Record, Settle
  <1>8. ASSUME NEW c \in Clients, Unrecorded(c) PROVE BudgetTypeOK'
    BY <1>8 DEF Unrecorded, Settle
  <1>9. CASE NewDay
    BY <1>9 DEF NewDay
  <1>10. CASE UNCHANGED budgetVars
    BY <1>10
  <1>11. QED
    BY <1>1, <1>2, <1>3, <1>4, <1>5, <1>6, <1>7, <1>8, <1>9, <1>10 DEF BudgetNext

-----------------------------------------------------------------------------
\* Multiples of MaxCost grow with the factor.
LEMMA CostOfOneMore ==
  ASSUME NEW k \in Nat
  PROVE  MaxCost * (k + 1) = MaxCost * k + MaxCost /\ MaxCost * k \in Nat
  OBVIOUS

LEMMA CostOfFewer ==
  ASSUME NEW k \in Nat, NEW n \in Nat, k <= n
  PROVE  MaxCost * k <= MaxCost * n
  OBVIOUS

\* The callers in flight are finitely many, and never more than there are
\* callers.
LEMMA InFlightIsFinite ==
  /\ IsFiniteSet(Underway) /\ Cardinality(Underway) \in Nat
  /\ Cardinality(Clients) \in Nat
  /\ Cardinality(Underway) <= Cardinality(Clients)
  <1>1. Underway \subseteq Clients
    BY DEF Underway, Calling, Answered
  <1>2. QED
    BY <1>1, FS_Subset, FS_CardinalityType

LEMMA InFlightIsFiniteAfter ==
  /\ IsFiniteSet(Underway') /\ Cardinality(Underway') \in Nat
  /\ Cardinality(Underway') <= Cardinality(Clients)
  <1>1. Underway' \subseteq Clients
    BY DEF Underway, Calling, Answered
  <1>2. QED
    BY <1>1, FS_Subset, FS_CardinalityType

\* A step that settles a call, records at most MaxCost for it and admits none
\* keeps the commitment.
LEMMA SettleKeepsCommitment ==
  ASSUME BudgetTypeOK, BudgetTypeOK', Committed <= Ceiling,
         NEW c \in Underway, Underway' = Underway \ {c},
         recorded' <= recorded + MaxCost
  PROVE  Committed' <= Ceiling
  <1> DEFINE k == Cardinality(Underway')
  <1>1. Cardinality(Underway) = k + 1 /\ k \in Nat
    <2>1. Cardinality(Underway \ {c}) = Cardinality(Underway) - 1
      BY InFlightIsFinite, FS_RemoveElement
    <2>2. QED
      BY <2>1, InFlightIsFinite, InFlightIsFiniteAfter
  <1>2. MaxCost * Cardinality(Underway) = MaxCost * k + MaxCost /\ MaxCost * k \in Nat
    BY <1>1, CostOfOneMore
  <1>3. recorded \in Nat /\ recorded' \in Nat
    BY DEF BudgetTypeOK
  <1>4. Ceiling \in Int
    BY InFlightIsFinite, CostOfOneMore DEF Ceiling
  <1>5. Committed' = recorded' + MaxCost * k
    BY DEF Committed
  <1>6. recorded + (MaxCost * k + MaxCost) <= Ceiling
    BY <1>2 DEF Committed
  <1> HIDE DEF k
  <1>7. QED
    BY <1>2, <1>3, <1>4, <1>5, <1>6

LEMMA CommitmentStep ==
  BudgetTypeOK /\ BudgetTypeOK' /\ Committed <= Ceiling /\ [BudgetNext]_budgetVars => Committed' <= Ceiling
  <1> SUFFICES ASSUME BudgetTypeOK, BudgetTypeOK', Committed <= Ceiling, [BudgetNext]_budgetVars
               PROVE  Committed' <= Ceiling
    OBVIOUS
  <1> USE DEF callerVars, moneyVars, budgetVars
  <1>same. ASSUME Underway' = Underway, recorded' = recorded PROVE Committed' <= Ceiling
    BY <1>same DEF Committed
  \* The claims of all callers together are within the ceiling when the sum is below the cap.
  <1>room. ASSUME recorded' <= Cap - 1 PROVE Committed' <= Ceiling
    <2>1. MaxCost * Cardinality(Underway') <= MaxCost * Cardinality(Clients)
      BY InFlightIsFinite, InFlightIsFiniteAfter, CostOfFewer
    <2>2. MaxCost * Cardinality(Underway') \in Nat /\ MaxCost * Cardinality(Clients) \in Nat
      BY InFlightIsFinite, InFlightIsFiniteAfter, CostOfOneMore
    <2>3. recorded' \in Nat
      BY DEF BudgetTypeOK
    <2>4. QED
      BY <1>room, <2>1, <2>2, <2>3 DEF Committed, Ceiling
  <1>1. ASSUME NEW c \in Clients, Allow(c) PROVE Committed' <= Ceiling
    <2>1. recorded' <= Cap - 1
      BY <1>1 DEF Allow, BudgetTypeOK
    <2>2. QED
      BY <2>1, <1>room
  <1>2. ASSUME NEW c \in Clients, Refuse(c) \/ ReadFails(c) PROVE Committed' <= Ceiling
    <2>1. Underway' = Underway
      BY <1>2 DEF Refuse, ReadFails, Underway, Calling, Answered, BudgetTypeOK, Ended
    <2>2. QED
      BY <1>2, <2>1, <1>same DEF Refuse, ReadFails
  <1>3. ASSUME NEW c \in Clients, NEW cost \in Costs, ProviderAnswers(c, cost)
        PROVE  Committed' <= Ceiling
    <2>1. Underway' = Underway
      BY <1>3 DEF ProviderAnswers, Underway, Calling, Answered, BudgetTypeOK
    <2>2. QED
      BY <1>3, <2>1, <1>same DEF ProviderAnswers
  <1>4. ASSUME NEW c \in Clients, NEW cost \in Costs, AttemptFails(c, cost)
        PROVE  Committed' <= Ceiling
    <2>1. CASE attempt[c] < MaxAttempts
      <3>1. Underway' = Underway
        BY <1>4, <2>1 DEF AttemptFails, Underway, Calling, Answered
      <3>2. QED
        BY <1>4, <3>1, <1>same DEF AttemptFails
    <2>2. CASE ~(attempt[c] < MaxAttempts)
      <3>1. c \in Underway /\ Underway' = Underway \ {c}
        BY <1>4, <2>2 DEF AttemptFails, Underway, Calling, Answered, BudgetTypeOK
      <3>2. recorded' <= recorded + MaxCost
        BY <1>4 DEF AttemptFails, BudgetTypeOK
      <3>3. QED
        BY <3>1, <3>2, SettleKeepsCommitment
    <2>3. QED
      BY <2>1, <2>2
  <1>5. ASSUME NEW c \in Clients, GiveUp(c) PROVE Committed' <= Ceiling
    <2>1. c \in Underway /\ Underway' = Underway \ {c}
      BY <1>5 DEF GiveUp, Underway, Calling, Answered, BudgetTypeOK
    <2>2. recorded' <= recorded + MaxCost
      BY <1>5 DEF GiveUp, BudgetTypeOK
    <2>3. QED
      BY <2>1, <2>2, SettleKeepsCommitment
  <1>6. ASSUME NEW c \in Clients, Record(c) \/ Unrecorded(c) PROVE Committed' <= Ceiling
    <2>1. c \in Underway /\ Underway' = Underway \ {c}
      BY <1>6 DEF Record, Unrecorded, Settle, Underway, Calling, Answered, BudgetTypeOK
    <2>2. recorded' <= recorded + MaxCost
      BY <1>6 DEF Record, Unrecorded, BudgetTypeOK, Costs
    <2>3. QED
      BY <2>1, <2>2, SettleKeepsCommitment
  <1>7. CASE NewDay
    <2>1. recorded' <= Cap - 1
      BY <1>7 DEF NewDay
    <2>2. QED
      BY <2>1, <1>room
  <1>8. CASE UNCHANGED budgetVars
    <2>1. Underway' = Underway
      BY <1>8 DEF Underway, Calling, Answered
    <2>2. QED
      BY <1>8, <2>1, <1>same
  <1>9. QED
    BY <1>1, <1>2, <1>3, <1>4, <1>5, <1>6, <1>7, <1>8 DEF BudgetNext

LEMMA BudgetInvHolds == BudgetSpec => []BudgetInv
  <1>1. BudgetInit => BudgetInv
    <2> SUFFICES ASSUME BudgetInit PROVE BudgetInv
      OBVIOUS
    <2>1. Underway = {} /\ recorded = 0
      BY DEF BudgetInit, Underway, Calling, Answered
    <2>2. Committed = 0
      BY <2>1, FS_EmptySet DEF Committed
    <2>3. MaxCost * Cardinality(Clients) \in Nat
      BY InFlightIsFinite, CostOfOneMore
    <2>4. QED
      BY <2>2, <2>3, BudgetTypeInit DEF BudgetInv, Ceiling
  <1>2. BudgetInv /\ [BudgetNext]_budgetVars => BudgetInv'
    <2> SUFFICES ASSUME BudgetInv, [BudgetNext]_budgetVars PROVE BudgetInv'
      OBVIOUS
    <2>1. BudgetTypeOK'
      BY BudgetTypeStep DEF BudgetInv
    <2>2. (Committed <= Ceiling)'
      BY <2>1, CommitmentStep DEF BudgetInv, Ceiling
    <2>3. QED
      BY <2>1, <2>2 DEF BudgetInv
  <1>3. QED
    BY <1>1, <1>2, PTL DEF BudgetSpec

\* Every variable keeps its type.
THEOREM BudgetTypeCorrect == BudgetSpec => []BudgetTypeOK
  <1>1. BudgetInv => BudgetTypeOK
    BY DEF BudgetInv
  <1>2. QED
    BY <1>1, BudgetInvHolds, PTL

\* The day's recorded spend stays below the cap plus one call per concurrent
\* caller (check_and_raise reserves nothing, complete records afterwards).
THEOREM OvershootAlwaysBounded == BudgetSpec => []OvershootBounded
  <1>1. BudgetInv => OvershootBounded
    <2> SUFFICES ASSUME BudgetInv PROVE OvershootBounded
      OBVIOUS
    <2>1. MaxCost * Cardinality(Underway) \in Nat /\ recorded \in Nat
      BY InFlightIsFinite, CostOfOneMore DEF BudgetInv, BudgetTypeOK
    <2>2. Ceiling \in Int
      BY InFlightIsFinite, CostOfOneMore DEF Ceiling
    <2>3. QED
      BY <2>1, <2>2 DEF BudgetInv, Committed, OvershootBounded
  <1>2. QED
    BY <1>1, BudgetInvHolds, PTL

-----------------------------------------------------------------------------
(***************************************************************************)
(* Charges.  What the provider has charged today and no row or escape      *)
(* accounts for is in the hands of callers with an answer.  A sum over     *)
(* callers is the number of units they hold, as a set of pairs, so that    *)
(* the facts about finite sets apply to it.                                *)
(***************************************************************************)
Held == {u \in Clients \X (1..MaxCost) : stage[u[1]] = "answered" /\ u[2] <= due[u[1]]}

Visible == billed - escaped

MoneyInv ==
    /\ BudgetTypeOK
    /\ Visible <= recorded + Cardinality(Held)
    /\ Visible + MaxCost * Cardinality(Calling) <= Ceiling

LEMMA UnitsOf ==
  ASSUME NEW c, NEW n \in Costs
  PROVE  IsFiniteSet({c} \X (1..n)) /\ Cardinality({c} \X (1..n)) = n
  <1>1. IsFiniteSet({c}) /\ Cardinality({c}) = 1
    BY FS_Singleton
  <1>2. IsFiniteSet(1..n) /\ Cardinality(1..n) = n
    BY FS_Interval DEF Costs
  <1>3. Cardinality({c} \X (1..n)) = 1 * n
    BY <1>1, <1>2, FS_Product
  <1>4. QED
    BY <1>1, <1>2, <1>3, FS_Product DEF Costs

\* Nobody holds more than MaxCost, and nobody is calling and has an answer.
LEMMA Counts ==
  ASSUME BudgetTypeOK
  PROVE  /\ IsFiniteSet(Held) /\ Cardinality(Held) \in Nat
         /\ IsFiniteSet(Calling) /\ Cardinality(Calling) \in Nat
         /\ IsFiniteSet(Answered) /\ Cardinality(Answered) \in Nat
         /\ Cardinality(Held) <= Cardinality(Answered) * MaxCost
         /\ Cardinality(Calling) + Cardinality(Answered) <= Cardinality(Clients)
         /\ Cardinality(Clients) \in Nat
  <1>1. /\ Calling \subseteq Clients /\ Answered \subseteq Clients
        /\ Calling \cap Answered = {} /\ Calling \cup Answered \subseteq Clients
    BY DEF Calling, Answered
  <1>2. /\ IsFiniteSet(Calling) /\ IsFiniteSet(Answered)
        /\ Cardinality(Calling) \in Nat /\ Cardinality(Answered) \in Nat
        /\ Cardinality(Clients) \in Nat
    BY <1>1, FS_Subset, FS_CardinalityType
  <1>3. Cardinality(Calling) + Cardinality(Answered) <= Cardinality(Clients)
    <2>1. Cardinality(Calling \cup Answered) = Cardinality(Calling) + Cardinality(Answered) - 0
      BY <1>1, <1>2, FS_Union, FS_EmptySet
    <2>2. Cardinality(Calling \cup Answered) <= Cardinality(Clients)
      BY <1>1, FS_Subset
    <2>3. QED
      BY <1>2, <2>1, <2>2
  <1>4. /\ IsFiniteSet(Answered \X (1..MaxCost))
        /\ Cardinality(Answered \X (1..MaxCost)) = Cardinality(Answered) * MaxCost
    <2>1. IsFiniteSet(1..MaxCost) /\ Cardinality(1..MaxCost) = MaxCost
      BY FS_Interval
    <2>2. QED
      BY <1>2, <2>1, FS_Product
  <1>5. Held \subseteq Answered \X (1..MaxCost)
    BY DEF Held, Answered
  <1>6. QED
    BY <1>2, <1>3, <1>4, <1>5, FS_Subset, FS_CardinalityType

LEMMA MoneyInit == BudgetInit => MoneyInv
  <1> SUFFICES ASSUME BudgetInit PROVE MoneyInv
    OBVIOUS
  <1>1. BudgetTypeOK
    BY BudgetTypeInit
  <1>2. Held = {} /\ Calling = {} /\ Visible = 0 /\ recorded = 0
    BY DEF BudgetInit, Held, Calling, Visible
  <1>3. Cardinality(Clients) \in Nat
    BY FS_CardinalityType
  <1>4. MaxCost * Cardinality(Clients) \in Nat
    BY <1>3, CostOfOneMore
  <1>5. QED
    BY <1>1, <1>2, <1>4, FS_EmptySet DEF MoneyInv, Ceiling

\* A step that leaves answers alone, lets no more be seen and admits nobody.
LEMMA QuietStep ==
  ASSUME MoneyInv, BudgetTypeOK', Held' = Held, Calling' \subseteq Calling,
         Visible' = Visible, recorded' = recorded
  PROVE  MoneyInv'
  <1>1. Cardinality(Calling') <= Cardinality(Calling) /\ Cardinality(Calling') \in Nat
    BY Counts, FS_Subset, FS_CardinalityType DEF MoneyInv
  <1>2. MaxCost * Cardinality(Calling') <= MaxCost * Cardinality(Calling)
    BY <1>1, Counts, CostOfFewer DEF MoneyInv
  <1>3. /\ Visible \in Int /\ Ceiling \in Int /\ MaxCost * Cardinality(Calling') \in Int
        /\ MaxCost * Cardinality(Calling) \in Int
    BY <1>1, Counts, CostOfOneMore DEF MoneyInv, BudgetTypeOK, Visible, Ceiling
  <1>4. QED
    BY <1>2, <1>3 DEF MoneyInv, Ceiling

\* A caller with an answer settles: its units go, to a row or to an escape.
LEMMA SettleStep ==
  ASSUME MoneyInv, BudgetTypeOK', NEW c \in Clients, NEW outcome \in Ended, Settle(c, outcome),
         \/ recorded' = recorded + due[c] /\ escaped' = escaped
         \/ recorded' = recorded /\ escaped' = escaped + due[c]
  PROVE  MoneyInv'
  <1>1. due[c] \in Costs /\ due[c] \in Nat
    BY DEF MoneyInv, BudgetTypeOK, Costs
  <1>2. Held' = Held \ ({c} \X (1..due[c])) /\ {c} \X (1..due[c]) \subseteq Held
    <2>1. {c} \X (1..due[c]) \subseteq Held
      BY <1>1 DEF Settle, Held, Costs
    <2>2. \A u \in Clients \X (1..MaxCost) : u \in Held' <=> u \in Held /\ u[1] # c
      BY DEF Settle, Held, MoneyInv, BudgetTypeOK, Ended
    <2>3. \A u \in Held : u[1] = c => u \in {c} \X (1..due[c])
      BY <1>1 DEF Held
    <2>4. Held' \subseteq Clients \X (1..MaxCost) /\ Held \subseteq Clients \X (1..MaxCost)
      BY DEF Held
    <2>5. QED
      BY <2>1, <2>2, <2>3, <2>4
  <1>3. Cardinality(Held') = Cardinality(Held) - due[c]
    <2>1. Held \cap ({c} \X (1..due[c])) = {c} \X (1..due[c])
      BY <1>2
    <2>2. IsFiniteSet(Held) /\ Cardinality({c} \X (1..due[c])) = due[c]
      BY <1>1, UnitsOf, Counts DEF MoneyInv
    <2> DEFINE units == {c} \X (1..due[c])
    <2>3. Cardinality(Held \ units) = Cardinality(Held) - Cardinality(Held \cap units)
      BY <2>2, FS_Difference
    <2>4. QED
      BY <1>2, <2>1, <2>2, <2>3, Zenon
  <1>4. Calling' = Calling
    BY DEF Settle, Calling, MoneyInv, BudgetTypeOK, Ended
  <1>5. billed' = billed
    BY DEF Settle
  <1>t. billed \in Nat /\ recorded \in Nat /\ escaped \in Nat /\ Cardinality(Held) \in Nat
    BY Counts DEF MoneyInv, BudgetTypeOK
  <1>6. Visible' <= recorded' + Cardinality(Held')
    BY <1>1, <1>3, <1>5, <1>t DEF MoneyInv, Visible
  <1>7. Visible' <= Visible
    BY <1>1, <1>5, <1>t DEF Visible
  <1>8. /\ Visible \in Int /\ Visible' \in Int /\ Ceiling \in Int
        /\ MaxCost * Cardinality(Calling) \in Int
    BY Counts, CostOfOneMore DEF MoneyInv, BudgetTypeOK, Visible, Ceiling
  <1>9. QED
    BY <1>4, <1>6, <1>7, <1>8 DEF MoneyInv, Ceiling

LEMMA AdmitMoney ==
  ASSUME MoneyInv, BudgetTypeOK', NEW c \in Clients, Allow(c)
  PROVE  MoneyInv'
  <1>1. Held' = Held /\ Answered' = Answered /\ Visible' = Visible /\ recorded' = recorded
    BY DEF Allow, Held, Answered, Visible, MoneyInv, BudgetTypeOK, Ended, moneyVars
  <1>2. /\ Cardinality(Calling') \in Nat /\ Cardinality(Answered) \in Nat
        /\ Cardinality(Calling') + Cardinality(Answered) <= Cardinality(Clients)
        /\ Cardinality(Clients) \in Nat
    <2>1. (BudgetTypeOK => /\ Cardinality(Calling) \in Nat /\ Cardinality(Answered) \in Nat
                     /\ Cardinality(Calling) + Cardinality(Answered) <= Cardinality(Clients)
                     /\ Cardinality(Clients) \in Nat)'
      BY Counts, PTL
    <2>2. QED
      BY <1>1, <2>1
  <1>3. Visible <= Cap - 1 + MaxCost * Cardinality(Answered)
    <2>1. recorded <= Cap - 1 /\ recorded \in Nat /\ Visible \in Int
      BY DEF Allow, MoneyInv, BudgetTypeOK, Visible
    <2>2. Cardinality(Held) <= MaxCost * Cardinality(Answered)
      BY Counts, <1>2 DEF MoneyInv
    <2>3. MaxCost * Cardinality(Answered) \in Nat /\ Cardinality(Held) \in Nat
      BY Counts, CostOfOneMore DEF MoneyInv
    <2>4. QED
      BY <2>1, <2>2, <2>3 DEF MoneyInv
  <1>4. MaxCost * Cardinality(Answered) + MaxCost * Cardinality(Calling')
          <= MaxCost * Cardinality(Clients)
    <2>1. MaxCost * (Cardinality(Calling') + Cardinality(Answered)) <= MaxCost * Cardinality(Clients)
      BY <1>2, CostOfFewer
    <2>2. ASSUME NEW a \in Nat, NEW b \in Nat PROVE MaxCost * (a + b) = MaxCost * b + MaxCost * a
      OBVIOUS
    <2>3. QED
      BY <1>2, <2>1, <2>2
  <1>5. /\ MaxCost * Cardinality(Answered) \in Nat /\ MaxCost * Cardinality(Calling') \in Nat
        /\ MaxCost * Cardinality(Clients) \in Nat /\ Visible \in Int
    BY <1>2, CostOfOneMore DEF MoneyInv, BudgetTypeOK, Visible
  <1>6. Visible' + MaxCost * Cardinality(Calling') <= Ceiling
    BY <1>1, <1>3, <1>4, <1>5 DEF Ceiling
  <1>7. QED
    BY <1>1, <1>6 DEF MoneyInv, Ceiling

\* The provider charges for an answer, and the caller holds its units; it is no
\* longer calling, so that the place kept for the charge is taken by it.
LEMMA AnswerMoney ==
  ASSUME MoneyInv, BudgetTypeOK', NEW c \in Clients, NEW cost \in Costs, ProviderAnswers(c, cost)
  PROVE  MoneyInv'
  <1> DEFINE units == {c} \X (1..cost)
  <1>1. Held' = Held \cup units /\ Held \cap units = {}
    <2>1. units \subseteq Held'
      BY DEF ProviderAnswers, Held, MoneyInv, BudgetTypeOK, Costs
    <2>2. \A u \in Clients \X (1..MaxCost) : u[1] # c => (u \in Held' <=> u \in Held)
      BY DEF ProviderAnswers, Held, MoneyInv, BudgetTypeOK
    <2>3. \A u \in Held' : u[1] = c => u \in units
      BY DEF ProviderAnswers, Held, MoneyInv, BudgetTypeOK, Costs
    <2>4. \A u \in Held : u[1] # c
      BY DEF ProviderAnswers, Held
    <2>5. Held' \subseteq Clients \X (1..MaxCost) /\ Held \subseteq Clients \X (1..MaxCost)
      BY DEF Held
    <2>6. QED
      BY <2>1, <2>2, <2>3, <2>4, <2>5
  <1>2. Cardinality(Held') = Cardinality(Held) + cost
    <2>1. IsFiniteSet(units) /\ Cardinality(units) = cost /\ IsFiniteSet(Held)
      BY UnitsOf, Counts DEF MoneyInv
    <2>2. Cardinality(Held \cup units) = Cardinality(Held) + Cardinality(units) - Cardinality(Held \cap units)
      BY <2>1, FS_Union
    <2>3. Cardinality(Held \cap units) = 0
      BY <1>1, FS_EmptySet
    <2>4. Cardinality(Held) \in Nat
      BY Counts DEF MoneyInv
    <2> HIDE DEF units
    <2>5. QED
      BY <1>1, <2>1, <2>2, <2>3, <2>4 DEF Costs
  <1>3. Calling' = Calling \ {c} /\ c \in Calling
    BY DEF ProviderAnswers, Calling, MoneyInv, BudgetTypeOK
  <1>4. Cardinality(Calling) = Cardinality(Calling') + 1 /\ Cardinality(Calling') \in Nat
    <2>1. IsFiniteSet(Calling) /\ Cardinality(Calling) \in Nat
      BY Counts DEF MoneyInv
    <2>2. IsFiniteSet(Calling') /\ Cardinality(Calling') \in Nat
      BY <1>3, <2>1, FS_RemoveElement, FS_CardinalityType
    <2>3. Cardinality(Calling \ {c}) = Cardinality(Calling) - 1
      BY <1>3, <2>1, FS_RemoveElement
    <2>4. QED
      BY <1>3, <2>1, <2>2, <2>3
  <1>5. MaxCost * Cardinality(Calling) = MaxCost * Cardinality(Calling') + MaxCost
        /\ MaxCost * Cardinality(Calling') \in Nat
    BY <1>4, CostOfOneMore
  <1>6. billed' = billed + cost /\ escaped' = escaped /\ recorded' = recorded
        /\ cost \in Nat /\ cost <= MaxCost
    BY DEF ProviderAnswers, Costs
  <1>7. billed \in Nat /\ recorded \in Nat /\ escaped \in Nat /\ Cardinality(Held) \in Nat
        /\ Ceiling \in Int
    BY Counts, CostOfOneMore DEF MoneyInv, BudgetTypeOK, Ceiling
  <1>8. Visible' <= recorded' + Cardinality(Held')
    BY <1>2, <1>6, <1>7 DEF MoneyInv, Visible
  <1>9. Visible' + MaxCost * Cardinality(Calling') <= Ceiling
    BY <1>5, <1>6, <1>7 DEF MoneyInv, Visible
  <1>10. QED
    BY <1>8, <1>9 DEF MoneyInv, Ceiling

LEMMA MoneyStep == MoneyInv /\ [BudgetNext]_budgetVars => MoneyInv'
  <1> SUFFICES ASSUME MoneyInv, [BudgetNext]_budgetVars PROVE MoneyInv'
    OBVIOUS
  <1>0. BudgetTypeOK /\ BudgetTypeOK'
    BY BudgetTypeStep DEF MoneyInv
  <1>1. ASSUME NEW c \in Clients, Allow(c) PROVE MoneyInv'
    BY <1>0, <1>1, AdmitMoney
  <1>2. ASSUME NEW c \in Clients, Refuse(c) \/ ReadFails(c) \/ GiveUp(c) PROVE MoneyInv'
    <2>1. Calling' \subseteq Calling /\ Held' = Held
      BY <1>0, <1>2 DEF Refuse, ReadFails, GiveUp, Calling, Held, Ended, BudgetTypeOK
    <2>2. Visible' = Visible /\ recorded' = recorded
      BY <1>2 DEF Refuse, ReadFails, GiveUp, moneyVars, Visible
    <2>3. QED
      BY <1>0, <2>1, <2>2, QuietStep
  <1>3. ASSUME NEW c \in Clients, NEW cost \in Costs, ProviderAnswers(c, cost) PROVE MoneyInv'
    BY <1>0, <1>3, AnswerMoney
  <1>4. ASSUME NEW c \in Clients, NEW cost \in Costs, AttemptFails(c, cost) PROVE MoneyInv'
    <2>1. Calling' \subseteq Calling /\ Held' = Held
      <3>1. CASE attempt[c] < MaxAttempts
        BY <1>4, <3>1 DEF AttemptFails, Calling, Held
      <3>2. CASE ~(attempt[c] < MaxAttempts)
        BY <1>0, <1>4, <3>2 DEF AttemptFails, Calling, Held, BudgetTypeOK
      <3>3. QED
        BY <3>1, <3>2
    <2>2. Visible' = Visible /\ recorded' = recorded
      <3>1. billed \in Nat /\ escaped \in Nat /\ cost \in Nat
        BY <1>0 DEF BudgetTypeOK, Costs
      <3>2. QED
        BY <1>4, <3>1 DEF AttemptFails, Visible
    <2>3. QED
      BY <1>0, <2>1, <2>2, QuietStep
  <1>5. ASSUME NEW c \in Clients, Record(c) PROVE MoneyInv'
    BY <1>0, <1>5, SettleStep DEF Record, Ended
  <1>6. ASSUME NEW c \in Clients, Unrecorded(c) PROVE MoneyInv'
    BY <1>0, <1>6, SettleStep DEF Unrecorded, Ended
  <1>7. CASE NewDay
    <2>1. Held' = Held /\ Calling' = Calling /\ Visible' = 0 /\ recorded' = 0
      BY <1>7 DEF NewDay, callerVars, Held, Calling, Visible
    <2>2. Cardinality(Held) \in Nat /\ Cardinality(Calling) \in Nat
          /\ Cardinality(Calling) <= Cardinality(Clients) /\ Cardinality(Clients) \in Nat
      BY <1>0, Counts
    <2>3. /\ MaxCost * Cardinality(Calling) <= MaxCost * Cardinality(Clients)
          /\ MaxCost * Cardinality(Calling) \in Nat /\ MaxCost * Cardinality(Clients) \in Nat
      BY <2>2, CostOfFewer, CostOfOneMore
    <2>4. QED
      BY <1>0, <2>1, <2>2, <2>3 DEF MoneyInv, Ceiling
  <1>8. CASE UNCHANGED budgetVars
    BY <1>0, <1>8, QuietStep DEF budgetVars, callerVars, moneyVars, Held, Calling, Visible
  <1>9. QED
    BY <1>1, <1>2, <1>3, <1>4, <1>5, <1>6, <1>7, <1>8 DEF BudgetNext

\* Whatever the provider charges beyond the ceiling is charged for attempts and
\* rows that failed: complete() never lets an answer it recorded, or still has in
\* hand, take the day past it, not even across midnight.
THEOREM SpendAlwaysAccounted == BudgetSpec => []SpendAccounted
  <1>1. MoneyInv => SpendAccounted
    <2> SUFFICES ASSUME MoneyInv PROVE SpendAccounted
      OBVIOUS
    <2>1. MaxCost * Cardinality(Calling) \in Nat /\ Visible \in Int /\ Ceiling \in Int
      BY Counts, CostOfOneMore DEF MoneyInv, BudgetTypeOK, Visible, Ceiling
    <2>2. QED
      BY <2>1 DEF MoneyInv, SpendAccounted, Visible
  <1>2. QED
    BY <1>1, MoneyInit, MoneyStep, PTL DEF BudgetSpec
=============================================================================
