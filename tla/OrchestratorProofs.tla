------------------------- MODULE OrchestratorProofs -------------------------
(***************************************************************************)
(* For any specialists and answers, however often a run dies, is resumed   *)
(* or started over: every report counts, none is recorded twice, and a     *)
(* CRITICAL finding is seen by a human.                                    *)
(*                                                                         *)
(* The last rests on deduplication: the best finding at a place survives   *)
(* (BestSurvives) because the four levels of IsBetter each have a least    *)
(* value among any findings.                                               *)
(***************************************************************************)
EXTENDS Orchestrator, WellFoundedInduction, TLAPS

USE AggregationConfig, OrchestratorConfig DEF AggregationConfig, OrchestratorConfig

LEMMA LeastNat ==
  ASSUME NEW S, S \subseteq Nat, S # {}
  PROVE  \E m \in S : \A n \in S : m <= n
  <1>1. \E m \in S : \A n \in S : <<n, m>> \notin OpToRel(<, Nat)
    BY NatLessThanWellFounded, WFMin
  <1>2. PICK m \in S : \A n \in S : <<n, m>> \notin OpToRel(<, Nat)
    BY <1>1
  <1>3. \A n \in S : ~(n < m)
    BY <1>2 DEF OpToRel
  <1>4. QED
    BY <1>3

\* Among any things ranked by naturals one has the least rank.
LEMMA LeastRanked ==
  ASSUME NEW S, S # {}, NEW rank \in [S -> Nat]
  PROVE  \E m \in S : \A n \in S : rank[m] <= rank[n]
  <1>1. {rank[x] : x \in S} \subseteq Nat /\ {rank[x] : x \in S} # {}
    OBVIOUS
  <1>2. PICK k \in {rank[x] : x \in S} : \A l \in {rank[x] : x \in S} : k <= l
    BY <1>1, LeastNat
  <1>3. PICK m \in S : k = rank[m]
    BY <1>2
  <1>4. \A n \in S : rank[m] <= rank[n]
    BY <1>2, <1>3
  <1>5. QED
    BY <1>4

\* Deduplication keeps, for each finding, one at its place that is at least as
\* severe (contracts.py dedupe_findings).
LEMMA BestSurvives ==
  ASSUME NEW F, F \subseteq Findings, NEW f \in F
  PROVE  \E g \in Dedupe(F) : g.place = f.place /\ g.severity <= f.severity
  <1> DEFINE Here == {g \in F : g.place = f.place}
  <1>0. \A g \in Findings : /\ g.severity \in Nat
                            /\ g.confidence \in Nat /\ g.confidence <= MaxConfidence
                            /\ Precedence[g.agent] \in Nat
                            /\ g.text \in Nat
    BY DEF Findings, Severities, CRITICAL
  <1>1. \E g \in Here : \A h \in Here : g.severity <= h.severity
    <2> DEFINE rank == [g \in Here |-> g.severity]
    <2>1. Here # {} /\ rank \in [Here -> Nat]
      BY <1>0
    <2>2. \E g \in Here : \A h \in Here : rank[g] <= rank[h]
      BY <2>1, LeastRanked
    <2>3. QED
      BY <2>2
  <1>2. PICK a \in Here : \A h \in Here : a.severity <= h.severity
    BY <1>1
  <1> DEFINE Severe == {g \in Here : g.severity = a.severity}
  <1>3. \E g \in Severe : \A h \in Severe : h.confidence <= g.confidence
    <2> DEFINE rank == [g \in Severe |-> MaxConfidence - g.confidence]
    <2>1. Severe # {} /\ rank \in [Severe -> Nat]
      BY <1>0
    <2>2. PICK g \in Severe : \A h \in Severe : rank[g] <= rank[h]
      BY <2>1, LeastRanked
    <2>3. ASSUME NEW h \in Severe PROVE h.confidence <= g.confidence
      <3>1. MaxConfidence - g.confidence <= MaxConfidence - h.confidence
        BY <2>2
      <3>2. QED
        BY <3>1, <1>0
    <2>4. QED
      BY <2>3
  <1>4. PICK b \in Severe : \A h \in Severe : h.confidence <= b.confidence
    BY <1>3
  <1> DEFINE Sure == {g \in Severe : g.confidence = b.confidence}
  <1>5. \E g \in Sure : \A h \in Sure : Precedence[g.agent] <= Precedence[h.agent]
    <2> DEFINE rank == [g \in Sure |-> Precedence[g.agent]]
    <2>1. Sure # {} /\ rank \in [Sure -> Nat]
      BY <1>0
    <2>2. \E g \in Sure : \A h \in Sure : rank[g] <= rank[h]
      BY <2>1, LeastRanked
    <2>3. QED
      BY <2>2
  <1>6. PICK c \in Sure : \A h \in Sure : Precedence[c.agent] <= Precedence[h.agent]
    BY <1>5
  <1> DEFINE First == {g \in Sure : Precedence[g.agent] = Precedence[c.agent]}
  <1>7. \E g \in First : \A h \in First : g.text <= h.text
    <2> DEFINE rank == [g \in First |-> g.text]
    <2>1. First # {} /\ rank \in [First -> Nat]
      BY <1>0
    <2>2. \E g \in First : \A h \in First : rank[g] <= rank[h]
      <3> HIDE DEF First, rank
      <3> QED
        BY <2>1, LeastRanked
    <2>3. QED
      BY <2>2
  <1>8. PICK d \in First : \A h \in First : d.text <= h.text
    BY <1>7
  <1>9. ASSUME NEW h \in F, h.place = d.place PROVE ~IsBetter(h, d)
    <2>1. h \in Here
      BY <1>9
    <2>2. ~(h.severity < d.severity)
      BY <1>0, <1>2, <2>1
    <2>3. h.severity = d.severity => ~(h.confidence > d.confidence)
      BY <1>0, <1>4, <2>1
    <2>4. h.severity = d.severity /\ h.confidence = d.confidence =>
              ~(Precedence[h.agent] < Precedence[d.agent])
      BY <1>0, <1>6, <2>1
    <2>5. h.severity = d.severity /\ h.confidence = d.confidence
              /\ Precedence[h.agent] = Precedence[d.agent] => ~(h.text < d.text)
      BY <1>0, <1>8, <2>1
    <2>6. QED
      BY <2>2, <2>3, <2>4, <2>5 DEF IsBetter
  <1>10. d \in F /\ d.place = f.place /\ d.severity <= f.severity
    BY <1>2
  <1>11. QED
    BY <1>9, <1>10 DEF Dedupe

\* A CRITICAL finding never disappears in deduplication (contracts.py
\* _is_better compares severity first).
LEMMA CriticalSurvives ==
  ASSUME NEW F, F \subseteq Findings, HasCritical(F)
  PROVE  HasCritical(Dedupe(F))
  <1>1. PICK f \in F : f.severity = CRITICAL
    BY DEF HasCritical
  <1>2. PICK g \in Dedupe(F) : g.severity <= f.severity
    BY BestSurvives
  <1>3. g \in Findings
    BY DEF Dedupe
  <1>4. g.severity = CRITICAL
    BY <1>1, <1>2, <1>3 DEF Findings, Severities, CRITICAL
  <1>5. QED
    BY <1>4 DEF HasCritical

-----------------------------------------------------------------------------
LEMMA FallbacksAreFindings ==
  ASSUME NEW s \in Specialists
  PROVE  {ParseFallback(s)} \subseteq Findings /\ {UnavailableFallback(s)} \subseteq Findings
  BY DEF ParseFallback, UnavailableFallback, Findings, Places, Severities, CRITICAL

\* Whatever a specialist does ends in a report.
LEMMA ReportsAreRecorded ==
  ASSUME NEW s \in Specialists, Analysed(s) \/ Unparsed(s) \/ Unavailable(s)
  PROVE  \E F \in SUBSET Findings : Record(s, F)
  <1>1. CASE Analysed(s)
    BY <1>1 DEF Analysed
  <1>2. CASE Unparsed(s)
    BY <1>2, FallbacksAreFindings DEF Unparsed
  <1>3. CASE Unavailable(s)
    BY <1>3, FallbacksAreFindings DEF Unavailable
  <1>4. QED
    BY <1>1, <1>2, <1>3

LEMMA TypeInit == Init => TypeOK
  BY DEF Init, TypeOK, None

LEMMA TypeStep == TypeOK /\ [Next]_vars => TypeOK'
  <1> SUFFICES ASSUME TypeOK, [Next]_vars PROVE TypeOK'
    OBVIOUS
  <1> USE DEF TypeOK, Report, Statuses, Running, durable, history
  <1>1. CASE Run
    BY <1>1 DEF Run
  <1>2. CASE Resume
    BY <1>2 DEF Resume
  <1>3. ASSUME NEW s \in Specialists, NEW F \in SUBSET Findings, Record(s, F) PROVE TypeOK'
    <2>1. pending' \subseteq Report
      BY <1>3 DEF Record, Store
    <2>2. recorded' \in [Specialists -> Nat]
      BY <1>3 DEF Record, Store
    <2>3. QED
      BY <1>3, <2>1, <2>2 DEF Record, Store
  <1>4. CASE Raises
    BY <1>4 DEF Raises
  <1>5. CASE Join
    <2>1. AllFindings \subseteq Findings
      BY DEF AllFindings
    <2>2. QED
      BY <1>5, <2>1 DEF Join, JoinAs
  <1>6. CASE Aggregate
    BY <1>6 DEF Aggregate, Route
  <1>7. CASE Crash
    BY <1>7 DEF Crash
  <1>8. CASE UNCHANGED vars
    BY <1>8 DEF vars
  <1>9. QED
    BY <1>1, <1>2, <1>3, <1>4, <1>5, <1>6, <1>7, <1>8, ReportsAreRecorded DEF Next, Advance

\* Every variable keeps its type.
THEOREM TypeCorrect == Spec => []TypeOK
  BY TypeInit, TypeStep, PTL DEF Spec

-----------------------------------------------------------------------------
\* Until the barrier what was heard is in the pending reports; after it, in the
\* state.
Accounted ==
    /\ step = "specialists" =>
          /\ heard \subseteq UNION {r.findings : r \in pending}
          /\ \A s \in Specialists : recorded[s] = IF Missing(s) THEN 0 ELSE 1
    /\ step \in {"aggregate", "end"} =>
          /\ heard \subseteq findings
          /\ \A s \in Specialists : recorded[s] = 1
    /\ step = "none" => \A s \in Specialists : recorded[s] = 0
    /\ engine = "returned" =>
          step = "end" /\ (review = "POSTED" => ~HasCritical(findings))

LEMMA AccountedInit == Init => Accounted
  BY DEF Init, Accounted

LEMMA AccountedStep == TypeOK /\ Accounted /\ [Next]_vars => Accounted'
  <1> SUFFICES ASSUME TypeOK, Accounted, [Next]_vars PROVE Accounted'
    OBVIOUS
  <1> USE DEF Accounted, Running, durable, history, Missing
  <1>1. CASE Run
    BY <1>1 DEF Run
  <1>2. CASE Resume
    BY <1>2 DEF Resume
  <1>3. ASSUME NEW s \in Specialists, NEW F \in SUBSET Findings, Record(s, F) PROVE Accounted'
    <2> DEFINE new == [by |-> s, findings |-> F]
    <2>0. /\ step = "specialists" /\ pending' = pending \cup {new}
          /\ heard' = heard \cup F /\ new.by = s /\ new.findings = F
      BY <1>3 DEF Record, Store
    <2> HIDE DEF new
    <2>1. heard' \subseteq UNION {r.findings : r \in pending'}
      <3>1. ASSUME NEW f \in heard' PROVE \E r \in pending' : f \in r.findings
        <4>1. CASE f \in F
          BY <4>1, <2>0
        <4>2. CASE f \in heard
          <5>1. \E r \in pending : f \in r.findings
            BY <4>2, <2>0
          <5>2. QED
            BY <5>1, <2>0
        <4>3. QED
          BY <4>1, <4>2, <2>0
      <3>2. QED
        BY <3>1
    <2>2. \A t \in Specialists : recorded'[t] = IF Missing(t)' THEN 0 ELSE 1
      <3>1. ASSUME NEW t \in Specialists PROVE Missing(t)' <=> Missing(t) /\ t # s
        BY <2>0
      <3>2. recorded \in [Specialists -> Nat]
        BY DEF TypeOK
      <3>3. QED
        BY <1>3, <3>1, <3>2 DEF Record, Store
    <2>3. QED
      BY <1>3, <2>1, <2>2 DEF Record, Store
  <1>4. CASE Raises
    BY <1>4 DEF Raises
  <1>5. CASE Join
    BY <1>5 DEF Join, JoinAs, AllFindings
  <1>6. CASE Aggregate
    <2>1. ASSUME review' = "POSTED" PROVE ~HasCritical(findings)
      <3>1. ~HasCritical(Dedupe(findings))
        BY <1>6, <2>1 DEF Aggregate, Route
      <3>2. QED
        BY <3>1, CriticalSurvives DEF TypeOK
    <2>2. QED
      BY <1>6, <2>1 DEF Aggregate, HasCritical
  <1>7. CASE Crash
    BY <1>7 DEF Crash
  <1>8. CASE UNCHANGED vars
    BY <1>8 DEF vars, HasCritical
  <1>9. QED
    BY <1>1, <1>2, <1>3, <1>4, <1>5, <1>6, <1>7, <1>8, ReportsAreRecorded DEF Next, Advance

LEMMA AlwaysAccounted == Spec => [](TypeOK /\ Accounted)
  BY TypeInit, TypeStep, AccountedInit, AccountedStep, PTL DEF Spec

\* Past the barrier no specialist's report is missing.
THEOREM ReportsAlwaysCount == Spec => []EveryReportCounts
  <1>1. TypeOK /\ Accounted => EveryReportCounts
    BY DEF Accounted, EveryReportCounts
  <1>2. QED
    BY <1>1, AlwaysAccounted, PTL

\* Resuming a run never executes recorded work again.
THEOREM NothingRecordedTwice == Spec => []RecordedOnce
  <1>1. TypeOK /\ Accounted => RecordedOnce
    BY DEF TypeOK, Accounted, RecordedOnce
  <1>2. QED
    BY <1>1, AlwaysAccounted, PTL

\* A review posted without a human has no CRITICAL finding behind it.
THEOREM CriticalAlwaysReachesHuman == Spec => []CriticalReachesHuman
  <1>1. TypeOK /\ Accounted => CriticalReachesHuman
    BY DEF Accounted, CriticalReachesHuman, HasCritical
  <1>2. QED
    BY <1>1, AlwaysAccounted, PTL
=============================================================================
