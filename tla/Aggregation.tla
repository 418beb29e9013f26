---------------------------- MODULE Aggregation -----------------------------
(***************************************************************************)
(* What aggregate_node makes of the findings of a run: deduplication       *)
(* (backend/agents/contracts.py), overall confidence                       *)
(* (backend/models/review.py) and the human-in-the-loop gate               *)
(* (backend/hitl/queue.py).                                                *)
(*                                                                         *)
(* Confidences are counted in the code's quantum: 1000 units there, any    *)
(* MaxConfidence here.  A place is a (file_path, line_start) pair, a text  *)
(* the rank of a (category, rationale) pair in lexicographic order.        *)
(* line_end, which no decision looks at, is left out.                      *)
(***************************************************************************)
EXTENDS Integers, FiniteSets, FiniteSetsExt

CONSTANTS Specialists,   \* the four agents
          Precedence,    \* their index in AGENT_PRECEDENCE
          Locations,     \* places in the diff that findings are about
          Unparseable,   \* the place of parse_failure_fallback_finding
          MaxConfidence, \* confidence 1.000
          Threshold      \* hitl_confidence_threshold

ASSUME AggregationConfig ==
    /\ Precedence \in [Specialists -> Nat]
    /\ MaxConfidence \in Nat
    /\ Threshold \in 0..MaxConfidence

CRITICAL == 0
Severities == CRITICAL..4

\* A specialist that is unavailable has a place of its own, named after it.
Places == Locations \cup Specialists \cup {Unparseable}

Findings == [agent : Specialists, place : Places, severity : Severities,
             confidence : 0..MaxConfidence, text : Nat]

ParseFallback(s) ==
    [agent |-> s, place |-> Unparseable, severity |-> CRITICAL, confidence |-> 0, text |-> 0]

UnavailableFallback(s) ==
    [agent |-> s, place |-> s, severity |-> CRITICAL, confidence |-> 0, text |-> 0]

\* Mutation of IsBetter: confidence is compared before severity.
IsBetterByConfidence(f, g) ==
    \/ f.confidence > g.confidence
    \/ f.confidence = g.confidence /\ f.severity < g.severity

\* f replaces g when both are about one place.
IsBetter(f, g) ==
    \/ f.severity < g.severity
    \/ /\ f.severity = g.severity
       /\ \/ f.confidence > g.confidence
          \/ /\ f.confidence = g.confidence
             /\ \/ Precedence[f.agent] < Precedence[g.agent]
                \/ /\ Precedence[f.agent] = Precedence[g.agent]
                   /\ f.text < g.text

Dedupe(F) == {f \in F : \A g \in F : g.place = f.place => ~IsBetter(g, f)}

\* The mean rounded half up; no findings are no evidence.
OverallConfidence(F) ==
    IF F = {} THEN 0
    ELSE LET Total == MapThenSumSet(LAMBDA f : f.confidence, F)
         IN  (2 * Total + Cardinality(F)) \div (2 * Cardinality(F))

HasCritical(F) == \E f \in F : f.severity = CRITICAL

Route(F) ==
    IF HasCritical(F) \/ OverallConfidence(F) < Threshold
    THEN "QUEUED_FOR_HITL" ELSE "POSTED"
=============================================================================
