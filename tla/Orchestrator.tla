---------------------------- MODULE Orchestrator ----------------------------
(***************************************************************************)
(* One review's run through the orchestrator (backend/orchestrator/): the  *)
(* specialists fan out, a barrier waits for all of them, aggregate_node    *)
(* joins their findings and routes the review.  The thread of the review   *)
(* is kept in the checkpoint database; process and engine may die, and     *)
(* the review may be run again on the same thread (what the worker does)   *)
(* or resumed.                                                             *)
(*                                                                         *)
(* LangGraph is modelled by what this code relies on: a specialist's       *)
(* report is durable when it is made, reports reach the state together     *)
(* when the last one is in, and run on an existing thread starts the graph *)
(* over with the state that is there.  A process that dies between         *)
(* producing a report and storing it is one that died before.              *)
(***************************************************************************)
EXTENDS Aggregation

CONSTANTS Answers,  \* per specialist: what its model's answer may parse to
          MaxRuns   \* bound on the calls of run

ASSUME OrchestratorConfig ==
    /\ Answers \in [Specialists -> SUBSET SUBSET Findings]
    /\ MaxRuns \in Nat

VARIABLES
    engine,     \* volatile: what the last call of run or resume is doing
    step,       \* durable: the super-step the checkpoint continues with
    pending,    \* durable: reports of the super-step that is not complete
    findings,   \* durable: GraphState.findings
    review,     \* durable: GraphState.review; its status, None before the first
    runs,       \* calls of run
    heard,      \* history: findings reported in this run
    recorded    \* history: per specialist, the reports recorded in this run

durable == <<step, pending, findings, review>>
history == <<heard, recorded>>
vars == <<engine, durable, runs, history>>

None == "none"
Statuses == {"POSTED", "QUEUED_FOR_HITL"}
Report == [by : Specialists, findings : SUBSET Findings]

Missing(s) == \A r \in pending : r.by # s

-----------------------------------------------------------------------------
Init ==
    /\ engine = "idle"
    /\ step = "none"
    /\ pending = {}
    /\ findings = {}
    /\ review = None
    /\ runs = 0
    /\ heard = {}
    /\ recorded = [s \in Specialists |-> 0]

\* run: the input's empty list is added to the findings already there, and
\* reports of an unfinished super-step are dropped.
Run ==
    /\ engine # "running"
    /\ runs < MaxRuns
    /\ engine' = "running"
    /\ step' = "specialists"
    /\ pending' = {}
    /\ runs' = runs + 1
    /\ heard' = {}
    /\ recorded' = [s \in Specialists |-> 0]
    /\ UNCHANGED <<findings, review>>

\* Mutation of Resume: the super-step starts over.
ResumeFromScratch ==
    /\ engine \in {"raised", "dead"}
    /\ engine' = "running"
    /\ pending' = {}
    /\ UNCHANGED <<step, findings, review, runs, history>>

\* resume: goes on from the checkpoint, with the reports it has.
Resume ==
    /\ engine \in {"raised", "dead"}
    /\ engine' = "running"
    /\ UNCHANGED <<durable, runs, history>>

Running(p) == engine = "running" /\ step = p

\* The report F of s becomes a pending write.
Store(s, F) ==
    /\ Running("specialists")
    /\ Missing(s)
    /\ pending' = pending \cup {[by |-> s, findings |-> F]}
    /\ recorded' = [recorded EXCEPT ![s] = @ + 1]
    /\ UNCHANGED <<engine, step, findings, review, runs>>

Record(s, F) == Store(s, F) /\ heard' = heard \cup F

\* The model's answer parsed.
Analysed(s) == \E F \in Answers[s] : Record(s, F)

\* It did not.
Unparsed(s) == Record(s, {ParseFallback(s)})

\* Mutation of Unavailable: the failure is isolated like AgentExecutionError,
\* without a finding.
UnavailableSilently(s) ==
    Store(s, {}) /\ heard' = heard \cup {UnavailableFallback(s)}

\* BudgetExceededError, LLMConfigurationError or LLMCallFailedError.
Unavailable(s) == Record(s, {UnavailableFallback(s)})

\* Any other exception of a node fails the call; the reports made stay.
Raises ==
    /\ \/ Running("aggregate")
       \/ Running("specialists") /\ \E s \in Specialists : Missing(s)
    /\ engine' = "raised"
    /\ UNCHANGED <<durable, runs, history>>

JoinAs(F) ==
    /\ Running("specialists")
    /\ findings' = F
    /\ pending' = {}
    /\ step' = "aggregate"
    /\ UNCHANGED <<engine, review, runs, history>>

AllFindings == findings \cup UNION {r.findings : r \in pending}

\* Mutation of Join: without a reducer one branch overwrites the others.
JoinOverwrites ==
    /\ \A s \in Specialists : ~Missing(s)
    /\ \E r \in pending : JoinAs(r.findings)

\* Mutation of Join: a specialist without findings counts as missing.
JoinNonEmpty ==
    /\ \A s \in Specialists : \E r \in pending : r.by = s /\ r.findings # {}
    /\ JoinAs(AllFindings)

\* The barrier: every specialist has reported, the reducer adds it all up.
Join == (\A s \in Specialists : ~Missing(s)) /\ JoinAs(AllFindings)

\* The row that aggregate_node also writes is part of ReviewWorker.
Aggregate ==
    /\ Running("aggregate")
    /\ review' = Route(Dedupe(findings))
    /\ step' = "end"
    /\ engine' = "returned"
    /\ UNCHANGED <<pending, findings, runs, history>>

\* The worker process dies.
Crash ==
    /\ engine = "running"
    /\ engine' = "dead"
    /\ UNCHANGED <<durable, runs, history>>

Advance ==
    \/ \E s \in Specialists : Analysed(s) \/ Unparsed(s) \/ Unavailable(s)
    \/ Raises
    \/ Join
    \/ Aggregate

Next == Run \/ Resume \/ Advance \/ Crash

Spec == Init /\ [][Next]_vars

\* Nodes end: every LLM call in them is bounded.  Nothing is assumed of callers.
FairSpec == Spec /\ WF_vars(Advance)

-----------------------------------------------------------------------------
TypeOK ==
    /\ engine \in {"idle", "running", "returned", "raised", "dead"}
    /\ step \in {"none", "specialists", "aggregate", "end"}
    /\ pending \subseteq Report
    /\ findings \subseteq Findings
    /\ review \in Statuses \cup {None}
    /\ runs \in 0..MaxRuns
    /\ heard \subseteq Findings
    /\ recorded \in [Specialists -> Nat]

\* A review that is returned as POSTED goes out with no human: then no
\* specialist reported a CRITICAL finding, could not be parsed or could not do
\* its analysis, in this run or in an earlier one whose reports were joined
\* (contracts.py _is_better, hitl/queue.py route_review, nodes.py
\* _specialist_node).
CriticalReachesHuman ==
    engine = "returned" /\ review = "POSTED" => ~HasCritical(heard \cup findings)

\* Once past the barrier every specialist's report counts, in whatever order
\* they came in and however often the process died (state.py reducers).
EveryReportCounts ==
    step \in {"aggregate", "end"} =>
        /\ \A s \in Specialists : recorded[s] > 0
        /\ heard \subseteq findings

\* workflow_engine.py resume: work that was recorded is not executed again.
RecordedOnce == \A s \in Specialists : recorded[s] <= 1

\* A call of run or resume ends, by returning, raising or dying.
CallsEnd == engine = "running" ~> engine # "running"
=============================================================================
