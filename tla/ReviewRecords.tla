---------------------------- MODULE ReviewRecords ---------------------------
(***************************************************************************)
(* What reviews leave in the database: the append-only agent_events        *)
(* (database/repository.py, observability/events.py, tracing.py), the      *)
(* reviews table (database/review_store.py) and what api/dashboard.py      *)
(* shows of them.                                                          *)
(*                                                                         *)
(* A run is one execution of the review graph, reduced to one specialist   *)
(* with one provider call, and the aggregator.  Each event carries the     *)
(* time of its own host's clock.  A write to either table may fail, with   *)
(* or without effect, and the run goes on.  A request for metrics and one  *)
(* for a trace read in two statements, each of which sees the table as it  *)
(* is at its time.  A run's process starts by the steps of TracingGuard.   *)
(***************************************************************************)
EXTENDS TracingGuard, FiniteSets, Sequences

CONSTANTS
    Runs,        \* executions of the graph, each in a process of its own: a
                 \* worker, or review_local
    Reviews,     \* review ids
    Scenarios,   \* the events_backend, per run its review and the gate's verdict, the
                 \* runs on a host whose clock is one ahead, what is started for
                 \* each, what is asked for (the metrics, the trace of a review, or
                 \* nothing), and the bounds of the clock and of the failing writes
    Fixtures,    \* the review ids with a prefix known as a test's
    BucketSize,  \* length of a bucket of agent_health_1m
    MaxTime,     \* the largest of the scenarios' bounds of the clock
    MaxLost      \* the largest of their bounds of the writes that fail

Verdicts == {"POSTED", "QUEUED_FOR_HITL"}
None == "none"

ASSUME RecordsConfig ==
    /\ Scenarios \subseteq [backend : {"local", "tiger"}, reviewOf : [Runs -> Reviews],
                            verdict : [Runs -> Verdicts], ahead : SUBSET Runs,
                            starts : [Runs -> Entries], asks : {"metrics", "nothing"} \cup Reviews,
                            until : 0..MaxTime, losses : 0..MaxLost]
    /\ Processes = Runs
    /\ None \notin Runs
    /\ {"metrics", "nothing"} \cap Reviews = {}
    /\ Fixtures \subseteq Reviews
    /\ BucketSize \in Nat \ {0}
    /\ {MaxTime, MaxLost} \subseteq Nat

VARIABLES
    scenario,  \* the one that takes place
    clock,     \* the time, as the dashboard's host has it
    pc,        \* per run: how far it has come
    events,    \* agent_events, in the order of their ids
    lost,      \* events whose write failed, as <<run, event type>>
    rows,      \* per review: the run whose upsert its row of reviews is, or none
    buckets,   \* events materialized in agent_health_1m, by id
    request    \* what the first statement of the request under way has read

runVars == <<pc, events, lost, rows>>
vars == <<scenario, clock, runVars, buckets, request, guardVars>>

Kinds == {"span.start", "llm.call", "span.end", "decision"}
OnTiger == scenario.backend = "tiger"
ReviewOf(r) == scenario.reviewOf[r]
Nothing == <<>>
Time == 0..MaxTime + 1
Ids == DOMAIN events

-----------------------------------------------------------------------------
\* Settings.effective_database_url: where agent_events is.  The workers and the
\* dashboard's process each make their own repository from their own settings.
EffectiveDatabase == IF OnTiger THEN "tiger" ELSE "local"

\* get_event_repository, in a worker.
WorkerDatabase == EffectiveDatabase

\* Mutation of DashboardDatabase: the setting database_url itself.
DashboardDatabaseLocal == "local"

\* _default_event_repository, in the API process.
DashboardDatabase == EffectiveDatabase

Event(r, kind) ==
    [run |-> r, kind |-> kind, db |-> WorkerDatabase,
     ts |-> IF r \in scenario.ahead THEN clock + 1 ELSE clock]

-----------------------------------------------------------------------------
Init ==
    /\ scenario \in Scenarios
    /\ GuardInit /\ entry = scenario.starts
    /\ clock = 0
    /\ pc = [r \in Runs |-> "idle"]
    /\ events = <<>>
    /\ lost = {}
    /\ rows = [v \in Reviews |-> None]
    /\ buckets = {}
    /\ request = Nothing

\* Mutation of Emit: a write that failed is tried again.
EmitRetried(r, kind) ==
    \/ events' = Append(events, Event(r, kind)) /\ UNCHANGED lost
    \/ events' = events \o <<Event(r, kind), Event(r, kind)>> /\ UNCHANGED lost
    \/ /\ Cardinality(lost) < scenario.losses
       /\ lost' = lost \cup {<<r, kind>>}
       /\ UNCHANGED events

\* _emit and insert_event: one INSERT, never repeated.  A database that fails
\* or does not answer, and a breaker that is open, are logged and swallowed;
\* when only the answer is lost, the row is there all the same.
Emit(r, kind) ==
    \/ events' = Append(events, Event(r, kind)) /\ UNCHANGED lost
    \/ /\ Cardinality(lost) < scenario.losses
       /\ lost' = lost \cup {<<r, kind>>}
       /\ UNCHANGED events

GoTo(r, p) == pc' = [pc EXCEPT ![r] = p]

\* traced_span is entered.
SpanStart(r) ==
    /\ pc[r] = "idle"
    /\ phase[r] = "up"
    /\ GoTo(r, "analyzing")
    /\ Emit(r, "span.start")
    /\ UNCHANGED <<scenario, clock, rows, buckets, request, guardVars>>

\* The provider has answered: emit_llm_call; the specialist may also fail
\* before it gets that far.
LlmCall(r) ==
    /\ pc[r] = "analyzing"
    /\ GoTo(r, "analyzed")
    /\ Emit(r, "llm.call") \/ UNCHANGED <<events, lost>>
    /\ UNCHANGED <<scenario, clock, rows, buckets, request, guardVars>>

\* Mutation of SpanEnd: the event is left out when the specialist has failed.
SpanEndOnSuccess(r) ==
    /\ pc[r] = "analyzed"
    /\ GoTo(r, "aggregating")
    /\ Emit(r, "span.end") \/ UNCHANGED <<events, lost>>
    /\ UNCHANGED <<scenario, clock, rows, buckets, request, guardVars>>

\* traced_span is left, whatever became of the block.
SpanEnd(r) ==
    /\ pc[r] = "analyzed"
    /\ GoTo(r, "aggregating")
    /\ Emit(r, "span.end")
    /\ UNCHANGED <<scenario, clock, rows, buckets, request, guardVars>>

\* aggregate_node: emit_decision, then persist_review.
Decide(r) ==
    /\ pc[r] = "aggregating"
    /\ GoTo(r, "decided")
    /\ Emit(r, "decision")
    /\ UNCHANGED <<scenario, clock, rows, buckets, request, guardVars>>

\* Mutation of Persist: a failed write of the decision leaves the node, and the
\* run with it.
PersistUnlessLost(r) ==
    /\ pc[r] = "decided"
    /\ <<r, "decision">> \notin lost
    /\ GoTo(r, "done")
    /\ rows' = [rows EXCEPT ![ReviewOf(r)] = r] \/ UNCHANGED rows
    /\ UNCHANGED <<scenario, clock, events, lost, buckets, request, guardVars>>

\* Mutation of Persist: the old row is deleted before the new one is written.
PersistDeletesFirst(r) ==
    /\ pc[r] = "decided"
    /\ GoTo(r, "done")
    /\ rows' \in {[rows EXCEPT ![ReviewOf(r)] = r], [rows EXCEPT ![ReviewOf(r)] = None], rows}
    /\ UNCHANGED <<scenario, clock, events, lost, buckets, request, guardVars>>

\* upsert_review overwrites the row of an earlier run; persist_review swallows
\* its failure.
Persist(r) ==
    /\ pc[r] = "decided"
    /\ GoTo(r, "done")
    /\ rows' = [rows EXCEPT ![ReviewOf(r)] = r] \/ UNCHANGED rows
    /\ UNCHANGED <<scenario, clock, events, lost, buckets, request, guardVars>>

\* The worker process dies.  What runs the review again is another run.
Crash(r) ==
    /\ pc[r] \in {"analyzing", "analyzed", "aggregating", "decided"}
    /\ GoTo(r, "crashed")
    /\ UNCHANGED <<scenario, clock, events, lost, rows, buckets, request, guardVars>>

-----------------------------------------------------------------------------
Seen == {i \in Ids : events[i].db = DashboardDatabase}
BucketOf(i) == BucketSize * (events[i].ts \div BucketSize)
Calls == {i \in Ids : events[i].kind = "llm.call"}
IsFixture(i) == ReviewOf(events[i].run) \in Fixtures

\* The refresh policy of agent_health_1m: it materializes the buckets that are
\* over, without the rows of known tests (migrations/scripts).
Refresh ==
    LET over == {i \in Calls : BucketOf(i) + BucketSize <= clock /\ ~IsFixture(i)}
    IN  /\ OnTiger
        /\ over # buckets
        /\ buckets' = over
    /\ UNCHANGED <<scenario, clock, runVars, request, guardVars>>

\* aggregate_llm_calls_by_agent, the first statement; `now` is the same for
\* both.
Totals(now) ==
    IF OnTiger THEN Cardinality({i \in buckets \cap Seen : BucketOf(i) <= now})
    ELSE Cardinality({i \in Calls \cap Seen : events[i].ts <= now /\ ~IsFixture(i)})

\* The rows of the past that are to be counted once they are materialized.
Pending == {i \in Calls \ buckets : OnTiger /\ events[i].ts <= clock /\ ~IsFixture(i)}

GetMetrics ==
    /\ scenario.asks = "metrics"
    /\ request = Nothing
    /\ request' = [now |-> clock, total |-> Totals(clock), due |-> Cardinality(Calls \ Pending)]
    /\ UNCHANGED <<scenario, clock, runVars, buckets, guardVars>>

\* The second statement, ExclusionSummary: a row may be excluded for both
\* reasons.
Exclusions(now) ==
    LET future  == {i \in Calls \cap Seen : events[i].ts > now}
        fixture == {i \in Calls \cap Seen : IsFixture(i)}
    IN  [rows |-> Cardinality(future \cup fixture), future |-> Cardinality(future),
         fixture |-> Cardinality(fixture), overlap |-> Cardinality(future \cap fixture)]

\* Mutation of Metrics: each statement takes the time for itself.
MetricsOfTwoTimes == [total |-> request.total, excluded |-> Exclusions(clock)]

\* The response, if the second statement is executed now.
Metrics == [total |-> request.total, excluded |-> Exclusions(request.now)]

InOrder(S, before(_, _)) ==
    [n \in 1..Cardinality(S) |->
        CHOOSE i \in S : Cardinality({j \in S : before(j, i)}) = n - 1]

\* The events of v with an id up to n, as the dashboard's database has them.
Of(v, n) == {i \in Seen : ReviewOf(events[i].run) = v /\ i <= n}

\* Mutation of Timeline: events of the same time come in no particular order.
TimelineByTime(v, n) ==
    LET before(i, j) == events[i].ts < events[j].ts \/ (events[i].ts = events[j].ts /\ i > j)
    IN  InOrder(Of(v, n), before)

\* Mutation of Timeline: rows of the future are left out, as in the metrics.
TimelinePast(v, n) ==
    LET before(i, j) == events[i].ts < events[j].ts \/ (events[i].ts = events[j].ts /\ i < j)
    IN  InOrder({i \in Of(v, n) : events[i].ts <= clock}, before)

\* fetch_events_for_review: ORDER BY ts, id; executed when the last id was n.
Timeline(v, n) ==
    LET before(i, j) == events[i].ts < events[j].ts \/ (events[i].ts = events[j].ts /\ i < j)
    IN  InOrder(Of(v, n), before)

\* get_trace reads the events of v.  The row as it is now is noted for
\* TraceTellsRow.
GetTrace(v) ==
    /\ scenario.asks = v
    /\ request = Nothing
    /\ request' = [review |-> v, upTo |-> Len(events), row |-> rows[v]]
    /\ UNCHANGED <<scenario, clock, runVars, buckets, guardVars>>

\* The trace, if get_review is executed now, on a connection of its own.
Trace == [events |-> Timeline(request.review, request.upTo), review |-> rows[request.review]]

\* list_pending_hitl: get_hitl_queue shows the reviews whose row says so.
PendingHitl ==
    {v \in Reviews : rows[v] # None /\ scenario.verdict[rows[v]] = "QUEUED_FOR_HITL"}

\* The response to the request is sent, or its second statement fails (502).
EndRequest ==
    /\ request # Nothing
    /\ request' = Nothing
    /\ UNCHANGED <<scenario, clock, runVars, buckets, guardVars>>

Tick ==
    /\ clock < scenario.until
    /\ clock' = clock + 1
    /\ UNCHANGED <<scenario, runVars, buckets, request, guardVars>>

RunStep(r) ==
    SpanStart(r) \/ LlmCall(r) \/ SpanEnd(r) \/ Decide(r) \/ Persist(r)

\* The steps before the first review, and LangSmith's own.
Start(r) == StartStep(r) \/ Land(r)

Next ==
    \/ \E r \in Runs : Start(r) /\ UNCHANGED <<scenario, clock, runVars, buckets, request>>
    \/ \E r \in Runs : RunStep(r) \/ Crash(r)
    \/ \E v \in Reviews : GetTrace(v)
    \/ Refresh \/ GetMetrics \/ EndRequest \/ Tick

Spec == Init /\ [][Next]_vars

\* Runs and starts go on, as long as the database and LangSmith answer or fail
\* in the end.
FairSpec ==
    Spec /\ \A r \in Runs :
        /\ WF_vars(RunStep(r))
        /\ WF_vars(StartStep(r) /\ UNCHANGED <<scenario, clock, runVars, buckets, request>>)

-----------------------------------------------------------------------------
TypeOK ==
    /\ GuardTypeOK
    /\ scenario \in Scenarios
    /\ clock \in 0..MaxTime
    /\ pc \in [Runs -> {"idle", "analyzing", "analyzed", "aggregating", "decided", "done",
                        "crashed"}]
    /\ events \in Seq([run : Runs, kind : Kinds, db : {"local", "tiger"}, ts : Time])
    /\ lost \subseteq Runs \X Kinds
    /\ rows \in [Reviews -> Runs \cup {None}]
    /\ buckets \subseteq Calls
    /\ \A i \in buckets : events[i].ts <= clock

\* repository.py:1-60: agent_events cannot be corrected, so no event may be
\* in it twice, nor be there and counted as lost, although a writer that gets
\* no answer does not know whether its row is there.
EventsOnce ==
    /\ \A i, j \in Ids : events[i].run = events[j].run /\ events[i].kind = events[j].kind => i = j
    /\ \A i \in Ids : <<events[i].run, events[i].kind>> \notin lost

\* nodes.py: aggregate_node, tracing.py: traced_span.  A row of reviews has
\* its story: the span of its run, closed, and its decision are in the events,
\* or were lost by a failed write; a crash in between leaves no row without.
RowHasItsStory ==
    \A v \in Reviews : rows[v] # None =>
        \A kind \in {"span.start", "span.end", "decision"} :
            \/ <<rows[v], kind>> \in lost
            \/ \E i \in Ids : events[i].run = rows[v] /\ events[i].kind = kind

\* repository.py:537-541: in the trace of a review the events of each run are
\* in the order they were written in, though times repeat and hosts' clocks
\* differ, and none is left out.
TraceInOrder ==
    \A v \in Reviews :
        LET trace == Timeline(v, Len(events))
        IN  /\ {trace[n] : n \in DOMAIN trace} = {i \in Ids : ReviewOf(events[i].run) = v}
            /\ \A m, n \in DOMAIN trace :
                  m < n /\ events[trace[m]].run = events[trace[n]].run => trace[m] < trace[n]

\* dashboard.py:268-291: a trace with a row also has its story, up to lost
\* writes, unless the row was written after the events were read.
TraceTellsRow ==
    (scenario.asks \in Reviews /\ request # Nothing /\ Trace.review \in {request.row} \ {None}) =>
        \A kind \in {"span.start", "span.end", "decision"} :
            \/ <<Trace.review, kind>> \in lost
            \/ \E n \in DOMAIN Trace.events : /\ events[Trace.events[n]].run = Trace.review
                                             /\ events[Trace.events[n]].kind = kind

\* What a trace shows is in order, complete and explains the row it shows:
\* both of the above.
TraceFaithful == TraceInOrder /\ TraceTellsRow

\* repository.py:646-652: every llm.call row there was when a request came is
\* in the totals or among the excluded rows, and none is in both, whatever is
\* written in the meantime; on Tiger, but for the rows that are not
\* materialized yet.
MetricsAccounted ==
    scenario.asks = "metrics" /\ request # Nothing =>
        LET counted == Metrics.total + Metrics.excluded.rows
        IN  request.due <= counted /\ counted <= Cardinality(Calls)

\* review_store.py:156-165, 190-197: a review that waits for a human stays in
\* the queue until a run of it has been decided the other way; failed writes
\* and the runs of other reviews never take it out.
QueueLeftByPosting ==
    [][\A v \in PendingHitl \ PendingHitl' :
          \E r \in Runs : /\ ReviewOf(r) = v /\ scenario.verdict[r] = "POSTED"
                         /\ pc[r] = "decided"
                         /\ \/ <<r, "decision">> \in lost
                            \/ \E i \in Ids : events[i].run = r /\ events[i].kind = "decision"]_vars

\* events.py, review_store.py: a database that fails never fails a review.
OutageIsHarmless == \A r \in Runs : pc[r] = "analyzing" ~> pc[r] \in {"done", "crashed"}

\* No service a review merely reports to holds it up, however it fails:
\* LangSmith at the start of the process (StartupEnds), the database from then
\* on.
ReviewsGoOn == StartupEnds /\ OutageIsHarmless
=============================================================================
