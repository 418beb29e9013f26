------------------------- MODULE ReviewRecordsProofs ------------------------
(***************************************************************************)
(* For any runs, reviews and scenarios: an event is written once, a row of *)
(* reviews has its story, a trace and the metrics tell what was recorded   *)
(* and leave out only what they must, only a posted review leaves the HITL *)
(* queue, and no process that makes the LangSmith check reviews without    *)
(* having seen a trace of its own.                                         *)
(*                                                                         *)
(* That nothing is ever repeated shows in how far a run has come: whatever *)
(* is written or lost of it lies behind it, and what it writes next does   *)
(* not.  What a request has read of the tables stays there; the trace and  *)
(* the metrics are compared with what was there then.                      *)
(***************************************************************************)
EXTENDS ReviewRecords, FiniteSetTheorems, TLAPS

USE RecordsConfig, ReadbackAssumption

\* Where a run is while the event of a kind is still ahead of it.
Ahead(kind) ==
    CASE kind = "span.start" -> {"idle"}
      [] kind = "llm.call"   -> {"idle", "analyzing"}
      [] kind = "span.end"   -> {"idle", "analyzing", "analyzed"}
      [] kind = "decision"   -> {"idle", "analyzing", "analyzed", "aggregating"}

Steps == {"idle", "analyzing", "analyzed", "aggregating", "decided", "done", "crashed"}

Fields ==
    /\ scenario \in Scenarios
    /\ pc \in [Runs -> Steps]
    /\ events \in Seq([run : Runs, kind : Kinds, db : {"local", "tiger"}, ts : Int])
    /\ clock \in Int
    /\ lost \subseteq Runs \X Kinds
    /\ rows \in [Reviews -> Runs \cup {None}]

\* What is written, and what was lost, lies behind the run.
Behind ==
    /\ \A i \in Ids : pc[events[i].run] \notin Ahead(events[i].kind)
    /\ \A r \in Runs, kind \in Kinds : <<r, kind>> \in lost => pc[r] \notin Ahead(kind)

\* The event is there, or its write has failed.
Told(r, kind) ==
    <<r, kind>> \in lost \/ \E i \in Ids : events[i].run = r /\ events[i].kind = kind

Story ==
    /\ \A r \in Runs, kind \in {"span.start", "span.end", "decision"} :
          pc[r] \notin Ahead(kind) \cup {"crashed"} => Told(r, kind)
    /\ \A v \in Reviews, kind \in {"span.start", "span.end", "decision"} :
          rows[v] # None => Told(rows[v], kind)

Inv == Fields /\ Behind /\ EventsOnce /\ Story

-----------------------------------------------------------------------------
LEMMA InvInit == Init => Inv
  <1> SUFFICES ASSUME Init PROVE Inv
    OBVIOUS
  <1> USE DEF Init, Ids
  <1>1. Fields
    BY DEF Fields, Steps, None
  <1>2. Behind /\ EventsOnce
    BY DEF Behind, EventsOnce
  <1>3. Story
    BY DEF Story, Ahead
  <1>4. QED
    BY <1>1, <1>2, <1>3 DEF Inv

LEMMA Elements ==
  ASSUME NEW R, NEW s \in Seq(R), NEW i \in DOMAIN s
  PROVE  s[i] \in R
  OBVIOUS

LEMMA EventTypes ==
  ASSUME Fields
  PROVE  \A i \in Ids : events[i].run \in Runs /\ events[i].kind \in Kinds
  <1>1. SUFFICES ASSUME NEW i \in Ids
        PROVE  events[i].run \in Runs /\ events[i].kind \in Kinds
    OBVIOUS
  <1>2. events[i] \in [run : Runs, kind : Kinds, db : {"local", "tiger"}, ts : Int]
    BY Elements DEF Fields, Ids
  <1>3. QED
    BY <1>2

\* One INSERT adds one event at the end, or is lost.
LEMMA EmitAdds ==
  ASSUME Fields, NEW r \in Runs, NEW kind \in Kinds, Emit(r, kind)
  PROVE  /\ events' \in Seq([run : Runs, kind : Kinds, db : {"local", "tiger"}, ts : Int])
         /\ lost' \subseteq Runs \X Kinds
         /\ \A i \in Ids : i \in Ids' /\ events'[i] = events[i]
         /\ \/ /\ lost' = lost /\ Len(events) + 1 \in Ids'
               /\ events'[Len(events) + 1].run = r /\ events'[Len(events) + 1].kind = kind
               /\ Ids' = Ids \cup {Len(events) + 1} /\ Len(events) + 1 \notin Ids
            \/ lost' = lost \cup {<<r, kind>>} /\ events' = events
  <1>1. Event(r, kind) \in [run : Runs, kind : Kinds, db : {"local", "tiger"}, ts : Int]
    BY DEF Event, WorkerDatabase, EffectiveDatabase, Fields
  <1>2. Event(r, kind).run = r /\ Event(r, kind).kind = kind
    BY DEF Event
  <1>3. CASE events' = Append(events, Event(r, kind)) /\ lost' = lost
    BY <1>1, <1>2, <1>3 DEF Fields, Ids
  <1>4. CASE events' = events /\ lost' = lost \cup {<<r, kind>>}
    BY <1>4 DEF Fields, Ids
  <1>5. QED
    BY <1>3, <1>4 DEF Emit

\* A step that writes the event of a kind and goes on.
LEMMA EmitStep ==
  ASSUME Inv, NEW r \in Runs, NEW kind \in Kinds, NEW p \in Steps \ {"crashed"},
         Emit(r, kind), pc[r] \in Ahead(kind), p \notin Ahead(kind),
         \A k \in Kinds : pc[r] \notin Ahead(k) => p \notin Ahead(k),
         \A k \in {"span.start", "span.end", "decision"} \ {kind} :
             p \notin Ahead(k) => pc[r] \notin Ahead(k) \cup {"crashed"},
         pc' = [pc EXCEPT ![r] = p], UNCHANGED <<scenario, clock, rows>>
  PROVE  Inv'
  <1> USE DEF Inv
  <1>1. /\ events' \in Seq([run : Runs, kind : Kinds, db : {"local", "tiger"}, ts : Int])
        /\ lost' \subseteq Runs \X Kinds
        /\ \A i \in Ids : i \in Ids' /\ events'[i] = events[i]
        /\ \/ /\ lost' = lost /\ Len(events) + 1 \in Ids'
              /\ events'[Len(events) + 1].run = r /\ events'[Len(events) + 1].kind = kind
              /\ Ids' = Ids \cup {Len(events) + 1} /\ Len(events) + 1 \notin Ids
           \/ lost' = lost \cup {<<r, kind>>} /\ events' = events
    BY EmitAdds
  <1>2. Fields'
    BY <1>1 DEF Fields
  <1>3. \A i \in Ids : events[i].run \in Runs /\ events[i].kind \in Kinds
    BY EventTypes
  <1>4. /\ \A i \in Ids : ~(events[i].run = r /\ events[i].kind = kind)
        /\ <<r, kind>> \notin lost
    BY DEF Behind
  <1>5. pc'[r] = p /\ \A s \in Runs : s # r => pc'[s] = pc[s]
    BY DEF Fields
  <1>6. \A s \in Runs, k \in Kinds : pc[s] \notin Ahead(k) => pc'[s] \notin Ahead(k)
    BY <1>5
  <1>7. Behind'
    <2>1. CASE /\ lost' = lost /\ Ids' = Ids \cup {Len(events) + 1} /\ Len(events) + 1 \notin Ids
               /\ events'[Len(events) + 1].run = r /\ events'[Len(events) + 1].kind = kind
      <3>1. ASSUME NEW i \in Ids' PROVE pc'[events'[i].run] \notin Ahead(events'[i].kind)
        <4>1. CASE i \in Ids
          BY <1>1, <1>3, <1>6, <4>1 DEF Behind
        <4>2. CASE i = Len(events) + 1
          BY <1>1, <1>5, <2>1, <4>2
        <4>3. QED
          BY <2>1, <3>1, <4>1, <4>2
      <3>2. \A s \in Runs, k \in Kinds : <<s, k>> \in lost' => pc'[s] \notin Ahead(k)
        BY <1>6, <2>1 DEF Behind
      <3>3. QED
        BY <3>1, <3>2 DEF Behind
    <2>2. CASE lost' = lost \cup {<<r, kind>>} /\ events' = events
      <3>1. Ids' = Ids
        BY <2>2 DEF Ids
      <3>2. \A i \in Ids' : pc'[events'[i].run] \notin Ahead(events'[i].kind)
        BY <1>3, <1>6, <2>2, <3>1 DEF Behind
      <3>3. ASSUME NEW s \in Runs, NEW k \in Kinds, <<s, k>> \in lost'
            PROVE  pc'[s] \notin Ahead(k)
        <4>1. <<s, k>> \in lost \/ (s = r /\ k = kind)
          BY <2>2, <3>3
        <4>2. QED
          BY <1>5, <1>6, <4>1 DEF Behind
      <3>4. QED
        BY <3>2, <3>3 DEF Behind
    <2>3. QED
      BY <1>1, <2>1, <2>2
  <1>8. EventsOnce'
    <2>1. CASE /\ lost' = lost /\ Ids' = Ids \cup {Len(events) + 1} /\ Len(events) + 1 \notin Ids
               /\ events'[Len(events) + 1].run = r /\ events'[Len(events) + 1].kind = kind
      <3>1. ASSUME NEW i \in Ids', NEW j \in Ids', events'[i].run = events'[j].run,
                   events'[i].kind = events'[j].kind
            PROVE  i = j
        <4>1. \A n \in Ids : events'[n] = events[n] /\ ~(events[n].run = r /\ events[n].kind = kind)
          BY <1>1, <1>4
        <4>2. \A n \in Ids' : n \in Ids \/ n = Len(events) + 1
          BY <2>1
        <4>3. CASE i \in Ids /\ j \in Ids
          BY <3>1, <4>1, <4>3 DEF EventsOnce
        <4>4. CASE i = Len(events) + 1 \/ j = Len(events) + 1
          BY <2>1, <3>1, <4>1, <4>2, <4>4
        <4>5. QED
          BY <4>2, <4>3, <4>4
      <3>2. ASSUME NEW i \in Ids' PROVE <<events'[i].run, events'[i].kind>> \notin lost'
        <4>1. CASE i \in Ids
          BY <1>1, <2>1, <4>1 DEF EventsOnce
        <4>2. CASE i = Len(events) + 1
          BY <1>4, <2>1, <4>2
        <4>3. QED
          BY <2>1, <3>2, <4>1, <4>2
      <3>3. QED
        BY <3>1, <3>2 DEF EventsOnce
    <2>2. CASE lost' = lost \cup {<<r, kind>>} /\ events' = events
      <3>1. Ids' = Ids
        BY <2>2 DEF Ids
      <3>2. QED
        BY <1>3, <1>4, <2>2, <3>1 DEF EventsOnce
    <2>3. QED
      BY <1>1, <2>1, <2>2
  <1>9. \A s \in Runs, k \in Kinds : Told(s, k) => Told(s, k)'
    BY <1>1 DEF Told
  <1>10. Told(r, kind)'
    BY <1>1 DEF Told
  <1>11. Story'
    <2>1. ASSUME NEW s \in Runs, NEW k \in {"span.start", "span.end", "decision"},
                 pc'[s] \notin Ahead(k) \cup {"crashed"}
          PROVE  Told(s, k)'
      <3>1. k \in Kinds
        BY DEF Kinds
      <3>2. CASE s = r /\ k = kind
        BY <1>10, <3>2
      <3>3. CASE s = r /\ k # kind
        BY <1>5, <1>9, <2>1, <3>1, <3>3 DEF Story
      <3>4. CASE s # r
        BY <1>5, <1>9, <2>1, <3>1, <3>4 DEF Story
      <3>5. QED
        BY <3>2, <3>3, <3>4
    <2>2. ASSUME NEW v \in Reviews, NEW k \in {"span.start", "span.end", "decision"},
                 rows'[v] # None
          PROVE  Told(rows[v], k)'
      <3>1. k \in Kinds /\ rows'[v] = rows[v] /\ rows[v] \in Runs
        BY <2>2 DEF Kinds, Fields
      <3>2. QED
        BY <1>9, <2>2, <3>1 DEF Story
    <2>3. QED
      BY <2>1, <2>2 DEF Story
  <1>12. QED
    BY <1>2, <1>7, <1>8, <1>11

\* A step that writes no event.
LEMMA SilentStep ==
  ASSUME Inv, UNCHANGED <<scenario, events, lost>>, clock' \in Int,
         pc' \in [Runs -> Steps], rows' \in [Reviews -> Runs \cup {None}],
         \A s \in Runs, k \in Kinds : pc[s] \notin Ahead(k) => pc'[s] \notin Ahead(k),
         \A s \in Runs, k \in {"span.start", "span.end", "decision"} :
             pc'[s] \notin Ahead(k) \cup {"crashed"} => pc[s] \notin Ahead(k) \cup {"crashed"},
         \A v \in Reviews, k \in {"span.start", "span.end", "decision"} :
             rows'[v] # None => Told(rows'[v], k)
  PROVE  Inv'
  <1> USE DEF Inv
  <1>1. Ids' = Ids /\ \A i \in Ids : events[i].run \in Runs /\ events[i].kind \in Kinds
    BY EventTypes DEF Ids
  <1>2. Fields'
    BY DEF Fields
  <1>3. Behind'
    BY <1>1 DEF Behind
  <1>4. EventsOnce'
    BY <1>1 DEF EventsOnce
  <1>5. Story'
    BY <1>1 DEF Story, Told
  <1>6. QED
    BY <1>2, <1>3, <1>4, <1>5

LEMMA RunSteps ==
  ASSUME Inv, NEW r \in Runs, RunStep(r) \/ Crash(r)
  PROVE  Inv'
  <1> USE DEF Inv, GoTo
  <1> USE DEF Steps
  <1>0. pc \in [Runs -> Steps] /\ clock \in Int
    BY DEF Fields
  <1>1. CASE SpanStart(r)
    <2>1. "span.start" \in Kinds /\ "analyzing" \in Steps \ {"crashed"}
      BY DEF Kinds
    <2>2. pc[r] \in Ahead("span.start") /\ "analyzing" \notin Ahead("span.start")
      BY <1>1 DEF SpanStart, Ahead
    <2>3. \A k \in Kinds : pc[r] \notin Ahead(k) => "analyzing" \notin Ahead(k)
      BY <1>1 DEF SpanStart, Ahead, Kinds
    <2>4. \A k \in {"span.start", "span.end", "decision"} \ {"span.start"} :
              "analyzing" \notin Ahead(k) => pc[r] \notin Ahead(k) \cup {"crashed"}
      BY <1>1 DEF SpanStart, Ahead
    <2>5. QED
      BY <1>1, <2>1, <2>2, <2>3, <2>4, EmitStep DEF SpanStart
  <1>2. CASE LlmCall(r)
    <2>1. "llm.call" \in Kinds /\ "analyzed" \in Steps \ {"crashed"}
      BY DEF Kinds
    <2>2. pc[r] \in Ahead("llm.call") /\ "analyzed" \notin Ahead("llm.call")
      BY <1>2 DEF LlmCall, Ahead
    <2>3. \A k \in Kinds : pc[r] \notin Ahead(k) => "analyzed" \notin Ahead(k)
      BY <1>2 DEF LlmCall, Ahead, Kinds
    <2>4. \A k \in {"span.start", "span.end", "decision"} :
              "analyzed" \notin Ahead(k) => pc[r] \notin Ahead(k) \cup {"crashed"}
      BY <1>2 DEF LlmCall, Ahead
    <2>5. CASE Emit(r, "llm.call")
      BY <1>2, <2>1, <2>2, <2>3, <2>4, <2>5, EmitStep DEF LlmCall
    <2>6. CASE UNCHANGED <<events, lost>>
      BY <1>0, <1>2, <2>3, <2>4, <2>6, SilentStep DEF LlmCall, Story, Fields
    <2>7. QED
      BY <1>2, <2>5, <2>6 DEF LlmCall
  <1>3. CASE SpanEnd(r)
    <2>1. "span.end" \in Kinds /\ "aggregating" \in Steps \ {"crashed"}
      BY DEF Kinds
    <2>2. pc[r] \in Ahead("span.end") /\ "aggregating" \notin Ahead("span.end")
      BY <1>3 DEF SpanEnd, Ahead
    <2>3. \A k \in Kinds : pc[r] \notin Ahead(k) => "aggregating" \notin Ahead(k)
      BY <1>3 DEF SpanEnd, Ahead, Kinds
    <2>4. \A k \in {"span.start", "span.end", "decision"} \ {"span.end"} :
              "aggregating" \notin Ahead(k) => pc[r] \notin Ahead(k) \cup {"crashed"}
      BY <1>3 DEF SpanEnd, Ahead
    <2>5. QED
      BY <1>3, <2>1, <2>2, <2>3, <2>4, EmitStep DEF SpanEnd
  <1>4. CASE Decide(r)
    <2>1. "decision" \in Kinds /\ "decided" \in Steps \ {"crashed"}
      BY DEF Kinds
    <2>2. pc[r] \in Ahead("decision") /\ "decided" \notin Ahead("decision")
      BY <1>4 DEF Decide, Ahead
    <2>3. \A k \in Kinds : pc[r] \notin Ahead(k) => "decided" \notin Ahead(k)
      BY <1>4 DEF Decide, Ahead, Kinds
    <2>4. \A k \in {"span.start", "span.end", "decision"} \ {"decision"} :
              "decided" \notin Ahead(k) => pc[r] \notin Ahead(k) \cup {"crashed"}
      BY <1>4 DEF Decide, Ahead
    <2>5. QED
      BY <1>4, <2>1, <2>2, <2>3, <2>4, EmitStep DEF Decide
  <1>5. CASE Persist(r)
    <2>1. /\ pc[r] = "decided" /\ pc' = [pc EXCEPT ![r] = "done"]
          /\ rows' \in {rows, [rows EXCEPT ![ReviewOf(r)] = r]}
          /\ UNCHANGED <<scenario, clock, events, lost>>
      BY <1>5 DEF Persist
    <2>2. \A k \in {"span.start", "span.end", "decision"} : Told(r, k)
      BY <2>1 DEF Story, Ahead
    <2>3. \A v \in Reviews : rows'[v] = rows[v] \/ rows'[v] = r
      BY <2>1 DEF Fields
    <2>4. rows' \in [Reviews -> Runs \cup {None}]
      BY <2>1 DEF Fields
    <2>5. \A v \in Reviews, k \in {"span.start", "span.end", "decision"} :
              rows'[v] # None => Told(rows'[v], k)
      BY <2>2, <2>3 DEF Story
    <2>6. \A s \in Runs, k \in Kinds : pc[s] \notin Ahead(k) => pc'[s] \notin Ahead(k)
      BY <1>0, <2>1 DEF Ahead, Kinds
    <2>7. \A s \in Runs, k \in {"span.start", "span.end", "decision"} :
              pc'[s] \notin Ahead(k) \cup {"crashed"} => pc[s] \notin Ahead(k) \cup {"crashed"}
      BY <1>0, <2>1 DEF Ahead
    <2>8. QED
      BY <1>0, <2>1, <2>4, <2>5, <2>6, <2>7, SilentStep
  <1>6. CASE Crash(r)
    <2>1. /\ pc' = [pc EXCEPT ![r] = "crashed"]
          /\ UNCHANGED <<scenario, clock, events, lost, rows>>
      BY <1>6 DEF Crash
    <2>2. \A s \in Runs, k \in Kinds : pc[s] \notin Ahead(k) => pc'[s] \notin Ahead(k)
      BY <1>0, <2>1 DEF Ahead, Kinds
    <2>3. \A s \in Runs, k \in {"span.start", "span.end", "decision"} :
              pc'[s] \notin Ahead(k) \cup {"crashed"} => pc[s] \notin Ahead(k) \cup {"crashed"}
      BY <1>0, <2>1
    <2>4. QED
      BY <1>0, <2>1, <2>2, <2>3, SilentStep DEF Story, Fields
  <1>7. QED
    BY <1>1, <1>2, <1>3, <1>4, <1>5, <1>6 DEF RunStep

LEMMA InvStep == Inv /\ [Next]_vars => Inv'
  <1> SUFFICES ASSUME Inv, [Next]_vars PROVE Inv'
    OBVIOUS
  <1>1. ASSUME UNCHANGED <<scenario, events, lost, pc, rows>>, clock' \in Int PROVE Inv'
    BY <1>1, SilentStep DEF Inv, Fields, Story
  <1>2. ASSUME NEW r \in Runs, RunStep(r) \/ Crash(r) PROVE Inv'
    BY <1>2, RunSteps
  <1>3. ASSUME Tick PROVE UNCHANGED <<scenario, events, lost, pc, rows>> /\ clock' \in Int
    BY <1>3 DEF Tick, runVars, Inv, Fields
  <1>4. ASSUME \/ \E r \in Runs : Start(r) /\ UNCHANGED <<scenario, clock, runVars, buckets, request>>
               \/ \E v \in Reviews : GetTrace(v)
               \/ Refresh \/ GetMetrics \/ EndRequest \/ UNCHANGED vars
        PROVE  UNCHANGED <<scenario, events, lost, pc, rows>> /\ clock' \in Int
    BY <1>4, Zenon DEF GetTrace, Refresh, GetMetrics, EndRequest, vars, runVars, Inv, Fields
  <1>5. QED
    BY <1>1, <1>2, <1>3, <1>4 DEF Next

LEMMA InvAlways == Spec => []Inv
  BY InvInit, InvStep, PTL DEF Spec

\* insert_event: what cannot be corrected is written once.
THEOREM EventsWrittenOnce == Spec => []EventsOnce
  <1>1. Inv => EventsOnce
    BY DEF Inv
  <1>2. QED
    BY <1>1, InvAlways, PTL

\* aggregate_node, traced_span: a row of reviews always has its story.
THEOREM RowsHaveTheirStory == Spec => []RowHasItsStory
  <1>1. ASSUME Inv PROVE RowHasItsStory
    <2>1. ASSUME NEW v \in Reviews, rows[v] # None,
                 NEW kind \in {"span.start", "span.end", "decision"}
          PROVE  Told(rows[v], kind)
      BY <1>1, <2>1 DEF Inv, Story
    <2>2. QED
      BY <2>1 DEF Told, RowHasItsStory
  <1>2. QED
    BY <1>1, InvAlways, PTL

-----------------------------------------------------------------------------
\* upsert_review, list_pending_hitl: only a decision to post takes a review
\* out of the queue.
THEOREM OnlyPostingLeavesQueue == Spec => QueueLeftByPosting
  <1> DEFINE Left == \A v \in PendingHitl \ PendingHitl' :
          \E r \in Runs : /\ ReviewOf(r) = v /\ scenario.verdict[r] = "POSTED"
                         /\ pc[r] = "decided"
                         /\ \/ <<r, "decision">> \in lost
                            \/ \E i \in Ids : events[i].run = r /\ events[i].kind = "decision"
  <1>1. Inv /\ [Next]_vars => [Left]_vars
    <2> SUFFICES ASSUME Inv, Next, NEW v \in PendingHitl \ PendingHitl'
        PROVE \E r \in Runs : /\ ReviewOf(r) = v /\ scenario.verdict[r] = "POSTED"
                              /\ pc[r] = "decided"
                              /\ \/ <<r, "decision">> \in lost
                                 \/ \E i \in Ids : /\ events[i].run = r
                                                  /\ events[i].kind = "decision"
      BY DEF vars
    <2>1. scenario' = scenario
      BY DEF Next, SpanStart, LlmCall, SpanEnd, Decide, Persist, RunStep, Crash, GetTrace,
             Refresh, GetMetrics, EndRequest, Tick
    <2>2. v \in Reviews /\ rows'[v] # rows[v]
      BY <2>1 DEF PendingHitl
    <2>3. PICK r \in Runs : Persist(r)
      BY <2>2 DEF Next, SpanStart, LlmCall, SpanEnd, Decide, RunStep, Crash, GetTrace,
             Refresh, GetMetrics, EndRequest, Tick, runVars
    <2>4. /\ pc[r] = "decided"
          /\ rows' = [rows EXCEPT ![ReviewOf(r)] = r]
      BY <2>2, <2>3 DEF Persist
    <2>5. ReviewOf(r) = v /\ rows'[v] = r
      BY <2>2, <2>4 DEF Inv, Fields
    <2>6. r # None /\ scenario.verdict[r] \in Verdicts
      BY DEF Inv, Fields
    <2>7. scenario.verdict[r] = "POSTED"
      BY <2>1, <2>2, <2>5, <2>6 DEF PendingHitl, Verdicts
    <2>8. Told(r, "decision")
      BY <2>4 DEF Inv, Story, Ahead
    <2>9. QED
      BY <2>4, <2>5, <2>7, <2>8 DEF Told
  <1>2. QED
    BY <1>1, InvAlways, PTL DEF Spec, QueueLeftByPosting

-----------------------------------------------------------------------------
\* A check that is not over has read-backs left.
GuardInv ==
    /\ GuardTypeOK
    /\ \A p \in Processes : phase[p] \in {"down", "probing"} => tries[p] < ReadbackAttempts
    /\ TracedBeforeReviewed

LEMMA GuardInitial == Init => GuardInv
  BY DEF Init, GuardInit, GuardInv, GuardTypeOK, TracedBeforeReviewed, Verifies, Entries, Phases,
         ReadbackAssumption

LEMMA GuardStep == GuardInv /\ [Next]_vars => GuardInv'
  <1> SUFFICES ASSUME GuardInv, [Next]_vars PROVE GuardInv'
    OBVIOUS
  <1> USE DEF GuardInv, GuardTypeOK, TracedBeforeReviewed, Verifies, ReadbackAssumption
  <1>1. ASSUME NEW r \in Processes, WriteProbe(r) PROVE GuardInv'
    BY <1>1 DEF WriteProbe, Refuse, Phases
  <1>2. ASSUME NEW r \in Processes, ReadProbe(r) PROVE GuardInv'
    <2>1. CASE probe[r] = "readable" /\ Pass(r) /\ UNCHANGED tries
      BY <1>2, <2>1 DEF ReadProbe, Pass, Phases
    <2>2. CASE /\ tries' = [tries EXCEPT ![r] = @ + 1]
               /\ IF tries[r] + 1 = ReadbackAttempts THEN Refuse(r) ELSE UNCHANGED phase
      <3>1. tries[r] + 1 \in 0..ReadbackAttempts
        BY <1>2, <2>2 DEF ReadProbe
      <3>2. QED
        BY <1>2, <2>2, <3>1 DEF ReadProbe, Refuse, Phases
    <2>3. QED
      BY <1>2, <2>1, <2>2 DEF ReadProbe
  <1>3. ASSUME NEW r \in Processes, Land(r) PROVE GuardInv'
    BY <1>3 DEF Land
  <1>4. CASE UNCHANGED guardVars
    BY <1>4 DEF guardVars
  <1>5. UNCHANGED guardVars \/ \E r \in Processes : WriteProbe(r) \/ ReadProbe(r) \/ Land(r)
    BY DEF Next, Start, StartStep, SpanStart, LlmCall, SpanEnd, Decide, Persist, RunStep, Crash,
           GetTrace, Refresh, GetMetrics, EndRequest, Tick, vars, guardVars
  <1>6. QED
    BY <1>1, <1>2, <1>3, <1>4, <1>5

\* assert_tracing_healthy: no first review without a trace that was read back.
THEOREM AlwaysTracedBeforeReviewed == Spec => []TracedBeforeReviewed
  <1>1. GuardInv => TracedBeforeReviewed
    BY DEF GuardInv
  <1>2. QED
    BY <1>1, GuardInitial, GuardStep, PTL DEF Spec

-----------------------------------------------------------------------------
\* A bucket that is over lies in the past.
LEMMA OverIsPast ==
  ASSUME NEW ts \in Nat
  PROVE  ts < BucketSize * (ts \div BucketSize) + BucketSize
  <1>1. BucketSize \in Nat \ {0}
    BY DEF RecordsConfig
  <1>2. ts = BucketSize * (ts \div BucketSize) + (ts % BucketSize) /\ ts % BucketSize < BucketSize
    BY <1>1
  <1>3. QED
    BY <1>1, <1>2

EventSet == [run : Runs, kind : Kinds, db : {"local", "tiger"}, ts : Time]

LEMMA Times ==
  ASSUME TypeOK
  PROVE  /\ scenario.until \in 0..MaxTime /\ MaxTime \in Nat
         /\ clock \in Nat /\ clock \in Time /\ clock + 1 \in Time
  BY DEF TypeOK, RecordsConfig, Time

\* An event joins agent_events at the end, and the ones there keep their ids.
LEMMA TypeEmit ==
  ASSUME TypeOK, NEW r \in Runs, NEW kind \in Kinds,
         Emit(r, kind) \/ UNCHANGED <<events, lost>>, clock' = clock, buckets' = buckets
  PROVE  /\ events' \in Seq(EventSet) /\ lost' \subseteq Runs \X Kinds
         /\ buckets' \subseteq Calls' /\ \A i \in buckets' : events'[i].ts <= clock'
  <1>1. Event(r, kind) \in EventSet
    BY Times DEF Event, EventSet, WorkerDatabase, EffectiveDatabase, TypeOK
  <1>2. events \in Seq(EventSet) /\ lost \subseteq Runs \X Kinds
    BY DEF TypeOK, EventSet
  <1>3. events' \in Seq(EventSet) /\ lost' \subseteq Runs \X Kinds
    BY <1>1, <1>2 DEF Emit
  <1>4. \A i \in Ids : i \in Ids' /\ events'[i] = events[i]
    BY <1>1, <1>2 DEF Emit, Ids
  <1>5. QED
    BY <1>3, <1>4 DEF TypeOK, Calls

LEMMA TypeRun ==
  ASSUME TypeOK, NEW r \in Runs, RunStep(r) \/ Crash(r)
  PROVE  TypeOK'
  <1>1. /\ pc' \in [Runs -> Steps] /\ UNCHANGED <<scenario, clock, buckets, guardVars>>
        /\ \/ \E kind \in Kinds : Emit(r, kind) \/ UNCHANGED <<events, lost>>
           \/ UNCHANGED <<events, lost>>
    BY DEF RunStep, SpanStart, LlmCall, SpanEnd, Decide, Persist, Crash, GoTo, TypeOK, Steps, Kinds
  <1>2. rows' \in [Reviews -> Runs \cup {None}]
    BY DEF RunStep, SpanStart, LlmCall, SpanEnd, Decide, Persist, Crash, TypeOK
  <1>3. /\ events' \in Seq(EventSet) /\ lost' \subseteq Runs \X Kinds
        /\ buckets' \subseteq Calls' /\ \A i \in buckets' : events'[i].ts <= clock'
    <2>1. "decision" \in Kinds
      BY DEF Kinds
    <2>2. QED
      BY <1>1, <2>1, TypeEmit
  <1>4. GuardTypeOK'
    BY <1>1 DEF TypeOK, GuardTypeOK, guardVars
  <1>5. QED
    BY <1>1, <1>2, <1>3, <1>4 DEF TypeOK, EventSet, Steps, Time

LEMMA TypeRefresh ==
  ASSUME TypeOK, Refresh
  PROVE  TypeOK'
  <1>1. /\ buckets' \subseteq Calls
        /\ \A i \in buckets' : BucketOf(i) + BucketSize <= clock
    BY DEF Refresh
  <1>2. UNCHANGED <<scenario, clock, runVars, request, guardVars>>
    BY DEF Refresh
  <1>3. ASSUME NEW i \in buckets' PROVE events[i].ts <= clock
    <2>1. i \in Ids /\ events[i] \in EventSet
      BY <1>1, Elements DEF Calls, Ids, TypeOK, EventSet
    <2>2. events[i].ts \in Nat
      BY <2>1, Times DEF EventSet, Time
    <2>3. BucketSize \in Nat \ {0}
      BY DEF RecordsConfig
    <2>4. events[i].ts < BucketOf(i) + BucketSize
      BY <2>2, OverIsPast DEF BucketOf
    <2>5. events[i].ts \div BucketSize \in Int
      BY <2>2, <2>3
    <2>6. BucketOf(i) \in Int
      BY <2>3, <2>5 DEF BucketOf
    <2>7. BucketOf(i) + BucketSize <= clock
      BY <1>1
    <2>8. QED
      BY <2>2, <2>3, <2>4, <2>6, <2>7, Times
  <1>4. Calls' = Calls
    BY <1>2 DEF Calls, Ids, runVars
  <1>5. GuardTypeOK'
    BY <1>2 DEF TypeOK, GuardTypeOK, guardVars
  <1>6. QED
    BY <1>1, <1>2, <1>3, <1>4, <1>5 DEF TypeOK, runVars, Time

LEMMA TypeStep == TypeOK /\ GuardInv' /\ [Next]_vars => TypeOK'
  <1> SUFFICES ASSUME TypeOK, GuardInv', [Next]_vars PROVE TypeOK'
    OBVIOUS
  <1>1. ASSUME NEW r \in Runs, RunStep(r) \/ Crash(r) PROVE TypeOK'
    BY <1>1, TypeRun
  <1>2. CASE Refresh
    BY <1>2, TypeRefresh
  <1>3. CASE Tick
    <2>1. clock' \in 0..MaxTime /\ clock' > clock
      BY <1>3, Times DEF Tick
    <2>2. UNCHANGED <<scenario, runVars, buckets>> /\ Calls' = Calls
      BY <1>3 DEF Tick, Calls, Ids, runVars
    <2>3. \A i \in buckets : events[i].ts <= clock'
      <3>1. SUFFICES ASSUME NEW i \in buckets PROVE events[i].ts <= clock'
        OBVIOUS
      <3>2. events[i] \in EventSet
        BY Elements DEF TypeOK, Calls, Ids, EventSet
      <3>3. events[i].ts \in Int /\ events[i].ts <= clock
        BY <3>2, Times DEF TypeOK, EventSet, Time
      <3>4. QED
        BY <2>1, <3>3, Times
    <2>4. QED
      BY <2>1, <2>2, <2>3 DEF TypeOK, GuardInv, runVars, Time
  <1>4. CASE \/ \E r \in Runs : Start(r) /\ UNCHANGED <<scenario, clock, runVars, buckets, request>>
             \/ \E v \in Reviews : GetTrace(v)
             \/ GetMetrics \/ EndRequest \/ UNCHANGED vars
    <2>1. UNCHANGED <<scenario, clock, runVars, buckets>>
      BY <1>4, Zenon DEF GetTrace, GetMetrics, EndRequest, vars
    <2>2. Calls' = Calls
      BY <2>1 DEF Calls, Ids, runVars
    <2>3. QED
      BY <2>1, <2>2 DEF TypeOK, GuardInv, runVars, Time
  <1>5. QED
    BY <1>1, <1>2, <1>3, <1>4 DEF Next

LEMMA TypeInit == Init => TypeOK
  <1> SUFFICES ASSUME Init PROVE TypeOK
    OBVIOUS
  <1>1. GuardTypeOK
    BY GuardInitial DEF GuardInv
  <1>2. MaxTime \in Nat
    BY DEF RecordsConfig
  <1>3. QED
    BY <1>1, <1>2 DEF Init, TypeOK, Kinds

\* Every variable keeps its type; in particular no bucket is materialized
\* that has not happened yet.
THEOREM TypeCorrect == Spec => []TypeOK
  BY TypeInit, TypeStep, GuardInitial, GuardStep, PTL DEF Spec

-----------------------------------------------------------------------------
(***************************************************************************)
(* ORDER BY ts, id.  The place of an event among those selected is the     *)
(* number of them that come before it; no two have the same one, so each   *)
(* place from the first to the last is taken.                              *)
(***************************************************************************)
Precedes(i, j) == events[i].ts < events[j].ts \/ (events[i].ts = events[j].ts /\ i < j)
Place(S, i) == Cardinality({j \in S : Precedes(j, i)})

LEMMA IdsFinite ==
  ASSUME TypeOK
  PROVE  /\ Ids = 1..Len(events) /\ Len(events) \in Nat
         /\ IsFiniteSet(Ids) /\ Ids \subseteq Nat
         /\ \A i \in Ids : events[i] \in EventSet /\ events[i].ts \in Nat /\ events[i].run \in Runs
  <1>1. events \in Seq(EventSet)
    BY DEF TypeOK, EventSet
  <1>2. Ids = 1..Len(events) /\ Len(events) \in Nat
    BY <1>1 DEF Ids
  <1>3. IsFiniteSet(Ids)
    BY <1>2, FS_Interval
  <1>4. ASSUME NEW i \in Ids
        PROVE  events[i] \in EventSet /\ events[i].ts \in Nat /\ events[i].run \in Runs
    <2>1. events[i] \in EventSet
      BY <1>1, <1>4, Elements DEF Ids
    <2>2. QED
      BY <2>1, Times DEF EventSet, Time
  <1>5. QED
    BY <1>2, <1>3, <1>4

LEMMA PlacesDiffer ==
  ASSUME TypeOK, NEW S \in SUBSET Ids
  PROVE  /\ IsFiniteSet(S) /\ Cardinality(S) \in Nat
         /\ \A i \in S : Place(S, i) \in 0..Cardinality(S) - 1
         /\ \A i, j \in S : Precedes(i, j) <=> Place(S, i) < Place(S, j)
         /\ \A i, j \in S : i # j => Precedes(i, j) \/ Precedes(j, i)
  <1>1. IsFiniteSet(S) /\ Cardinality(S) \in Nat
    BY IdsFinite, FS_Subset, FS_CardinalityType
  <1>2. \A i \in S : events[i].ts \in Nat /\ i \in Nat
    BY IdsFinite
  <1>3. \A T \in SUBSET S : IsFiniteSet(T) /\ Cardinality(T) \in Nat
    BY <1>1, FS_Subset, FS_CardinalityType
  <1>4. \A T \in SUBSET S : \A U \in SUBSET T :
            Cardinality(U) <= Cardinality(T) /\ (U # T => Cardinality(U) < Cardinality(T))
    <2>1. SUFFICES ASSUME NEW T \in SUBSET S, NEW U \in SUBSET T
          PROVE  Cardinality(U) <= Cardinality(T) /\ (U # T => Cardinality(U) < Cardinality(T))
      OBVIOUS
    <2>2. Cardinality(U) <= Cardinality(T) /\ (Cardinality(T) = Cardinality(U) => T = U)
      BY <1>3, FS_Subset
    <2>3. Cardinality(U) \in Nat /\ Cardinality(T) \in Nat
      BY <1>3
    <2>4. QED
      BY <2>2, <2>3
  <1>5. ASSUME NEW i \in S PROVE Place(S, i) \in 0..Cardinality(S) - 1
    <2>1. {j \in S : Precedes(j, i)} \in SUBSET S /\ i \notin {j \in S : Precedes(j, i)}
      BY <1>2 DEF Precedes
    <2>2. Place(S, i) \in Nat /\ Place(S, i) < Cardinality(S)
      BY <1>3, <1>4, <2>1 DEF Place
    <2>3. QED
      BY <1>1, <2>2
  <1>6. \A i, j \in S : i # j => Precedes(i, j) \/ Precedes(j, i)
    BY <1>2 DEF Precedes
  <1>7. ASSUME NEW i \in S, NEW j \in S, Precedes(i, j) PROVE Place(S, i) < Place(S, j)
    <2>1. \A x \in S : Precedes(x, i) => Precedes(x, j)
      BY <1>2, <1>7 DEF Precedes
    <2>2. ~Precedes(i, i)
      BY <1>2 DEF Precedes
    <2>3. /\ {x \in S : Precedes(x, j)} \in SUBSET S
          /\ {x \in S : Precedes(x, i)} \in SUBSET {x \in S : Precedes(x, j)}
          /\ {x \in S : Precedes(x, i)} # {x \in S : Precedes(x, j)}
      BY <1>7, <2>1, <2>2
    <2>4. QED
      BY <1>4, <2>3 DEF Place
  <1>8. ASSUME NEW i \in S, NEW j \in S, Place(S, i) < Place(S, j) PROVE Precedes(i, j)
    <2>1. Place(S, i) \in Int /\ Place(S, j) \in Int
      BY <1>5
    <2>2. i # j /\ ~Precedes(j, i)
      BY <1>7, <1>8, <2>1
    <2>3. QED
      BY <1>6, <2>2
  <1>9. QED
    BY <1>1, <1>5, <1>6, <1>7, <1>8

LEMMA PlacesCover ==
  ASSUME TypeOK, NEW S \in SUBSET Ids, NEW n \in 1..Cardinality(S)
  PROVE  \E i \in S : Place(S, i) = n - 1
  <1> DEFINE T == 0..Cardinality(S) - 1
             f == [i \in S |-> Place(S, i)]
  <1>1. IsFiniteSet(S) /\ Cardinality(S) \in Nat
    BY PlacesDiffer
  <1>2. \A i, j \in S : i # j => f[i] # f[j]
    <2>1. \A i, j \in S : i # j => Place(S, i) < Place(S, j) \/ Place(S, j) < Place(S, i)
      BY PlacesDiffer
    <2>2. \A i \in S : Place(S, i) \in Int
      BY PlacesDiffer
    <2>3. QED
      BY <2>1, <2>2
  <1>3. f \in [S -> T]
    BY PlacesDiffer
  <1>4. f \in Injection(S, T)
    BY <1>2, <1>3 DEF Injection, IsInjective
  <1>5. IsFiniteSet(T) /\ Cardinality(T) = Cardinality(S)
    <2>1. Cardinality(S) - 1 \in Int /\ ~(0 > Cardinality(S) - 1)
      BY <1>1
    <2>2. IsFiniteSet(T) /\ Cardinality(T) = IF 0 > Cardinality(S) - 1 THEN 0
                                              ELSE (Cardinality(S) - 1) - 0 + 1
      BY <2>1, FS_Interval
    <2>3. QED
      BY <1>1, <2>2
  <1>6. f \in Surjection(S, T)
    BY <1>1, <1>4, <1>5, FS_Injection
  <1>7. n - 1 \in T
    BY <1>1
  <1>8. \E i \in S : f[i] = n - 1
    BY <1>6, <1>7 DEF Surjection
  <1>9. QED
    BY <1>8

\* fetch_events_for_review: each event selected once, and in order.
LEMMA TimelineSound ==
  ASSUME TypeOK, NEW v, NEW n
  PROVE  LET t == Timeline(v, n)
         IN  /\ {t[k] : k \in DOMAIN t} = Of(v, n)
             /\ DOMAIN t \subseteq Nat
             /\ \A k, m \in DOMAIN t : k < m => Precedes(t[k], t[m])
  <1> DEFINE S == Of(v, n)
             t == Timeline(v, n)
  <1>1. S \in SUBSET Ids
    BY DEF Of, Seen
  <1>2. t = [k \in 1..Cardinality(S) |-> CHOOSE i \in S : Place(S, i) = k - 1]
    BY DEF Timeline, InOrder, Place, Precedes
  <1> HIDE DEF S, t
  <1>3. Cardinality(S) \in Nat
    BY <1>1, PlacesDiffer
  <1>4. DOMAIN t = 1..Cardinality(S)
    BY <1>2
  <1>5. ASSUME NEW k \in 1..Cardinality(S) PROVE t[k] \in S /\ Place(S, t[k]) = k - 1
    <2>1. \E i \in S : Place(S, i) = k - 1
      BY <1>1, <1>5, PlacesCover
    <2>2. t[k] = CHOOSE i \in S : Place(S, i) = k - 1
      BY <1>2, <1>5
    <2>3. QED
      BY <2>1, <2>2
  <1>6. ASSUME NEW i \in S PROVE \E k \in 1..Cardinality(S) : t[k] = i
    <2>1. Place(S, i) \in 0..Cardinality(S) - 1
      BY <1>1, PlacesDiffer
    <2>2. PICK k \in 1..Cardinality(S) : k = Place(S, i) + 1
      BY <1>3, <2>1
    <2>3. k - 1 = Place(S, i)
      BY <2>1, <2>2
    <2>4. t[k] \in S /\ Place(S, t[k]) = Place(S, i)
      BY <1>5, <2>3
    <2>5. ~(Place(S, t[k]) < Place(S, i)) /\ ~(Place(S, i) < Place(S, t[k]))
      BY <2>1, <2>4
    <2>6. t[k] = i
      BY <1>1, <2>4, <2>5, PlacesDiffer
    <2>7. QED
      BY <2>6
  <1>7. {t[k] : k \in DOMAIN t} = S
    BY <1>4, <1>5, <1>6
  <1>8. ASSUME NEW k \in DOMAIN t, NEW m \in DOMAIN t, k < m PROVE Precedes(t[k], t[m])
    <2>1. Place(S, t[k]) < Place(S, t[m]) /\ t[k] \in S /\ t[m] \in S
      BY <1>3, <1>4, <1>5, <1>8
    <2>2. QED
      BY <1>1, <2>1, PlacesDiffer
  <1>9. QED
    BY <1>4, <1>7, <1>8 DEF S, t

-----------------------------------------------------------------------------
(***************************************************************************)
(* What is in agent_events stays there.  It was written to the database    *)
(* that the dashboard reads, a run's events in the order of its host's     *)
(* time; the row of a review is of a run of that review.                   *)
(***************************************************************************)
HostTime(r) == IF r \in scenario.ahead THEN clock + 1 ELSE clock

Written ==
    /\ \A i \in Ids : events[i].db = EffectiveDatabase /\ events[i].ts <= HostTime(events[i].run)
    /\ \A i, j \in Ids : i < j /\ events[i].run = events[j].run => events[i].ts <= events[j].ts
    /\ \A v \in Reviews : rows[v] # None => ReviewOf(rows[v]) = v

\* The event is there with an id up to n, or its write has failed.
ToldBy(r, kind, n) ==
    \/ <<r, kind>> \in lost
    \/ \E i \in Ids : i <= n /\ events[i].run = r /\ events[i].kind = kind

\* The row a request for a trace noted had its story in what the request read.
TraceRequest ==
    (scenario.asks \in Reviews /\ request # Nothing) =>
        /\ request.review \in Reviews
        /\ request.row # None =>
              /\ ReviewOf(request.row) = request.review
              /\ \A kind \in {"span.start", "span.end", "decision"} :
                    ToldBy(request.row, kind, request.upTo)

\* A step leaves what is written as it is, and one at most is added.
LEMMA HistoryGrows ==
  ASSUME TypeOK, [Next]_vars
  PROVE  /\ scenario' = scenario /\ (clock' = clock \/ clock' = clock + 1)
         /\ lost \subseteq lost'
         /\ \A i \in Ids : i \in Ids' /\ events'[i] = events[i]
         /\ \/ events' = events
            \/ /\ clock' = clock
               /\ \E r \in Runs, kind \in Kinds :
                     /\ Ids' = Ids \cup {Len(events) + 1}
                     /\ events'[Len(events) + 1] = Event(r, kind)
  <1>1. CASE \E r \in Runs : RunStep(r) \/ Crash(r)
    <2>1. PICK r \in Runs : RunStep(r) \/ Crash(r)
      BY <1>1
    <2>2. /\ scenario' = scenario /\ clock' = clock
          /\ (\E kind \in Kinds : Emit(r, kind)) \/ UNCHANGED <<events, lost>>
      BY <2>1 DEF RunStep, SpanStart, LlmCall, SpanEnd, Decide, Persist, Crash, Kinds
    <2>3. CASE UNCHANGED <<events, lost>>
      BY <2>2, <2>3 DEF Ids
    <2>4. ASSUME NEW kind \in Kinds, Emit(r, kind)
          PROVE  /\ lost \subseteq lost'
                 /\ \A i \in Ids : i \in Ids' /\ events'[i] = events[i]
                 /\ \/ events' = events
                    \/ /\ Ids' = Ids \cup {Len(events) + 1}
                       /\ events'[Len(events) + 1] = Event(r, kind)
      <3>1. Event(r, kind) \in EventSet
        BY Times DEF Event, EventSet, WorkerDatabase, EffectiveDatabase, TypeOK
      <3>2. events \in Seq(EventSet)
        BY DEF TypeOK, EventSet
      <3> HIDE DEF EventSet
      <3>3. CASE events' = events /\ lost \subseteq lost'
        BY <3>3 DEF Ids
      <3>4. CASE events' = Append(events, Event(r, kind)) /\ lost' = lost
        BY <3>1, <3>2, <3>4 DEF Ids
      <3>5. QED
        BY <2>4, <3>3, <3>4 DEF Emit
    <2>5. QED
      BY <2>2, <2>3, <2>4
  <1>2. CASE UNCHANGED <<scenario, events, lost>> /\ (clock' = clock \/ clock' = clock + 1)
    BY <1>2 DEF Ids
  <1>3. CASE Tick
    BY <1>2, <1>3 DEF Tick, runVars
  <1>4. CASE \/ \E r \in Runs : Start(r) /\ UNCHANGED <<scenario, clock, runVars, buckets, request>>
             \/ \E v \in Reviews : GetTrace(v)
             \/ Refresh \/ GetMetrics \/ EndRequest \/ UNCHANGED vars
    <2>1. UNCHANGED <<scenario, clock, events, lost>>
      BY <1>4, Zenon DEF GetTrace, Refresh, GetMetrics, EndRequest, vars, runVars
    <2>2. QED
      BY <1>2, <2>1
  <1>5. QED
    BY <1>1, <1>3, <1>4 DEF Next

LEMMA WrittenStep == TypeOK /\ Written /\ [Next]_vars => Written'
  <1> SUFFICES ASSUME TypeOK, Written, [Next]_vars PROVE Written'
    OBVIOUS
  <1>1. /\ scenario' = scenario /\ (clock' = clock \/ clock' = clock + 1)
        /\ \A i \in Ids : i \in Ids' /\ events'[i] = events[i]
        /\ \/ events' = events
           \/ /\ clock' = clock
              /\ \E r \in Runs, kind \in Kinds :
                    /\ Ids' = Ids \cup {Len(events) + 1}
                    /\ events'[Len(events) + 1] = Event(r, kind)
    BY HistoryGrows
  <1>2. /\ Ids \subseteq Nat /\ Len(events) \in Nat /\ Ids = 1..Len(events) /\ clock \in Nat
        /\ \A i \in Ids : events[i].ts \in Nat /\ events[i].run \in Runs
    BY IdsFinite, Times
  <1> DEFINE Later(r) == IF r \in scenario.ahead THEN clock' + 1 ELSE clock'
  <1>3. \A r : HostTime(r) \in Int /\ Later(r) \in Int /\ HostTime(r) <= Later(r)
    BY <1>1, <1>2 DEF HostTime
  <1>4. EffectiveDatabase' = EffectiveDatabase
    BY <1>1 DEF EffectiveDatabase, OnTiger
  <1>5. \A v \in Reviews : rows'[v] # None => ReviewOf(rows'[v]) = v
    <2>1. rows' = rows \/ \E r \in Runs : rows' = [rows EXCEPT ![ReviewOf(r)] = r]
      BY DEF Next, RunStep, SpanStart, LlmCall, SpanEnd, Decide, Persist, Crash, GetTrace,
             Refresh, GetMetrics, EndRequest, Tick, vars, runVars
    <2>2. rows \in [Reviews -> Runs \cup {None}]
      BY DEF TypeOK
    <2>3. QED
      BY <2>1, <2>2 DEF Written
  <1>6. ASSUME NEW i \in Ids
        PROVE  events[i].db = EffectiveDatabase /\ events[i].ts <= Later(events[i].run)
    <2>1. events[i].ts \in Int /\ events[i].ts <= HostTime(events[i].run)
      BY <1>2 DEF Written
    <2>2. QED
      BY <1>3, <2>1 DEF Written
  <1>7. ASSUME \A i \in Ids' : /\ events'[i].db = EffectiveDatabase
                               /\ events'[i].ts <= Later(events'[i].run),
               \A i, j \in Ids' :
                   i < j /\ events'[i].run = events'[j].run => events'[i].ts <= events'[j].ts
        PROVE  Written'
    BY <1>1, <1>4, <1>5, <1>7 DEF Written, HostTime, ReviewOf
  <1>8. CASE events' = events
    <2>1. Ids' = Ids
      BY <1>8 DEF Ids
    <2>2. QED
      BY <1>6, <1>7, <1>8, <2>1 DEF Written
  <1>9. CASE /\ clock' = clock
             /\ \E r \in Runs, kind \in Kinds :
                   /\ Ids' = Ids \cup {Len(events) + 1}
                   /\ events'[Len(events) + 1] = Event(r, kind)
    <2>1. PICK r \in Runs, kind \in Kinds :
              Ids' = Ids \cup {Len(events) + 1} /\ events'[Len(events) + 1] = Event(r, kind)
      BY <1>9
    <2> DEFINE n == Len(events) + 1
    <2>2. /\ events'[n].run = r /\ events'[n].ts = HostTime(r)
          /\ events'[n].db = EffectiveDatabase /\ Later(r) = HostTime(r)
      BY <1>9, <2>1 DEF Event, HostTime, WorkerDatabase
    <2>3. \A i \in Ids' : i \in Ids \/ i = n
      BY <2>1
    <2>4. \A i \in Ids : i < n
      BY <1>2
    <2> HIDE DEF n
    <2>5. ASSUME NEW i \in Ids'
          PROVE  /\ events'[i].db = EffectiveDatabase
                 /\ events'[i].ts <= Later(events'[i].run)
      <3>1. CASE i \in Ids
        BY <1>1, <1>6, <3>1
      <3>2. CASE i = n
        BY <1>3, <2>2, <3>2
      <3>3. QED
        BY <2>3, <3>1, <3>2
    <2>6. ASSUME NEW i \in Ids', NEW j \in Ids', i < j, events'[i].run = events'[j].run
          PROVE  events'[i].ts <= events'[j].ts
      <3>1. CASE i \in Ids /\ j \in Ids
        BY <1>1, <2>6, <3>1 DEF Written
      <3>2. CASE i \in Ids /\ j = n
        BY <1>1, <2>2, <2>6, <3>2 DEF Written
      <3>3. CASE i = n
        <4>1. j \in Ids \/ j = n
          BY <2>3
        <4>2. n \in Nat /\ (j \in Ids => j \in Nat)
          BY <1>2 DEF n
        <4>3. QED
          BY <2>4, <2>6, <3>3, <4>1, <4>2
      <3>4. QED
        BY <2>3, <3>1, <3>2, <3>3
    <2>7. QED
      BY <1>7, <2>5, <2>6
  <1>10. QED
    BY <1>1, <1>8, <1>9

LEMMA WrittenInit == Init => Written
  BY DEF Init, Written, Ids

\* ToldBy of what is written in the next state.
ToldNext(r, kind, n) ==
    \/ <<r, kind>> \in lost'
    \/ \E i \in Ids' : i <= n /\ events'[i].run = r /\ events'[i].kind = kind

LEMMA TraceRequestStep ==
  TypeOK /\ Inv /\ Written /\ TraceRequest /\ [Next]_vars => TraceRequest'
  <1>0. ASSUME TypeOK, [Next]_vars
        PROVE  \A r : ReviewOf(r) = scenario'.reviewOf[r]
    BY <1>0, HistoryGrows DEF ReviewOf
  <1> SUFFICES ASSUME TypeOK, Inv, Written, TraceRequest, [Next]_vars,
                      scenario'.asks \in Reviews, request' # Nothing
               PROVE  /\ request'.review \in Reviews
                      /\ request'.row # None =>
                            /\ ReviewOf(request'.row) = request'.review
                            /\ \A kind \in {"span.start", "span.end", "decision"} :
                                  ToldNext(request'.row, kind, request'.upTo)
    BY <1>0 DEF TraceRequest, ReviewOf, ToldBy, ToldNext
  <1>1. /\ scenario' = scenario /\ lost \subseteq lost'
        /\ \A i \in Ids : i \in Ids' /\ events'[i] = events[i]
    BY HistoryGrows
  <1>3. CASE request' = request
    BY <1>1, <1>3 DEF TraceRequest, ToldBy, ToldNext
  <1>4. ASSUME NEW v \in Reviews, GetTrace(v)
        PROVE  /\ request'.review \in Reviews
               /\ request'.row # None =>
                     /\ ReviewOf(request'.row) = request'.review
                     /\ \A kind \in {"span.start", "span.end", "decision"} :
                           ToldNext(request'.row, kind, request'.upTo)
    <2>1. /\ request'.review = v /\ request'.upTo = Len(events) /\ request'.row = rows[v]
          /\ UNCHANGED <<events, lost>>
      BY <1>4 DEF GetTrace, runVars
    <2>2. \A i \in Ids : i <= Len(events)
      BY IdsFinite
    <2>3. rows[v] # None => \A kind \in {"span.start", "span.end", "decision"} : Told(rows[v], kind)
      BY DEF Inv, Story
    <2>4. QED
      BY <2>1, <2>2, <2>3 DEF Written, Told, ToldNext, Ids
  <1>5. request' = request \/ (\E v \in Reviews : GetTrace(v))
    <2>1. ~GetMetrics
      BY <1>1 DEF GetMetrics, RecordsConfig
    <2>2. ~EndRequest
      BY DEF EndRequest
    <2>3. QED
      BY <2>1, <2>2 DEF Next, RunStep, SpanStart, LlmCall, SpanEnd, Decide, Persist, Crash,
             Refresh, Tick, vars
  <1>6. QED
    BY <1>3, <1>4, <1>5

LEMMA FaithfulFromInv == TypeOK /\ Written /\ TraceRequest => TraceFaithful
  <1> SUFFICES ASSUME TypeOK, Written, TraceRequest PROVE TraceFaithful
    OBVIOUS
  <1>0. \A i \in Ids : i \in Nat /\ i <= Len(events) /\ events[i].ts \in Nat
    BY IdsFinite
  <1>1. Seen = Ids
    BY DEF Seen, Written, DashboardDatabase
  <1>2. TraceInOrder
    <2>1. SUFFICES ASSUME NEW v \in Reviews
          PROVE  LET trace == Timeline(v, Len(events))
                 IN  /\ {trace[n] : n \in DOMAIN trace} = {i \in Ids : ReviewOf(events[i].run) = v}
                     /\ \A m, n \in DOMAIN trace :
                           m < n /\ events[trace[m]].run = events[trace[n]].run
                               => trace[m] < trace[n]
      BY DEF TraceInOrder
    <2> DEFINE trace == Timeline(v, Len(events))
    <2>2. Of(v, Len(events)) = {i \in Ids : ReviewOf(events[i].run) = v}
      BY <1>0, <1>1 DEF Of
    <2>3. /\ {trace[n] : n \in DOMAIN trace} = Of(v, Len(events))
          /\ \A m, n \in DOMAIN trace : m < n => Precedes(trace[m], trace[n])
      BY TimelineSound
    <2> HIDE DEF trace
    <2>4. ASSUME NEW m \in DOMAIN trace, NEW n \in DOMAIN trace, m < n,
                 events[trace[m]].run = events[trace[n]].run
          PROVE  trace[m] < trace[n]
      <3>1. trace[m] \in Ids /\ trace[n] \in Ids /\ Precedes(trace[m], trace[n])
        BY <2>2, <2>3, <2>4
      <3>2. ~(trace[n] < trace[m] /\ events[trace[m]].ts < events[trace[n]].ts)
        BY <1>0, <2>4, <3>1 DEF Written
      <3>3. trace[m] # trace[n]
        BY <1>0, <3>1 DEF Precedes
      <3>4. QED
        BY <1>0, <3>1, <3>2, <3>3 DEF Precedes
    <2>5. QED
      BY <2>2, <2>3, <2>4 DEF trace
  <1>3. TraceTellsRow
    <2>1. SUFFICES ASSUME scenario.asks \in Reviews, request # Nothing,
                          Trace.review \in {request.row} \ {None},
                          NEW kind \in {"span.start", "span.end", "decision"}
          PROVE  \/ <<Trace.review, kind>> \in lost
                 \/ \E n \in DOMAIN Trace.events :
                       /\ events[Trace.events[n]].run = Trace.review
                       /\ events[Trace.events[n]].kind = kind
      BY DEF TraceTellsRow
    <2> DEFINE w == request.row
               t == Timeline(request.review, request.upTo)
    <2>2. Trace.review = w /\ w # None /\ Trace.events = t
      BY <2>1 DEF Trace
    <2>3. ReviewOf(w) = request.review /\ ToldBy(w, kind, request.upTo)
      BY <2>1, <2>2 DEF TraceRequest
    <2>4. {t[n] : n \in DOMAIN t} = Of(request.review, request.upTo)
      BY TimelineSound
    <2> HIDE DEF w, t
    <2>5. CASE \E i \in Ids : i <= request.upTo /\ events[i].run = w /\ events[i].kind = kind
      <3>1. PICK i \in Ids : i <= request.upTo /\ events[i].run = w /\ events[i].kind = kind
        BY <2>5
      <3>2. i \in Of(request.review, request.upTo)
        BY <1>1, <2>3, <3>1 DEF Of
      <3>3. QED
        BY <2>2, <2>4, <3>1, <3>2
    <2>6. QED
      BY <2>2, <2>3, <2>5 DEF ToldBy
  <1>4. QED
    BY <1>2, <1>3 DEF TraceFaithful

\* fetch_events_for_review and get_trace: whatever the hosts' clocks show, a
\* trace is complete and keeps each run's order, and it explains the row it is
\* shown with.
THEOREM TraceAlwaysFaithful == Spec => []TraceFaithful
  <1>1. Init => TraceRequest
    BY DEF Init, TraceRequest
  <1>2. QED
    BY <1>1, WrittenInit, WrittenStep, TraceRequestStep, FaithfulFromInv, InvAlways, TypeCorrect,
       PTL DEF Spec

-----------------------------------------------------------------------------
(***************************************************************************)
(* The rows a request for metrics has counted are llm.call rows of the     *)
(* past and of no test, so they are not among those its second statement   *)
(* excludes; and it excludes, besides, all there were when it came.        *)
(***************************************************************************)
Counted(now) == {i \in Calls : events[i].ts <= now /\ ~IsFixture(i)}
Excluded(now) == {i \in Calls : events[i].ts > now \/ IsFixture(i)}

MetricsRequest ==
    /\ \A i \in buckets : ~IsFixture(i)
    /\ (scenario.asks = "metrics" /\ request # Nothing) =>
          /\ request.now \in Nat /\ request.due \in Nat
          /\ \E T \in SUBSET Counted(request.now) : request.total = Cardinality(T)
          /\ request.due <= request.total + Cardinality(Excluded(request.now))

LEMMA CallsFinite ==
  ASSUME TypeOK
  PROVE  /\ Calls \subseteq Ids /\ IsFiniteSet(Calls)
         /\ \A S \in SUBSET Calls : IsFiniteSet(S) /\ Cardinality(S) \in Nat
         /\ \A S \in SUBSET Calls : \A T \in SUBSET S : Cardinality(T) <= Cardinality(S)
  <1>1. Calls \subseteq Ids
    BY DEF Calls
  <1>2. IsFiniteSet(Calls)
    BY <1>1, IdsFinite, FS_Subset
  <1>3. \A S \in SUBSET Calls : IsFiniteSet(S) /\ Cardinality(S) \in Nat
    BY <1>2, FS_Subset, FS_CardinalityType
  <1>4. \A S \in SUBSET Calls : \A T \in SUBSET S : Cardinality(T) <= Cardinality(S)
    BY <1>3, FS_Subset
  <1>5. QED
    BY <1>1, <1>2, <1>3, <1>4

LEMMA DisjointAdd ==
  ASSUME TypeOK, NEW S \in SUBSET Calls, NEW T \in SUBSET Calls, S \cap T = {}
  PROVE  Cardinality(S \cup T) = Cardinality(S) + Cardinality(T)
  <1>1. IsFiniteSet(S) /\ IsFiniteSet(T) /\ Cardinality(S) \in Nat /\ Cardinality(T) \in Nat
    BY CallsFinite
  <1>2. Cardinality(S \cup T) = Cardinality(S) + Cardinality(T) - Cardinality(S \cap T)
    BY <1>1, FS_Union
  <1>3. Cardinality(S \cap T) = 0
    BY FS_EmptySet
  <1>4. QED
    BY <1>1, <1>2, <1>3

LEMMA ExcludedRows ==
  ASSUME Written, NEW now
  PROVE  Exclusions(now).rows = Cardinality(Excluded(now))
  <1>1. Calls \cap Seen = Calls
    BY DEF Calls, Seen, Written, DashboardDatabase
  <1>2. {i \in Calls \cap Seen : events[i].ts > now} \cup {i \in Calls \cap Seen : IsFixture(i)}
            = Excluded(now)
    BY <1>1 DEF Excluded
  <1>3. QED
    BY <1>2 DEF Exclusions

\* The first statement: what it counts, and what there is to be counted.
LEMMA FirstStatement ==
  ASSUME TypeOK, Written, \A i \in buckets : ~IsFixture(i)
  PROVE  \E T \in SUBSET Counted(clock) :
            /\ Totals(clock) = Cardinality(T)
            /\ Cardinality(Calls \ Pending) \in Nat
            /\ Cardinality(Calls \ Pending) <= Cardinality(T) + Cardinality(Excluded(clock))
  <1>1. Seen = Ids
    BY DEF Seen, Written, DashboardDatabase
  <1>2. \A i \in Calls : i \in Ids /\ events[i].ts \in Nat
    BY IdsFinite DEF Calls
  <1>3. clock \in Nat
    BY Times
  <1>4. ASSUME NEW T \in SUBSET Counted(clock), Calls \ Pending \subseteq T \cup Excluded(clock)
        PROVE  /\ Cardinality(Calls \ Pending) \in Nat
               /\ Cardinality(Calls \ Pending) <= Cardinality(T) + Cardinality(Excluded(clock))
    <2>1. T \in SUBSET Calls /\ Excluded(clock) \in SUBSET Calls /\ T \cap Excluded(clock) = {}
      BY <1>2, <1>3 DEF Counted, Excluded
    <2>2. Cardinality(T \cup Excluded(clock)) = Cardinality(T) + Cardinality(Excluded(clock))
      BY <2>1, DisjointAdd
    <2>3. Cardinality(Calls \ Pending) <= Cardinality(T \cup Excluded(clock))
      BY <1>4, <2>1, CallsFinite
    <2>4. Cardinality(Calls \ Pending) \in Nat
      BY CallsFinite
    <2>5. QED
      BY <2>2, <2>3, <2>4
  <1>5. CASE OnTiger
    <2>1. \A i \in buckets : i \in Calls /\ events[i].ts <= clock /\ ~IsFixture(i)
      BY DEF TypeOK
    <2>2. \A i \in buckets : BucketOf(i) <= clock
      <3>1. SUFFICES ASSUME NEW i \in buckets PROVE BucketOf(i) <= clock
        OBVIOUS
      <3>2. events[i].ts \in Nat /\ events[i].ts <= clock
        BY <1>2, <2>1
      <3>3. BucketSize \in Nat \ {0}
        BY DEF RecordsConfig
      <3>4. /\ events[i].ts = BucketSize * (events[i].ts \div BucketSize) + (events[i].ts % BucketSize)
            /\ events[i].ts % BucketSize \in Nat /\ events[i].ts \div BucketSize \in Int
        BY <3>2, <3>3
      <3>5. BucketOf(i) \in Int
        BY <3>3, <3>4 DEF BucketOf
      <3>6. events[i].ts = BucketOf(i) + (events[i].ts % BucketSize)
        BY <3>4 DEF BucketOf
      <3>7. QED
        BY <1>3, <3>2, <3>4, <3>5, <3>6
    <2>3. {i \in buckets \cap Seen : BucketOf(i) <= clock} = buckets
      BY <1>1, <1>2, <2>1, <2>2
    <2>4. Totals(clock) = Cardinality(buckets)
      BY <1>5, <2>3 DEF Totals
    <2>5. buckets \in SUBSET Counted(clock)
      BY <2>1 DEF Counted
    <2>6. Calls \ Pending \subseteq buckets \cup Excluded(clock)
      BY <1>2, <1>3, <1>5 DEF Pending, Excluded
    <2>7. QED
      BY <1>4, <2>4, <2>5, <2>6
  <1>6. CASE ~OnTiger
    <2>1. {i \in Calls \cap Seen : events[i].ts <= clock /\ ~IsFixture(i)} = Counted(clock)
      BY <1>1, <1>2 DEF Counted
    <2>2. Totals(clock) = Cardinality(Counted(clock))
      BY <1>6, <2>1 DEF Totals
    <2>3. Calls \ Pending \subseteq Counted(clock) \cup Excluded(clock)
      BY <1>2, <1>3 DEF Counted, Excluded
    <2>4. QED
      BY <1>4, <2>2, <2>3
  <1>7. QED
    BY <1>5, <1>6

LEMMA MetricsRequestStep ==
  TypeOK /\ TypeOK' /\ Written /\ MetricsRequest /\ [Next]_vars => MetricsRequest'
  <1> SUFFICES ASSUME TypeOK, TypeOK', Written, MetricsRequest, [Next]_vars
               PROVE  MetricsRequest'
    OBVIOUS
  <1>1. /\ scenario' = scenario
        /\ \A i \in Ids : i \in Ids' /\ events'[i] = events[i]
    BY HistoryGrows
  <1>2. \A i \in Ids : IsFixture(i)' <=> IsFixture(i)
    BY <1>1 DEF IsFixture, ReviewOf
  <1>3. Calls \subseteq Calls' /\ Calls \subseteq Ids
    BY <1>1 DEF Calls
  <1>4. \A i \in buckets' : ~IsFixture(i)'
    <2>1. CASE buckets' = buckets
      BY <1>2, <1>3, <2>1 DEF MetricsRequest, TypeOK
    <2>2. CASE Refresh
      <3>1. \A i \in buckets' : i \in Calls /\ ~IsFixture(i)
        BY <2>2 DEF Refresh
      <3>2. QED
        BY <1>2, <1>3, <3>1
    <2>3. buckets' = buckets \/ Refresh
      BY DEF Next, RunStep, SpanStart, LlmCall, SpanEnd, Decide, Persist, Crash, GetTrace,
             GetMetrics, EndRequest, Tick, vars
    <2>4. QED
      BY <2>1, <2>2, <2>3
  <1> DEFINE CountedNext(now) == {i \in Calls' : events'[i].ts <= now /\ ~IsFixture(i)'}
             ExcludedNext(now) == {i \in Calls' : events'[i].ts > now \/ IsFixture(i)'}
             Kept == /\ request'.now \in Nat /\ request'.due \in Nat
                     /\ \E T \in SUBSET CountedNext(request'.now) : request'.total = Cardinality(T)
                     /\ request'.due <= request'.total + Cardinality(ExcludedNext(request'.now))
  <1>5. \A now : Counted(now) \subseteq CountedNext(now) /\ Excluded(now) \subseteq ExcludedNext(now)
    BY <1>1, <1>2, <1>3 DEF Counted, Excluded
  <1>6. \A now : /\ Cardinality(Excluded(now)) \in Nat /\ Cardinality(ExcludedNext(now)) \in Nat
                 /\ Cardinality(Excluded(now)) <= Cardinality(ExcludedNext(now))
    <2>1. \A S \in SUBSET Calls' : IsFiniteSet(S)
      <3>1. IsFiniteSet(Calls')
        <4>1. events' \in Seq(EventSet)
          BY DEF TypeOK, EventSet
        <4>2. Ids' = 1..Len(events') /\ Len(events') \in Nat
          BY <4>1 DEF Ids
        <4>3. IsFiniteSet(Ids') /\ Calls' \subseteq Ids'
          BY <4>2, FS_Interval DEF Calls
        <4>4. QED
          BY <4>3, FS_Subset
      <3>2. QED
        BY <3>1, FS_Subset
    <2>2. SUFFICES ASSUME NEW now
          PROVE  /\ Cardinality(Excluded(now)) \in Nat /\ Cardinality(ExcludedNext(now)) \in Nat
                 /\ Cardinality(Excluded(now)) <= Cardinality(ExcludedNext(now))
      OBVIOUS
    <2>3. IsFiniteSet(ExcludedNext(now))
      BY <2>1
    <2>4. IsFiniteSet(Excluded(now)) /\ Cardinality(Excluded(now)) <= Cardinality(ExcludedNext(now))
      BY <1>5, <2>3, FS_Subset
    <2>5. QED
      BY <2>3, <2>4, FS_CardinalityType
  <1> HIDE DEF CountedNext, ExcludedNext
  <1>7. ASSUME scenario'.asks = "metrics", request' # Nothing PROVE Kept
    <2>1. CASE request' = request
      <3>1. /\ request.now \in Nat /\ request.due \in Nat
            /\ \E T \in SUBSET Counted(request.now) : request.total = Cardinality(T)
            /\ request.due <= request.total + Cardinality(Excluded(request.now))
        BY <1>1, <1>7, <2>1 DEF MetricsRequest
      <3>2. PICK T \in SUBSET Counted(request.now) : request.total = Cardinality(T)
        BY <3>1
      <3>3. T \in SUBSET Calls /\ Cardinality(T) \in Nat
        BY <3>2, CallsFinite DEF Counted
      <3>4. T \in SUBSET CountedNext(request.now)
        BY <1>5, <3>2
      <3>5. request.due <= request.total + Cardinality(ExcludedNext(request.now))
        BY <1>6, <3>1, <3>2, <3>3
      <3>6. QED
        BY <2>1, <3>1, <3>2, <3>4, <3>5
    <2>2. CASE GetMetrics
      <3>1. /\ request'.now = clock /\ request'.total = Totals(clock)
            /\ request'.due = Cardinality(Calls \ Pending)
        BY <2>2 DEF GetMetrics
      <3>2. PICK T \in SUBSET Counted(clock) :
                /\ Totals(clock) = Cardinality(T)
                /\ Cardinality(Calls \ Pending) \in Nat
                /\ Cardinality(Calls \ Pending) <= Cardinality(T) + Cardinality(Excluded(clock))
        BY FirstStatement DEF MetricsRequest
      <3>3. T \in SUBSET Calls /\ Cardinality(T) \in Nat
        BY <3>2, CallsFinite DEF Counted
      <3>4. T \in SUBSET CountedNext(clock)
        BY <1>5, <3>2
      <3>5. Cardinality(Calls \ Pending) <= Cardinality(T) + Cardinality(ExcludedNext(clock))
        BY <1>6, <3>2, <3>3
      <3>6. QED
        BY <3>1, <3>2, <3>4, <3>5, Times
    <2>3. request' = request \/ GetMetrics
      <3>1. \A v \in Reviews : ~GetTrace(v)
        BY <1>1, <1>7 DEF GetTrace, RecordsConfig
      <3>2. ~EndRequest
        BY <1>7 DEF EndRequest
      <3>3. QED
        BY <3>1, <3>2 DEF Next, RunStep, SpanStart, LlmCall, SpanEnd, Decide, Persist, Crash,
               Refresh, Tick, vars
    <2>4. QED
      BY <2>1, <2>2, <2>3
  <1>8. QED
    BY <1>4, <1>7 DEF MetricsRequest, Counted, Excluded, CountedNext, ExcludedNext

LEMMA AccountedFromInv == TypeOK /\ Written /\ MetricsRequest => MetricsAccounted
  <1> SUFFICES ASSUME TypeOK, Written, MetricsRequest, scenario.asks = "metrics", request # Nothing
               PROVE  LET counted == Metrics.total + Metrics.excluded.rows
                      IN  request.due <= counted /\ counted <= Cardinality(Calls)
    BY DEF MetricsAccounted
  <1>1. /\ request.now \in Nat /\ request.due \in Nat
        /\ request.due <= request.total + Cardinality(Excluded(request.now))
    BY DEF MetricsRequest
  <1>2. PICK T \in SUBSET Counted(request.now) : request.total = Cardinality(T)
    BY DEF MetricsRequest
  <1>3. \A i \in Calls : events[i].ts \in Nat
    BY IdsFinite DEF Calls
  <1>4. /\ T \in SUBSET Calls /\ Excluded(request.now) \in SUBSET Calls
        /\ T \cap Excluded(request.now) = {}
    BY <1>1, <1>2, <1>3 DEF Counted, Excluded
  <1>5. Cardinality(T \cup Excluded(request.now)) = Cardinality(T) + Cardinality(Excluded(request.now))
    BY <1>4, DisjointAdd
  <1>6. Cardinality(T \cup Excluded(request.now)) <= Cardinality(Calls)
    BY <1>4, CallsFinite
  <1>7. /\ Metrics.total = Cardinality(T)
        /\ Metrics.excluded.rows = Cardinality(Excluded(request.now))
    BY <1>2, ExcludedRows DEF Metrics
  <1>8. QED
    BY <1>1, <1>2, <1>5, <1>6, <1>7

\* aggregate_llm_calls_by_agent: of the rows there were, none is missing from
\* the totals and the exclusions together, and no row is in both.
THEOREM MetricsAlwaysAccounted == Spec => []MetricsAccounted
  <1>1. Init => MetricsRequest
    BY DEF Init, MetricsRequest
  <1>2. QED
    BY <1>1, WrittenInit, WrittenStep, MetricsRequestStep, AccountedFromInv, TypeCorrect, PTL
       DEF Spec
=============================================================================
