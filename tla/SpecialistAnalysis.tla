------------------------- MODULE SpecialistAnalysis -------------------------
(***************************************************************************)
(* One specialist of one worker process, called by the reviews that run in *)
(* it at the same time (agents/base_agent.py: run_specialist_analysis):    *)
(* grounding, budget check, the provider call with its retry, breaker and  *)
(* timeout (tools/llm_client.py: complete), the llm.call row, parsing.     *)
(*                                                                         *)
(* All calls of the process that are bounded by a timeout run on one       *)
(* shared thread pool (reliability/timeout.py).  A timeout stops the wait  *)
(* and nothing else: the call keeps its place in the pool's queue, or its  *)
(* thread, until it returns, and what it then returns is for nobody.       *)
(***************************************************************************)
EXTENDS Retrieval, ResponseParsing

CONSTANTS
    Calls,         \* concurrent analyses by the one specialist
    DiffOf,        \* per call: the diff it is about
    Texts,         \* what the model may answer
    PoolSize,      \* threads of the timeout executor
    MaxAttempts,   \* llm_retry_max_attempts
    Threshold,     \* llm_circuit_breaker_failure_threshold
    Cap,           \* the daily cap, in calls
    MaxResets, MaxSeedings   \* bounds

ASSUME AnalysisConfig ==
    /\ IsFiniteSet(Calls)
    /\ PoolSize \in Nat \ {0}
    /\ MaxAttempts \in Nat \ {0}
    /\ Threshold \in Nat \ {0}
    /\ MaxResets \in Nat /\ MaxSeedings \in Nat

VARIABLES
    pc,          \* per call: where its thread is
    attempt,     \* per call: the number of its provider attempt
    hits,        \* per call: the table as each of the two searches saw it
    reply,       \* per call: the outcome of the attempt it waits for
    text,        \* per call: the model's text, while it is parsed
    result,      \* per call: what the node is given
    rows,        \* code_chunks
    seeding,     \* the seeding they come from
    queue,       \* tasks submitted to the pool and not begun
    running,     \* tasks on a thread of the pool
    breaker,     \* the client's circuit breaker
    resets,      \* half-open phases so far
    abandoned,   \* attempts given up by timeout since the last success
    timeouts,    \* attempts given up by timeout
    billed,      \* answers the provider produced, and charges for
    recorded,    \* llm.call rows
    unwritten    \* llm.call rows whose write failed and was swallowed

corpusVars == <<rows, seeding>>
poolVars == <<queue, running>>
breakerVars == <<breaker, resets, abandoned>>
costVars == <<timeouts, billed, recorded, unwritten>>
vars == <<pc, attempt, hits, reply, text, result, corpusVars, poolVars, breakerVars, costVars>>

Outcomes == {"answer", "transient", "permanent"}
NoHits == <<>>
None == "none"
Task(c) == <<c, attempt[c]>>
Tasks == Calls \X (1..MaxAttempts)

-----------------------------------------------------------------------------
Init ==
    /\ pc = [c \in Calls |-> "idle"]
    /\ attempt = [c \in Calls |-> 0]
    /\ hits = [c \in Calls |-> NoHits]
    /\ reply = [c \in Calls |-> None]
    /\ text = [c \in Calls |-> <<>>]
    /\ result = [c \in Calls |-> None]
    /\ rows = {Chunk(p, 0) : p \in Paths}
    /\ seeding = 0
    /\ queue = <<>>
    /\ running = {}
    /\ breaker = [state |-> "closed", failures |-> 0, probe |-> FALSE]
    /\ resets = 0
    /\ abandoned = 0
    /\ timeouts = 0 /\ billed = 0 /\ recorded = 0 /\ unwritten = 0

End(c, how) ==
    /\ pc' = [pc EXCEPT ![c] = "done"]
    /\ result' = [result EXCEPT ![c] = how]

\* analyze: the prompt is loaded and the query is embedded.
Begin(c) ==
    /\ pc[c] = "idle"
    /\ pc' = [pc EXCEPT ![c] = "vector"]
    /\ UNCHANGED <<attempt, hits, reply, text, result, corpusVars, poolVars, breakerVars, costVars>>

\* Whatever goes wrong in the retriever, an embedding call that failed
\* included, is swallowed: the analysis goes on with the diff alone.
RetrievalFails(c) ==
    /\ pc[c] \in {"vector", "text"}
    /\ pc' = [pc EXCEPT ![c] = "budget"]
    /\ hits' = [hits EXCEPT ![c] = NoHits]
    /\ UNCHANGED <<attempt, reply, text, result, corpusVars, poolVars, breakerVars, costVars>>

SearchVector(c) ==
    /\ pc[c] = "vector"
    /\ pc' = [pc EXCEPT ![c] = "text"]
    /\ hits' = [hits EXCEPT ![c] = <<rows>>]
    /\ UNCHANGED <<attempt, reply, text, result, corpusVars, poolVars, breakerVars, costVars>>

SearchText(c) ==
    /\ pc[c] = "text"
    /\ pc' = [pc EXCEPT ![c] = "ground"]
    /\ hits' = [hits EXCEPT ![c] = Append(@, rows)]
    /\ UNCHANGED <<attempt, reply, text, result, corpusVars, poolVars, breakerVars, costVars>>

\* The chunks of c's prompt, once both searches are done.
Prompt(c) == Context(HybridSearch(hits[c][1], hits[c][2], Query(DiffOf[c])))

\* build_user_message: the prompt is written.
Ground(c) ==
    /\ pc[c] = "ground"
    /\ pc' = [pc EXCEPT ![c] = "budget"]
    /\ hits' = [hits EXCEPT ![c] = NoHits]
    /\ UNCHANGED <<attempt, reply, text, result, corpusVars, poolVars, breakerVars, costVars>>

\* check_and_raise, then _client: BudgetExceededError and a missing key are
\* reported as an unavailable specialist; an error of the events database is
\* none of the errors the node isolates.
CheckBudget(c) ==
    /\ pc[c] = "budget"
    /\ \/ /\ recorded < Cap
          /\ pc' = [pc EXCEPT ![c] = "attempt"]
          /\ attempt' = [attempt EXCEPT ![c] = 1]
          /\ UNCHANGED result
       \/ End(c, "unavailable") /\ UNCHANGED attempt
       \/ End(c, "escaped") /\ UNCHANGED attempt
    /\ UNCHANGED <<hits, reply, text, corpusVars, poolVars, breakerVars, costVars>>

-----------------------------------------------------------------------------
Refuses == breaker.state = "open" \/ (breaker.state = "half_open" /\ breaker.probe)

\* breaker.call and run_with_timeout up to the wait: CircuitOpenError, not
\* retried, or the attempt is submitted to the pool.
Submit(c) ==
    /\ pc[c] = "attempt"
    /\ ~Refuses
    /\ breaker' = [breaker EXCEPT !.probe = @ \/ breaker.state = "half_open"]
    /\ queue' = Append(queue, Task(c))
    /\ pc' = [pc EXCEPT ![c] = "waiting"]
    /\ UNCHANGED <<attempt, hits, reply, text, result, corpusVars, running, resets, abandoned,
                   costVars>>

BreakerRefuses(c) ==
    /\ pc[c] = "attempt"
    /\ Refuses
    /\ End(c, "unavailable")
    /\ UNCHANGED <<attempt, hits, reply, text, corpusVars, poolVars, breakerVars, costVars>>

\* _record_failure and _record_success.
Failed ==
    LET trips == breaker.state = "half_open" \/ breaker.failures + 1 >= Threshold
    IN  breaker' = [state    |-> IF trips THEN "open" ELSE breaker.state,
                    failures |-> IF breaker.failures < Threshold THEN breaker.failures + 1
                                 ELSE Threshold,
                    probe    |-> FALSE]

Succeeded == breaker' = [state |-> "closed", failures |-> 0, probe |-> FALSE]

\* Mutation of RetryOrGiveUp: one attempt too many.
RetryOrGiveUpLate(c) ==
    \/ /\ attempt[c] <= MaxAttempts
       /\ pc' = [pc EXCEPT ![c] = "attempt"]
       /\ attempt' = [attempt EXCEPT ![c] = @ + 1]
       /\ UNCHANGED result
    \/ /\ attempt[c] > MaxAttempts
       /\ End(c, "unavailable")
       /\ UNCHANGED attempt

\* call_with_retry after a transient failure: another attempt, or
\* RetryExhaustedError.
RetryOrGiveUp(c) ==
    \/ /\ attempt[c] < MaxAttempts
       /\ pc' = [pc EXCEPT ![c] = "attempt"]
       /\ attempt' = [attempt EXCEPT ![c] = @ + 1]
       /\ UNCHANGED result
    \/ /\ attempt[c] = MaxAttempts
       /\ End(c, "unavailable")
       /\ UNCHANGED attempt

\* The wait ends with the attempt's outcome.
GetReply(c) ==
    /\ pc[c] = "waiting"
    /\ reply[c] # None
    /\ reply' = [reply EXCEPT ![c] = None]
    /\ \/ /\ reply[c] = "answer"
          /\ Succeeded
          /\ abandoned' = 0
          /\ pc' = [pc EXCEPT ![c] = "record"]
          /\ UNCHANGED <<attempt, result>>
       \/ /\ reply[c] = "transient"
          /\ Failed
          /\ RetryOrGiveUp(c)
          /\ UNCHANGED abandoned
       \/ /\ reply[c] = "permanent"
          /\ Failed
          /\ End(c, "unavailable")
          /\ UNCHANGED <<attempt, abandoned>>
    /\ UNCHANGED <<hits, text, corpusVars, poolVars, resets, costVars>>

\* Mutation of TimeOut: the time counts from when a thread takes the task.
TimeOutOnceRunning(c) ==
    /\ pc[c] = "waiting"
    /\ reply[c] = None
    /\ Task(c) \in running
    /\ timeouts' = timeouts + 1
    /\ abandoned' = abandoned + 1
    /\ Failed
    /\ RetryOrGiveUp(c)
    /\ UNCHANGED <<hits, reply, text, corpusVars, poolVars, resets, billed, recorded, unwritten>>

\* Mutation of TimeOut: a timeout is not held against the dependency.
TimeOutUncounted(c) ==
    /\ pc[c] = "waiting"
    /\ reply[c] = None
    /\ timeouts' = timeouts + 1
    /\ abandoned' = abandoned + 1
    /\ breaker' = [breaker EXCEPT !.probe = FALSE]
    /\ RetryOrGiveUp(c)
    /\ UNCHANGED <<hits, reply, text, corpusVars, poolVars, resets, billed, recorded, unwritten>>

\* await_future: CallTimedOutError, a failure like any transient one.  The
\* task stays where it is.
TimeOut(c) ==
    /\ pc[c] = "waiting"
    /\ reply[c] = None
    /\ timeouts' = timeouts + 1
    /\ abandoned' = abandoned + 1
    /\ Failed
    /\ RetryOrGiveUp(c)
    /\ UNCHANGED <<hits, reply, text, corpusVars, poolVars, resets, billed, recorded, unwritten>>

\* Mutation of Record: the write is part of what is retried.
RecordRetried(c) ==
    /\ pc[c] = "record"
    /\ \/ /\ recorded' = recorded + 1
          /\ pc' = [pc EXCEPT ![c] = "parse"]
          /\ UNCHANGED <<attempt, result>>
       \/ /\ RetryOrGiveUp(c)
          /\ UNCHANGED recorded
    /\ UNCHANGED <<hits, reply, text, corpusVars, poolVars, breakerVars, timeouts, billed,
                   unwritten>>

\* emit_llm_call: the row is written, or the failure is logged and swallowed.
Record(c) ==
    /\ pc[c] = "record"
    /\ pc' = [pc EXCEPT ![c] = "parse"]
    /\ \/ recorded' = recorded + 1 /\ UNCHANGED unwritten
       \/ unwritten' = unwritten + 1 /\ UNCHANGED recorded
    /\ UNCHANGED <<attempt, hits, reply, text, result, corpusVars, poolVars, breakerVars,
                   timeouts, billed>>

\* The text is parsed, and the findings are returned to the node.
Parse(c) ==
    /\ pc[c] = "parse"
    /\ pc' = [pc EXCEPT ![c] = "return"]
    /\ text' \in {[text EXCEPT ![c] = t] : t \in Texts}
    /\ result' = [result EXCEPT ![c] = Outcome(text'[c])]
    /\ UNCHANGED <<attempt, hits, reply, corpusVars, poolVars, breakerVars, costVars>>

Return(c) ==
    /\ pc[c] = "return"
    /\ pc' = [pc EXCEPT ![c] = "done"]
    /\ text' = [text EXCEPT ![c] = <<>>]
    /\ UNCHANGED <<attempt, hits, reply, result, corpusVars, poolVars, breakerVars, costVars>>

-----------------------------------------------------------------------------
\* A free thread takes the oldest task, whether anyone waits for it or not.
StartTask ==
    /\ queue # <<>>
    /\ Cardinality(running) < PoolSize
    /\ running' = running \cup {Head(queue)}
    /\ queue' = Tail(queue)
    /\ UNCHANGED <<pc, attempt, hits, reply, text, result, corpusVars, breakerVars, costVars>>

\* The provider answers or fails, and the thread is free again.
EndTask(t) ==
    /\ t \in running
    /\ running' = running \ {t}
    /\ \E how \in Outcomes :
          /\ billed' = IF how = "answer" THEN billed + 1 ELSE billed
          /\ reply' = IF pc[t[1]] = "waiting" /\ Task(t[1]) = t
                      THEN [reply EXCEPT ![t[1]] = how] ELSE reply
    /\ UNCHANGED <<pc, attempt, hits, text, result, corpusVars, queue, breakerVars, timeouts,
                   recorded, unwritten>>

\* reset_timeout_seconds have passed since the breaker opened.
Reset ==
    /\ breaker.state = "open"
    /\ resets < MaxResets
    /\ resets' = resets + 1
    /\ breaker' = [breaker EXCEPT !.state = "half_open", !.probe = FALSE]
    /\ UNCHANGED <<pc, attempt, hits, reply, text, result, corpusVars, poolVars, abandoned,
                   costVars>>

\* scripts/seed_code_chunks.py: TRUNCATE, then row by row, each statement on
\* its own.
Truncate ==
    /\ seeding < MaxSeedings
    /\ seeding' = seeding + 1
    /\ rows' = {}
    /\ UNCHANGED <<pc, attempt, hits, reply, text, result, poolVars, breakerVars, costVars>>

InsertChunk ==
    /\ \E p \in Paths : /\ Chunk(p, seeding) \notin rows
                        /\ rows' = rows \cup {Chunk(p, seeding)}
    /\ UNCHANGED <<pc, attempt, hits, reply, text, result, seeding, poolVars, breakerVars,
                   costVars>>

CallStep(c) ==
    \/ Begin(c) \/ RetrievalFails(c) \/ SearchVector(c) \/ SearchText(c) \/ Ground(c)
    \/ CheckBudget(c) \/ Submit(c) \/ BreakerRefuses(c) \/ GetReply(c) \/ TimeOut(c)
    \/ Record(c) \/ Parse(c) \/ Return(c)

Next ==
    \/ \E c \in Calls : CallStep(c)
    \/ StartTask \/ \E t \in Tasks : EndTask(t)
    \/ Reset \/ Truncate \/ InsertChunk

Spec == Init /\ [][Next]_vars

\* Threads of reviews go on, and their waits are bounded.  Nothing is assumed
\* of the provider or of the pool: a call may hold its thread for ever.
FairSpec == Spec /\ \A c \in Calls : WF_vars(CallStep(c))

-----------------------------------------------------------------------------
Chunks == {Chunk(p, n) : p \in Paths, n \in 0..MaxSeedings}

TypeOK ==
    /\ pc \in [Calls -> {"idle", "vector", "text", "ground", "budget", "attempt", "waiting",
                         "record", "parse", "return", "done"}]
    /\ attempt \in [Calls -> 0..MaxAttempts]
    /\ reply \in [Calls -> Outcomes \cup {None}]
    /\ text \in [Calls -> Texts \cup {<<>>}]
    /\ result \in [Calls -> {None, "findings", "clean", "fallback", "unavailable", "escaped"}]
    /\ rows \subseteq Chunks
    /\ hits \in [Calls -> Seq(SUBSET Chunks)]
    /\ seeding \in 0..MaxSeedings
    /\ queue \in Seq(Tasks) /\ running \subseteq Tasks
    /\ Cardinality(running) <= PoolSize
    /\ breaker \in [state : {"closed", "open", "half_open"}, failures : 0..Threshold,
                    probe : BOOLEAN]
    /\ resets \in 0..MaxResets
    /\ {abandoned, timeouts, billed, recorded, unwritten} \subseteq Nat
    /\ \A c \in Calls : reply[c] # None => pc[c] = "waiting"

\* timeout.py:33-42: the breaker keeps calls that time out from piling up on
\* the shared pool.  Between two successes no more are given up than trip the
\* breaker, than were under way when it tripped, and one for each probe.
AbandonedBounded == abandoned <= Threshold - 1 + Cardinality(Calls) + resets

\* llm_client.py: what the provider charges and no llm.call row shows is at
\* most the timed-out attempts, whose answers came too late, the rows that
\* could not be written and the answers about to be recorded.
SpendExplained ==
    billed <= recorded + unwritten + timeouts
              + Cardinality({c \in Calls : pc[c] = "record" \/ reply[c] = "answer"})

\* The characters that a sequence of chunks takes.
Size(chunks) ==
    LET size[n \in 0..Len(chunks)] ==
            IF n = 0 THEN 0 ELSE size[n - 1] + SizeOf[chunks[n].path]
    IN  size[Len(chunks)]

\* context_retriever.py:281-293: a prompt never shows a chunk twice or one
\* that was in the table at neither search, keeps to its budget, and does not
\* put a chunk behind another that no ranking puts ahead of it.
GroundingSound ==
    \A c \in Calls : pc[c] = "ground" =>
        LET vector == VectorHits(hits[c][1])
            found  == TextHits(hits[c][2], Query(DiffOf[c]))
            shown  == Prompt(c)
            ahead(ranking, x, y) ==
                x \in ToSet(ranking) /\ (y \in ToSet(ranking) => Rank(ranking, x) < Rank(ranking, y))
        IN  /\ \A i, j \in DOMAIN shown : i < j =>
                  /\ shown[i] # shown[j]
                  /\ ahead(vector, shown[i], shown[j]) \/ ahead(found, shown[i], shown[j])
            /\ ToSet(shown) \subseteq hits[c][1] \cup hits[c][2]
            /\ Size(shown) <= MaxSize

\* response_parsing.py:6-10 and 26-33: a report is clean only if the model
\* sent an empty list, and one that leads with a list holding a valid finding
\* yields findings whatever else is in the list.
CleanOnlyIfEmpty ==
    \A c \in Calls : pc[c] = "return" =>
        /\ result[c] = "clean" => \E i \in DOMAIN text[c] : text[c][i].items = <<>>
        /\ (\E items \in Lists(Payload(text[c])) : "valid" \in ToSet(items))
              => result[c] = "findings"

\* response_parsing.py:17-33: prose before the JSON is tolerated, and findings
\* are never dropped silently.  (It fails: an empty array in the prose is
\* taken for the report.)
ReportedIsKept ==
    \A c \in Calls : result[c] = "clean" =>
        \A i \in DOMAIN text[c] : "valid" \notin ToSet(text[c][i].items)

\* timeout.py: every analysis ends, even when all threads of the pool are held
\* for ever by calls nobody waits for.
AnalysisEnds == \A c \in Calls : pc[c] # "idle" ~> pc[c] = "done"
=============================================================================
