--------------------------- MODULE ResponseParsing --------------------------
(***************************************************************************)
(* agents/response_parsing.py: from a model's text to findings.  A text is *)
(* what it holds, in order, of JSON arrays and objects that can be parsed; *)
(* prose between them, a code fence around them and text that cannot be    *)
(* parsed are skipped by the scan and leave no trace.                      *)
(***************************************************************************)
EXTENDS Naturals, FiniteSets, Sequences, SequencesExt

\* What the parser distinguishes in the items of a list.
ItemKinds == {"valid", "rejected", "not_object"}

\* A JSON value: a bare array of items, an object with lists under some of its
\* keys, or an object with neither key ("other" also stands for one whose
\* values are not lists).
Array(items) == [shape |-> "array", items |-> items]
Object(key, items) == [shape |-> key, items |-> items]

\* _extract_json_payload: the whole text if it is one value, otherwise the
\* first value the scan meets; {} if there is none.  The fenced block is the
\* second candidate, and the scan of the whole text has been through it.
Payload(text) == {text[i] : i \in DOMAIN text \cap {1}}

\* _extract_finding_dicts: the list, {} if there is none.
Lists(values) == {v.items : v \in {u \in values : u.shape \in {"array", "findings", "issues"}}}

\* Mutation of Outcome: a list without a valid item is a clean report.
OutcomeAllDropped(text) ==
    LET lists == Lists(Payload(text))
    IN  CASE lists = {} -> "fallback"
          [] \E items \in lists : "valid" \in ToSet(items) -> "findings"
          [] OTHER -> "clean"

\* parse_findings_from_llm_response, and the fallback finding that
\* run_specialist_analysis returns for a ResponseParseError.
Outcome(text) ==
    LET lists == Lists(Payload(text))
    IN  CASE \E items \in lists : "valid" \in ToSet(items) -> "findings"
          [] \E items \in lists : items = <<>> -> "clean"
          [] OTHER -> "fallback"
=============================================================================
