--------------------------- MODULE MCOrchestrator ---------------------------
(* A small instance of Orchestrator for TLC. *)
EXTENDS Orchestrator

CONSTANTS security, tests, docs, hunk, line

Ranks == [s \in Specialists |-> CASE s = security -> 0 [] s = tests -> 1 [] OTHER -> 2]

Finding(s, p, sev, conf) ==
    [agent |-> s, place |-> p, severity |-> sev, confidence |-> conf, text |-> 0]

\* Findings that meet at one line, or that pull the mean to either side of the
\* threshold; a specialist may find nothing.
Parsed == [s \in Specialists |->
    CASE s = security -> {{}, {Finding(s, line, CRITICAL, 2)}, {Finding(s, hunk, 1, 3)}}
      [] s = tests    -> {{}, {Finding(s, line, 4, 4)}, {Finding(s, line, 1, 4), Finding(s, hunk, 2, 1)}}
      [] OTHER        -> {{}, {Finding(s, line, 1, 4)}}]
=============================================================================
