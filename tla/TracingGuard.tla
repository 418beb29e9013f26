----------------------------- MODULE TracingGuard ---------------------------
(***************************************************************************)
(* The start of a process that runs reviews, up to the point where it may  *)
(* run them: the LangSmith check of observability/tracing.py, as the ARQ   *)
(* worker makes it in its on_startup hook, the command line in             *)
(* review_local --verify-tracing, and an operator by itself.               *)
(*                                                                         *)
(* LangSmith takes what it is sent in the background: flush returns        *)
(* cleanly whether the probe run will be kept or not, and one that is kept *)
(* can be read only some time later.                                       *)
(***************************************************************************)
EXTENDS Integers

CONSTANTS
    Processes,        \* started processes
    ReadbackAttempts  \* _PROBE_READBACK_ATTEMPTS

ASSUME ReadbackAssumption == ReadbackAttempts \in Nat \ {0}

VARIABLES
    entry,  \* per process: what is started, and whether langsmith_tracing is set for it
    phase,  \* per process: how far its start has come
    tries,  \* per process: read-backs of the probe that have failed
    probe   \* per process: what LangSmith has of its probe run

guardVars == <<entry, phase, tries, probe>>

\* "untraced" is any of them without langsmith_tracing, "cli" is review_local
\* without the flag.
Entries == {"untraced", "worker", "cli", "cli_verified", "check"}
Phases == {"down", "probing", "up", "refused", "reported"}

\* verify_tracing_before_review, _on_worker_startup, and main of tracing.py:
\* who makes the check.  Without tracing it is a no-op; review_local without
\* the flag prints a warning instead.
Verifies(p) == entry[p] \in {"worker", "cli_verified", "check"}

GuardInit ==
    /\ entry \in [Processes -> Entries]
    /\ phase = [p \in Processes |-> IF Verifies(p) THEN "down" ELSE "up"]
    /\ tries = [p \in Processes |-> 0]
    /\ probe = [p \in Processes |-> "none"]

\* The check has passed: reviews may begin, but for the check by itself, which
\* only reports.
Pass(p) == phase' = [phase EXCEPT ![p] = IF entry[p] = "check" THEN "reported" ELSE "up"]

\* TracingConfigurationError: the worker does not come up, review_local and the
\* check end with status 1.
Refuse(p) == phase' = [phase EXCEPT ![p] = "refused"]

\* Mutation of WriteProbe: a flush that returns is proof enough.
WriteProbeTrustingFlush(p) ==
    /\ phase[p] = "down"
    /\ \/ \E kept \in {"sent", "dropped"} : probe' = [probe EXCEPT ![p] = kept] /\ Pass(p)
       \/ Refuse(p) /\ UNCHANGED probe
    /\ UNCHANGED <<entry, tries>>

\* create_run, update_run and flush: they return, which says nothing of what
\* becomes of the probe, or one of them raises.
WriteProbe(p) ==
    /\ phase[p] = "down"
    /\ \/ \E kept \in {"sent", "dropped"} : probe' = [probe EXCEPT ![p] = kept]
          /\ phase' = [phase EXCEPT ![p] = "probing"]
       \/ Refuse(p) /\ UNCHANGED probe
    /\ UNCHANGED <<entry, tries>>

\* Mutation of ReadProbe: it is read until it is there.
ReadProbeForever(p) ==
    /\ phase[p] = "probing"
    /\ \/ probe[p] = "readable" /\ Pass(p) /\ UNCHANGED tries
       \/ /\ tries' = [tries EXCEPT ![p] = (@ + 1) % ReadbackAttempts]
          /\ UNCHANGED phase
    /\ UNCHANGED <<entry, probe>>

\* One read-back by id after the delay: it finds the probe, or fails, because
\* the probe is not there or for a reason of its own.
ReadProbe(p) ==
    /\ phase[p] = "probing"
    /\ \/ probe[p] = "readable" /\ Pass(p) /\ UNCHANGED tries
       \/ /\ tries' = [tries EXCEPT ![p] = @ + 1]
          /\ IF tries[p] + 1 = ReadbackAttempts THEN Refuse(p) ELSE UNCHANGED phase
    /\ UNCHANGED <<entry, probe>>

\* LangSmith has taken the probe in.
Land(p) ==
    /\ probe[p] = "sent"
    /\ probe' = [probe EXCEPT ![p] = "readable"]
    /\ UNCHANGED <<entry, phase, tries>>

StartStep(p) == WriteProbe(p) \/ ReadProbe(p)

GuardTypeOK ==
    /\ entry \in [Processes -> Entries]
    /\ phase \in [Processes -> Phases]
    /\ tries \in [Processes -> 0..ReadbackAttempts]
    /\ probe \in [Processes -> {"none", "sent", "dropped", "readable"}]

\* tracing.py:17-48: LangSmith loses traces without an error, so no process
\* that makes the check gets to its first review (and its first paid call)
\* unless a run it wrote could be read.
TracedBeforeReviewed ==
    \A p \in Processes : Verifies(p) /\ phase[p] \in {"up", "reported"} => probe[p] = "readable"

\* tracing.py:156-163: a check that hangs would itself be an outage, so every
\* check ends, also when the probe never lands.
StartupEnds ==
    \A p \in Processes : phase[p] \in {"down", "probing"}
                            ~> phase[p] \in {"up", "refused", "reported"}
=============================================================================
