--------------------------- MODULE MCReviewRecords --------------------------
(* A small instance of ReviewRecords for TLC. *)
EXTENDS ReviewRecords

CONSTANTS r1, r2, v1, v2

\* v1 is reviewed twice, or v1 and v2, which is a review of a test; the gate
\* queues it each time, or the first one only.
OneReview == [r \in Runs |-> v1]
TwoReviews == [r \in Runs |-> IF r = r2 THEN v2 ELSE v1]
FirstQueued == [r \in Runs |-> IF r = r1 THEN "QUEUED_FOR_HITL" ELSE "POSTED"]
Untraced == [r \in Runs |-> "untraced"]
Started == {[r \in Runs |-> IF r = r1 THEN "worker" ELSE "cli_verified"],
            [r \in Runs |-> IF r = r1 THEN "cli" ELSE "check"]}
AllQueued == [r \in Runs |-> "QUEUED_FOR_HITL"]

SomeScenarios ==
    { [backend |-> "tiger", reviewOf |-> OneReview, verdict |-> AllQueued, ahead |-> {r2},
       asks |-> "metrics", until |-> 1, starts |-> Untraced, losses |-> 0],
      [backend |-> "tiger", reviewOf |-> OneReview, verdict |-> FirstQueued, ahead |-> {r2},
       asks |-> v1, until |-> 0, starts |-> Untraced, losses |-> 1],
      [backend |-> "local", reviewOf |-> TwoReviews, verdict |-> FirstQueued, ahead |-> Runs,
       asks |-> "metrics", until |-> 1, starts |-> Untraced, losses |-> 0] }
    \cup
    { [backend |-> "local", reviewOf |-> OneReview, verdict |-> AllQueued, ahead |-> {},
       asks |-> "nothing", until |-> 0, starts |-> s, losses |-> 0] : s \in Started }
=============================================================================
