--------------------------- MODULE MCGitHubClient ---------------------------
(* Small instances of GitHubClient for TLC. *)
EXTENDS GitHubClient

CONSTANTS w1, w2, j1, j2

\* Two heads of one pull request.  The first has a page of files and one more:
\* one with two hunks and a removal between them, a binary one and a new one.
\* The second has lost the new file, so that its second page is empty, and the
\* lines of the other lie elsewhere.
TwoHunks == <<Header(1, 1), Line(" "), Line("-"), Line("+"), Line("+"), Line("\\"),
              Header(4, 5), Line("-"), Line(" ")>>
OnlyAdded == <<Header(0, 1), Line("+"), Line("+")>>
OnlyRemoved == <<Header(2, 2), Line("-"), Line(" ")>>

TwoHeads ==
    << <<[name |-> "a", patch |-> TwoHunks], [name |-> "b", patch |-> NoPatch],
         [name |-> "c", patch |-> OnlyAdded]>>,
       <<[name |-> "a", patch |-> OnlyRemoved], [name |-> "b", patch |-> NoPatch]>> >>

\* Both jobs on one worker with a revocation to come; both on one worker when
\* the first page of reviews is full; and each job on its own worker.
Together == [j \in {j1, j2} |-> w1]
Apart == [j \in {j1, j2} |-> IF j = j1 THEN w1 ELSE w2]

SmallScenarios == {[worker |-> Together, others |-> 1, revoked |-> 0],
                   [worker |-> Together, others |-> 2, revoked |-> 1],
                   [worker |-> Apart, others |-> 1, revoked |-> 1]}

\* Every line of a and around it, and some of the files without a patch, with
\* additions only, and not in the pull request.
EveryLine == [path : {"a"}, line : 1..6] \cup [path : {"b", "c", "d"}, line : 1..2]
=============================================================================
