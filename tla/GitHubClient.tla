---------------------------- MODULE GitHubClient ----------------------------
(***************************************************************************)
(* integrations/github_client.py: RealGitHubClient, as the ARQ workers use *)
(* it, with its token cache (github_auth.py), its repository authorizer    *)
(* (security/rbac.py) and its diff cache.                                  *)
(*                                                                         *)
(* process_webhook_event calls fetch_diff before the review and            *)
(* post_review_comment after it, both without await: they hold the         *)
(* worker's event loop from their first request to their last, retries     *)
(* included, and only the review itself runs beside other jobs.  So the    *)
(* caches of one worker see one caller at a time, and what interleaves     *)
(* with a job's requests is the other workers, the clock and GitHub: the   *)
(* pull request moves, tokens are revoked.                                 *)
(*                                                                         *)
(* Time is counted in units of one call through _call_reliably, all of its *)
(* attempts and backoffs included; httpx's timeouts and the retry policy   *)
(* bound it.                                                               *)
(***************************************************************************)
EXTENDS DiffMapping

CONSTANTS
    Workers, Jobs,
    Scenarios,      \* where jobs run, how many reviews others left, and how
                    \* often tokens were revoked before
    FilesAt,        \* per head of the pull request: its files, name and patch
    Findings,       \* what reviews report: a file name and a line each
    PageSize,       \* _FILES_PAGE_SIZE
    Lifetime,       \* validity of an installation token
    Margin,         \* _REFRESH_MARGIN_SECONDS
    MaxTime, MaxRevocations,   \* bounds
    Nothing         \* no cached entry

Heads == 1..Len(FilesAt)
Files == UNION {ToSet(FilesAt[h]) : h \in Heads}

\* What a diff cache holds, and what a fetch has got so far: the head the diff
\* was of, the files with the heads they were of, and the head of the last page.
FileList == Seq([file : Files, version : Heads])
Cached == [diff : Heads, files : FileList, last : Heads]
Partial == [diff : Heads, page : Nat \ {0}, files : FileList]

\* A token outlives its margin, and no sequence of requests made with one set
\* of headers takes longer than the margin.  GitHub lists a file once.
ASSUME ClientConfig ==
    /\ {Lifetime, Margin, MaxTime, MaxRevocations} \subseteq Nat
    /\ PageSize \in Nat \ {0}
    /\ FilesAt \in Seq(Seq(Files)) /\ FilesAt # <<>>
    /\ \A f \in Files : f.patch \in Seq(PatchLines) \cup {NoPatch}
    /\ \A h \in Heads : \A i, k \in DOMAIN FilesAt[h] :
          FilesAt[h][i].name = FilesAt[h][k].name => i = k
    /\ Margin < Lifetime
    /\ \A h \in Heads : 2 + Len(FilesAt[h]) \div PageSize <= Margin
    /\ Scenarios \subseteq [worker : [Jobs -> Workers], others : Nat, revoked : 0..MaxRevocations]
    /\ Nothing \notin Cached \cup Partial

VARIABLES
    now,          \* the clock
    head,         \* GitHub: the commit the pull request points at
    revocations,  \* GitHub: times the installation's tokens were revoked
    reviews,      \* GitHub: the reviews on the pull request, oldest first
    token,        \* per worker: InstallationTokenCache._tokens
    exchanges,    \* per worker: exchange_count
    resolved,     \* workers whose RepositoryAuthorizer knows the installation
    diffs,        \* per worker and head_sha: _diff_cache
    worker,       \* per job: the worker that runs it
    pc,           \* per job: the request it is making, or where it waits
    phase,        \* per job: in fetch_diff or in post_review_comment
    sha,          \* per job: head_sha of its event
    left,         \* per job: time left for the call it is in
    headers,      \* per job: the token in its request headers
    entry,        \* per job: the diff and files fetched so far
    looked,       \* per job: reviews that were there when it looked
    result        \* per job: how its last call ended

gitHubVars == <<head, revocations, reviews>>
cacheVars == <<token, exchanges, resolved, diffs>>
jobVars == <<phase, sha, headers, entry, looked, result>>
vars == <<now, gitHubVars, cacheVars, worker, jobVars, pc, left>>

Results == {"none", "posted", "skipped", "rejected", "unauthorized", "failed"}
DataRequests == {"diff", "files", "marker", "post"}
OnLoop == {"authorize", "token"} \cup DataRequests
NoToken == [exp |-> 0, serial |-> 0]

Loop(w) == {j \in Jobs : worker[j] = w /\ pc[j] \in OnLoop}
ReviewId(j) == sha[j]
Fresh(t) == t.exp - now > Margin
Valid(t) == t.exp > now /\ t.serial = revocations

-----------------------------------------------------------------------------
Init ==
    /\ now = 0
    /\ head = 1
    /\ \E s \in Scenarios : /\ worker = s.worker
                           /\ reviews = [i \in 1..s.others |-> 0]
                           /\ revocations = s.revoked
    /\ token = [w \in Workers |-> NoToken]
    /\ exchanges = [w \in Workers |-> 0]
    /\ resolved = {}
    /\ diffs = [w \in Workers |-> [h \in Heads |-> Nothing]]
    /\ pc = [j \in Jobs |-> "queued"]
    /\ phase = [j \in Jobs |-> "fetch"]
    /\ sha = [j \in Jobs |-> 1]
    /\ left = [j \in Jobs |-> 1]
    /\ headers = [j \in Jobs |-> NoToken]
    /\ entry = [j \in Jobs |-> Nothing]
    /\ looked = [j \in Jobs |-> 0]
    /\ result = [j \in Jobs |-> "none"]

\* j goes on to s, which is a call of its own.
GoTo(j, s) ==
    /\ pc' = [pc EXCEPT ![j] = s]
    /\ left' = [left EXCEPT ![j] = 1]

\* The call ends; what it held is kept only as far as its result is judged by it.
End(j, how) ==
    /\ GoTo(j, "ended")
    /\ result' = [result EXCEPT ![j] = how]
    /\ headers' = [headers EXCEPT ![j] = IF how = "unauthorized" THEN @ ELSE NoToken]
    /\ looked' = [looked EXCEPT ![j] = IF how = "posted" THEN @ ELSE 0]
    /\ entry' = [entry EXCEPT ![j] = Nothing]
    /\ phase' = [phase EXCEPT ![j] = "fetch"]
    /\ sha' = [sha EXCEPT ![j] = IF how \in {"posted", "rejected"} THEN @ ELSE 1]

\* The job is dequeued, for an event GitHub sent when the pull request was at
\* some head up to the present one, and fetch_diff looks into the diff cache.
BeginJob(j) ==
    /\ pc[j] = "queued"
    /\ Loop(worker[j]) = {}
    /\ \E h \in 1..head :
          /\ sha' = [sha EXCEPT ![j] = h]
          /\ GoTo(j, IF diffs[worker[j]][h] = Nothing THEN "authorize" ELSE "reviewing")
    /\ UNCHANGED <<now, gitHubVars, cacheVars, worker, phase, headers, entry, looked, result>>

\* discover_installation_id: GitHub names the repository's installation.
Discover(w) ==
    /\ w \notin resolved
    /\ resolved' = resolved \cup {w}

\* RepositoryAuthorizer.authorize: the installation is asked for once, and
\* never again.
Authorize(j) ==
    /\ pc[j] = "authorize"
    /\ Discover(worker[j]) \/ (worker[j] \in resolved /\ UNCHANGED resolved)
    /\ GoTo(j, "token")
    /\ UNCHANGED <<now, gitHubVars, token, exchanges, diffs, worker, jobVars>>

NextRequest(j) == IF phase[j] = "fetch" THEN "diff" ELSE "marker"

\* j goes on to its first request with token t in its headers.
Proceed(j, t) ==
    /\ GoTo(j, NextRequest(j))
    /\ headers' = [headers EXCEPT ![j] = t]
    /\ UNCHANGED <<now, gitHubVars, resolved, diffs, worker, phase, sha, entry, looked, result>>

NewToken == [exp |-> now + Lifetime, serial |-> revocations]

\* Mutation of GetToken: the exchanged token is not stored.
GetTokenNotStored(j) ==
    LET w == worker[j]
    IN  /\ pc[j] = "token"
        /\ Proceed(j, IF Fresh(token[w]) THEN token[w] ELSE NewToken)
        /\ exchanges' = [exchanges EXCEPT ![w] = IF Fresh(token[w]) THEN @ ELSE @ + 1]
        /\ UNCHANGED token

\* Mutation of GetToken: a token is used until it expires, without a margin.
GetTokenNoMargin(j) ==
    LET w == worker[j]
        fresh == token[w].exp > now
    IN  /\ pc[j] = "token"
        /\ Proceed(j, IF fresh THEN token[w] ELSE NewToken)
        /\ token' = [token EXCEPT ![w] = IF fresh THEN @ ELSE NewToken]
        /\ exchanges' = [exchanges EXCEPT ![w] = IF fresh THEN @ ELSE @ + 1]

\* InstallationTokenCache.get_token: the cached token while it is fresh, or an
\* exchange.
GetToken(j) ==
    LET w == worker[j]
    IN  /\ pc[j] = "token"
        /\ \/ /\ Fresh(token[w])
              /\ Proceed(j, token[w])
              /\ UNCHANGED <<token, exchanges>>
           \/ /\ ~Fresh(token[w])
              /\ Proceed(j, NewToken)
              /\ token' = [token EXCEPT ![w] = NewToken]
              /\ exchanges' = [exchanges EXCEPT ![w] = @ + 1]

\* Mutation of Unauthorized: the job tries again from the token on.
UnauthorizedRetried(j) ==
    /\ pc[j] \in DataRequests
    /\ ~Valid(headers[j])
    /\ GoTo(j, "token")
    /\ UNCHANGED <<now, gitHubVars, cacheVars, worker, jobVars>>

\* A request with a token GitHub no longer accepts: 401,
\* GitHubUnauthorizedError, neither retried nor followed by invalidate.
Unauthorized(j) ==
    /\ pc[j] \in DataRequests
    /\ ~Valid(headers[j])
    /\ End(j, "unauthorized")
    /\ UNCHANGED <<now, gitHubVars, cacheVars, worker>>

\* The call fails without a 401: _call_reliably gives up (every attempt met a
\* transport error, a 5xx or a rate limit, or the circuit breaker is open, which
\* keeps even a cached answer from being used), or the installation is refused
\* or its token not granted (GitHubAuthError and its kin, not retried).
Unavailable(j) ==
    /\ pc[j] \in OnLoop
    /\ End(j, "failed")
    /\ UNCHANGED <<now, gitHubVars, cacheVars, worker>>

\* The request for the diff is answered with the diff of the present head:
\* head_sha is no part of the request.
FetchDiff(j) ==
    /\ pc[j] = "diff"
    /\ Valid(headers[j])
    /\ entry' = [entry EXCEPT ![j] = [diff |-> head, page |-> 1, files |-> <<>>]]
    /\ GoTo(j, "files")
    /\ UNCHANGED <<now, gitHubVars, cacheVars, worker, phase, sha, headers, looked, result>>

\* Page p of the changed files, as GitHub serves it now.
Page(p) ==
    LET all == FilesAt[head]
        last == IF p * PageSize < Len(all) THEN p * PageSize ELSE Len(all)
    IN  [i \in 1..(last - (p - 1) * PageSize) |->
            [file |-> all[(p - 1) * PageSize + i], version |-> head]]

\* Mutation of FetchPage: a full page is taken for the last one.
FetchPageOnce(j) ==
    LET files == entry[j].files \o Page(entry[j].page)
    IN  /\ pc[j] = "files"
        /\ Valid(headers[j])
        /\ diffs' = [diffs EXCEPT ![worker[j]][sha[j]] =
                        [diff |-> entry[j].diff, files |-> files, last |-> head]]
        /\ entry' = [entry EXCEPT ![j] = Nothing]
        /\ headers' = [headers EXCEPT ![j] = NoToken]
        /\ GoTo(j, "reviewing")
        /\ UNCHANGED <<now, gitHubVars, token, exchanges, resolved, worker, phase, sha,
                       looked, result>>

\* _get_changed_files: pages are asked for until one is short or empty; then
\* the diff and the files go into the cache under head_sha.  The heads they
\* were of, the first and the last, are noted for the properties.
FetchPage(j) ==
    LET files == entry[j].files \o Page(entry[j].page)
    IN  /\ pc[j] = "files"
        /\ Valid(headers[j])
        /\ \/ /\ Len(Page(entry[j].page)) = PageSize
              /\ entry' = [entry EXCEPT ![j].files = files, ![j].page = @ + 1]
              /\ GoTo(j, "files")
              /\ UNCHANGED <<diffs, headers>>
           \/ /\ Len(Page(entry[j].page)) < PageSize
              /\ diffs' = [diffs EXCEPT ![worker[j]][sha[j]] =
                              [diff |-> entry[j].diff, files |-> files, last |-> head]]
              /\ entry' = [entry EXCEPT ![j] = Nothing]
              /\ headers' = [headers EXCEPT ![j] = NoToken]
              /\ GoTo(j, "reviewing")
        /\ UNCHANGED <<now, gitHubVars, token, exchanges, resolved, worker, phase, sha,
                       looked, result>>

\* Mutation of BeginPost: posting does not wait for the event loop.
BeginPostAnytime(j) ==
    /\ pc[j] = "reviewing"
    /\ phase' = [phase EXCEPT ![j] = "post"]
    /\ GoTo(j, "authorize")
    /\ UNCHANGED <<now, gitHubVars, cacheVars, worker, sha, headers, entry, looked, result>>

\* The review, which ran beside other jobs, is done and post_review_comment is
\* called when the loop is free.
BeginPost(j) ==
    /\ pc[j] = "reviewing"
    /\ Loop(worker[j]) = {}
    /\ phase' = [phase EXCEPT ![j] = "post"]
    /\ GoTo(j, "authorize")
    /\ UNCHANGED <<now, gitHubVars, cacheVars, worker, sha, headers, entry, looked, result>>

\* _find_existing_review_id_marker sees the first page of reviews.
FirstPage == IF Len(reviews) < PageSize THEN 1..Len(reviews) ELSE 1..PageSize

\* Mutation of FindMarker: only the oldest review is looked at.
FindMarkerOldest(j) ==
    /\ pc[j] = "marker"
    /\ Valid(headers[j])
    /\ IF reviews # <<>> /\ reviews[1] = ReviewId(j)
       THEN End(j, "skipped")
       ELSE /\ GoTo(j, "post")
            /\ looked' = [looked EXCEPT ![j] = Len(reviews)]
            /\ UNCHANGED <<phase, sha, headers, entry, result>>
    /\ UNCHANGED <<now, gitHubVars, cacheVars, worker>>

FindMarker(j) ==
    /\ pc[j] = "marker"
    /\ Valid(headers[j])
    /\ IF \E i \in FirstPage : reviews[i] = ReviewId(j)
       THEN End(j, "skipped")
       ELSE /\ GoTo(j, "post")
            /\ looked' = [looked EXCEPT ![j] = Len(reviews)]
            /\ UNCHANGED <<phase, sha, headers, entry, result>>
    /\ UNCHANGED <<now, gitHubVars, cacheVars, worker>>

\* What j's review is made of: the findings that have an anchor are inline
\* comments, the others are written out in its body.
Index(j) ==
    LET files == diffs[worker[j]][sha[j]].files
    IN  DiffIndex([i \in DOMAIN files |-> files[i].file])

Comments(j) == LET index == Index(j) IN UNION {Anchor(index, x) : x \in Findings}
Degraded(j) == LET index == Index(j) IN {x \in Findings : Anchor(index, x) = {}}

\* The lines GitHub shows at the commit of j's review.  It accepts a review
\* when each of its comments lies on one, and refuses all of it with 422
\* otherwise.
ShownLines(j) ==
    UNION {{[path |-> f.name, line |-> at.line, side |-> at.side] : at \in Commentable(f.patch)} :
           f \in ToSet(FilesAt[sha[j]])}

Accepted(j) == Comments(j) \subseteq ShownLines(j)

PostReview(j) ==
    /\ pc[j] = "post"
    /\ Valid(headers[j])
    /\ \/ /\ Accepted(j)
          /\ reviews' = Append(reviews, ReviewId(j))
          /\ End(j, "posted")
       \/ /\ ~Accepted(j)
          /\ End(j, "rejected")
          /\ UNCHANGED reviews
    /\ UNCHANGED <<now, head, revocations, cacheVars, worker>>

-----------------------------------------------------------------------------
\* The author pushes to the pull request.
Push ==
    /\ head < Len(FilesAt)
    /\ head' = head + 1
    /\ UNCHANGED <<now, revocations, reviews, cacheVars, worker, jobVars, pc, left>>

\* The installation is suspended and restored: its tokens are revoked.
Revoke ==
    /\ revocations < MaxRevocations
    /\ revocations' = revocations + 1
    /\ UNCHANGED <<now, head, reviews, cacheVars, worker, jobVars, pc, left>>

\* Time passes; no call lasts longer than its unit.
Tick ==
    /\ now < MaxTime
    /\ \A w \in Workers : \A j \in Loop(w) : left[j] > 0
    /\ now' = now + 1
    /\ left' = [j \in Jobs |-> IF pc[j] \in OnLoop THEN left[j] - 1 ELSE left[j]]
    /\ UNCHANGED <<gitHubVars, cacheVars, worker, jobVars, pc>>

JobStep(j) ==
    \/ Authorize(j) \/ GetToken(j) \/ Unauthorized(j) \/ Unavailable(j)
    \/ FetchDiff(j) \/ FetchPage(j) \/ FindMarker(j) \/ PostReview(j)
    \/ BeginJob(j) \/ BeginPost(j)

Next == Push \/ Revoke \/ Tick \/ \E j \in Jobs : JobStep(j)

Spec == Init /\ [][Next]_vars

\* A worker's loop goes on with the call it is in, and takes up waiting jobs:
\* every wait in a call is bounded.  Nothing is asked of GitHub's users.
FairSpec == Spec /\ \A j \in Jobs : WF_vars(JobStep(j))

-----------------------------------------------------------------------------
Fields ==
    /\ now \in 0..MaxTime /\ head \in Heads /\ revocations \in 0..MaxRevocations
    /\ reviews \in Seq(0..Len(FilesAt))
    /\ token \in [Workers -> [exp : Nat, serial : Nat]]
    /\ exchanges \in [Workers -> Nat]
    /\ resolved \subseteq Workers
    /\ diffs \in [Workers -> [Heads -> Cached \cup {Nothing}]]
    /\ entry \in [Jobs -> Partial \cup {Nothing}]
    /\ worker \in [Jobs -> Workers]
    /\ pc \in [Jobs -> {"queued", "reviewing", "ended"} \cup OnLoop]
    /\ phase \in [Jobs -> {"fetch", "post"}]
    /\ sha \in [Jobs -> Heads]
    /\ left \in [Jobs -> {0, 1}]
    /\ headers \in [Jobs -> [exp : Nat, serial : Nat]]
    /\ looked \in [Jobs -> Nat]
    /\ result \in [Jobs -> Results]

\* Everything in its type, and one call at a time on a worker's event loop.
TypeOK == Fields /\ \A w \in Workers : Cardinality(Loop(w)) <= 1

\* github_auth.py:63-70: headers are made once for several requests, each of
\* them retried; the refresh margin keeps a token from expiring under them, so
\* a 401 always means that GitHub withdrew the token.
NeverExpired ==
    \A j \in Jobs :
        /\ pc[j] \in DataRequests => headers[j].exp > now
        /\ result[j] = "unauthorized" => revocations > headers[j].serial

\* github_auth.py:273-284: tokens are exchanged no more often than their
\* lifetime less the margin allows, whatever jobs ask for them.
ExchangesSpaced ==
    \A w \in Workers :
        exchanges[w] > 0 => (exchanges[w] - 1) * (Lifetime - Margin) <= now

\* The cached token is renewed early enough and no earlier: both of the above.
TokensSound == NeverExpired /\ ExchangesSpaced

\* github_client.py:516-539: what is cached under a head_sha is never torn or
\* short unless the pull request moved while it was being fetched: it is every
\* file of one head, once and in order.  (That all files are of one version is
\* not enough: a pull request that loses files in between leaves no mark on a
\* list that ends early.)
PagesComplete ==
    \A w \in Workers, h \in Heads :
        LET e == diffs[w][h]
        IN  e # Nothing /\ e.last = e.diff =>
                [i \in DOMAIN e.files |-> e.files[i].file] = FilesAt[e.diff]

\* github_client.py:603-611, diff_mapping.py: one bad line never takes the
\* review down.  GitHub refuses one only if the pull request had moved between
\* the event and the fetch.
RejectedOnlyIfMoved ==
    \A j \in Jobs : result[j] = "rejected" => head # sha[j]

\* diff_mapping.py:3-40: a finding is only moved to the body when no line
\* that GitHub shows has its number; said of what was fetched at the head the
\* review is about.
DegradedOnlyIfNotShown ==
    \A j \in Jobs : pc[j] = "post" /\ diffs[worker[j]][sha[j]] # Nothing =>
        LET cached == diffs[worker[j]][sha[j]]
        IN  cached.diff = sha[j] /\ cached.last = sha[j] =>
                Degraded(j) \cap {[path |-> at.path, line |-> at.line] : at \in ShownLines(j)} = {}

\* github_client.py:579-594: two reviews with one identifier appear only when
\* the second job looked before the first had posted, or when the first page
\* of reviews was already full of others.
DuplicatesExplained ==
    \A p, q \in DOMAIN reviews :
        (p < q /\ reviews[p] = reviews[q] /\ reviews[p] # 0) =>
            \/ p > PageSize
            \/ \E j \in Jobs : result[j] = "posted" /\ ReviewId(j) = reviews[p] /\ looked[j] < p
                 /\ \E k \in Jobs \ {j} : result[k] = "posted" /\ ReviewId(k) = reviews[p]
                                          /\ looked[k] < p

\* Every job ends, although each call holds its worker's event loop through
\* all of its retries.
JobsEnd == \A j \in Jobs : pc[j] = "queued" ~> pc[j] = "ended"
=============================================================================
