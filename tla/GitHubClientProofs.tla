------------------------- MODULE GitHubClientProofs -------------------------
(***************************************************************************)
(* Proofs about GitHubClient, for any jobs, workers, heads of the pull     *)
(* request, files, findings and lifetimes that ClientConfig admits.        *)
(*                                                                         *)
(* Typed carries the type invariant and the one call per event loop; the   *)
(* four invariants after it are about tokens (TokenInvs, AllSpaced), the   *)
(* reviews on the pull request (ReviewsInv), what is fetched (FetchInv)    *)
(* and what is posted (AllGrounded).  The last one needs to know what the  *)
(* diff mapping computes: ParseIsExact says it for every patch.            *)
(***************************************************************************)
EXTENDS GitHubClient, FiniteSetTheorems, WellFoundedInduction, TLAPS

Tokens == [exp : Nat, serial : Nat]
Places == {"queued", "reviewing", "ended"} \cup OnLoop

LEMMA Constants ==
  /\ Lifetime \in Nat /\ Margin \in Nat /\ MaxTime \in Nat /\ MaxRevocations \in Nat
  /\ PageSize \in Nat /\ PageSize > 0
  /\ 1 \in Heads /\ Heads \subseteq Nat /\ Len(FilesAt) \in Nat
  /\ \A h \in Heads : FilesAt[h] \in Seq(Files)
  /\ Nothing \notin Cached /\ Nothing \notin Partial
  <1>1. FilesAt \in Seq(Seq(Files)) /\ FilesAt # <<>>
    BY ClientConfig DEF ClientConfig
  <1>2. Len(FilesAt) \in Nat /\ Len(FilesAt) > 0
        /\ \A h \in 1..Len(FilesAt) : FilesAt[h] \in Seq(Files)
    BY <1>1
  <1>3. QED
    BY <1>2, ClientConfig DEF ClientConfig, Heads

\* A page of the files of the present head, which may lie behind its end: a
\* full one ends within the files, and a short one at their end.
LEMMA PageIs ==
  ASSUME Fields, NEW p \in Nat \ {0}
  PROVE  /\ Page(p) \in FileList
         /\ \A i \in DOMAIN Page(p) : Page(p)[i].file = FilesAt[head][(p - 1) * PageSize + i]
         /\ Len(Page(p)) <= PageSize
         /\ Len(Page(p)) = PageSize => p * PageSize <= Len(FilesAt[head])
         /\ (p - 1) * PageSize <= Len(FilesAt[head]) /\ Len(Page(p)) < PageSize
               => (p - 1) * PageSize + Len(Page(p)) = Len(FilesAt[head])
         /\ (p - 1) * PageSize \in Nat /\ p * PageSize = (p - 1) * PageSize + PageSize
  <1> DEFINE all == FilesAt[head]
             first == (p - 1) * PageSize
             after == p * PageSize
             last == IF after < Len(all) THEN after ELSE Len(all)
             n == IF last > first THEN last - first ELSE 0
  <1>1. head \in Heads /\ all \in Seq(Files) /\ Len(all) \in Nat
    BY Constants DEF Fields
  <1>2. first \in Nat /\ after \in Nat /\ after = first + PageSize /\ PageSize \in Nat
    <2>1. \A a, b \in Nat : a * b \in Nat
      OBVIOUS
    <2>2. p - 1 \in Nat /\ PageSize \in Nat
      BY Constants
    <2>3. QED
      BY <2>1, <2>2
  <1> HIDE DEF first, after
  <1>3. last \in Nat /\ n \in Nat /\ 1..(last - first) = 1..n
    BY <1>1, <1>2
  <1>4. Page(p) = [i \in 1..n |-> [file |-> all[first + i], version |-> head]]
    BY <1>3, Zenon DEF Page, first, after
  <1>5. \A i \in 1..n : first + i \in 1..Len(all)
    BY <1>1, <1>2, <1>3
  <1> HIDE DEF all, last
  <1>6. \A i \in 1..n : all[first + i] \in Files
    BY <1>1, <1>5
  <1>7. Page(p) \in FileList
    <2> DEFINE R == [file : Files, version : Heads]
    <2>1. \A i \in 1..n : [file |-> all[first + i], version |-> head] \in R
      BY <1>1, <1>6
    <2>2. Page(p) \in [1..n -> R]
      BY <1>4, <2>1
    <2> HIDE DEF n, R
    <2>3. Page(p) \in Seq(R)
      BY <1>3, <2>2
    <2>4. QED
      BY <2>3 DEF FileList, R
  <1>8. Len(Page(p)) = n /\ DOMAIN Page(p) = 1..n
    BY <1>3, <1>4
  <1>9. \A i \in DOMAIN Page(p) : Page(p)[i].file = all[first + i]
    BY <1>4, <1>8
  <1>10. /\ n <= PageSize
         /\ n = PageSize => after <= Len(all)
         /\ first <= Len(all) /\ n < PageSize => first + n = Len(all)
    BY <1>1, <1>2, <1>3, Constants DEF last
  <1>11. QED
    BY <1>2, <1>7, <1>8, <1>9, <1>10, Zenon DEF all, first, after

\* What the calls of a job have in common: where they go on to.
LEMMA GoToType ==
  ASSUME Fields, NEW j \in Jobs, NEW s \in Places, GoTo(j, s)
  PROVE  pc' \in [Jobs -> Places] /\ left' \in [Jobs -> {0, 1}]
  BY DEF Fields, GoTo, Places

LEMMA EndType ==
  ASSUME Fields, NEW j \in Jobs, NEW how \in Results, End(j, how)
  PROVE  /\ pc' \in [Jobs -> Places] /\ left' \in [Jobs -> {0, 1}]
         /\ result' \in [Jobs -> Results] /\ headers' \in [Jobs -> Tokens]
         /\ looked' \in [Jobs -> Nat] /\ entry' \in [Jobs -> Partial \cup {Nothing}]
         /\ phase' \in [Jobs -> {"fetch", "post"}] /\ sha' \in [Jobs -> Heads]
  <1>1. GoTo(j, "ended") /\ "ended" \in Places
    BY DEF End, Places
  <1>2. pc' \in [Jobs -> Places] /\ left' \in [Jobs -> {0, 1}]
    BY <1>1, GoToType
  <1>3. result' \in [Jobs -> Results] /\ entry' \in [Jobs -> Partial \cup {Nothing}]
        /\ phase' \in [Jobs -> {"fetch", "post"}]
    BY DEF End, Fields
  <1>4. headers' \in [Jobs -> Tokens] /\ looked' \in [Jobs -> Nat]
    BY DEF End, Fields, NoToken, Tokens
  <1>5. sha' \in [Jobs -> Heads]
    BY Constants DEF End, Fields
  <1>6. QED
    BY <1>2, <1>3, <1>4, <1>5

\* A step of j leaves the other jobs, the clock and the pull request's head
\* alone, and takes j onto its worker's loop only when nothing runs there.
Alone(j) ==
  /\ worker' = worker /\ now' = now /\ head' = head /\ revocations' = revocations
  /\ \A k \in Jobs \ {j} :
        /\ pc'[k] = pc[k] /\ phase'[k] = phase[k] /\ sha'[k] = sha[k] /\ left'[k] = left[k]
        /\ headers'[k] = headers[k] /\ entry'[k] = entry[k]
        /\ looked'[k] = looked[k] /\ result'[k] = result[k]
  /\ pc[j] \in OnLoop \/ Loop(worker[j]) = {}

LEMMA StepAlone ==
  ASSUME Fields, NEW j \in Jobs, JobStep(j)
  PROVE  Alone(j)
  <1> USE DEF gitHubVars, cacheVars, jobVars
  <1>1. \A k \in Jobs \ {j} : \A s : GoTo(j, s) => pc'[k] = pc[k] /\ left'[k] = left[k]
    BY DEF GoTo, Fields
  <1>2. \A k \in Jobs \ {j} : \A how : End(j, how) =>
           /\ pc'[k] = pc[k] /\ left'[k] = left[k] /\ phase'[k] = phase[k] /\ sha'[k] = sha[k]
           /\ headers'[k] = headers[k] /\ entry'[k] = entry[k]
           /\ looked'[k] = looked[k] /\ result'[k] = result[k]
    BY <1>1 DEF End, Fields
  <1>3. CASE BeginJob(j)
    BY <1>1, <1>3 DEF BeginJob, Alone, Fields
  <1>4. CASE Authorize(j)
    BY <1>1, <1>4 DEF Authorize, Alone, OnLoop, Fields
  <1>5. CASE GetToken(j)
    BY <1>1, <1>5 DEF GetToken, Proceed, Alone, OnLoop, Fields
  <1>6. CASE Unauthorized(j)
    BY <1>2, <1>6 DEF Unauthorized, Alone, OnLoop
  <1>7. CASE Unavailable(j)
    BY <1>2, <1>7 DEF Unavailable, Alone, OnLoop
  <1>8. CASE FetchDiff(j)
    BY <1>1, <1>8 DEF FetchDiff, Alone, OnLoop, DataRequests, Fields
  <1>9. CASE FetchPage(j)
    BY <1>1, <1>9 DEF FetchPage, Alone, OnLoop, DataRequests, Fields
  <1>10. CASE FindMarker(j)
    BY <1>1, <1>2, <1>10 DEF FindMarker, Alone, OnLoop, DataRequests, Fields
  <1>11. CASE PostReview(j)
    BY <1>1, <1>2, <1>11 DEF PostReview, Alone, OnLoop, DataRequests, Fields
  <1>12. CASE BeginPost(j)
    BY <1>1, <1>12 DEF BeginPost, Alone, Fields
  <1>13. QED
    BY <1>3, <1>4, <1>5, <1>6, <1>7, <1>8, <1>9, <1>10, <1>11, <1>12 DEF JobStep

-----------------------------------------------------------------------------
(* Everything in its type, and one call at a time.                          *)

\* While j asks for pages it keeps what it has got so far.
Fetching == \A j \in Jobs : pc[j] = "files" => entry[j] \in Partial

OneCall == \A w \in Workers : \A j, k \in Loop(w) : j = k

Typed == Fields /\ Fetching /\ OneCall

LEMMA FieldsAtStart == Init => Typed
  <1>1. SUFFICES ASSUME Init PROVE Typed
    OBVIOUS
  <1>2. PICK s \in Scenarios : worker = s.worker /\ reviews = [i \in 1..s.others |-> 0]
                               /\ revocations = s.revoked
    BY <1>1 DEF Init
  <1>3. s.worker \in [Jobs -> Workers] /\ s.others \in Nat /\ s.revoked \in 0..MaxRevocations
    BY ClientConfig DEF ClientConfig
  <1>4. reviews \in Seq(0..Len(FilesAt)) /\ worker \in [Jobs -> Workers]
        /\ revocations \in 0..MaxRevocations
    BY <1>2, <1>3, Constants
  <1>5. Fields
    BY <1>1, <1>4, Constants DEF Init, Fields, NoToken, Results
  <1>6. \A w \in Workers : Loop(w) = {}
    BY <1>1 DEF Init, Loop, OnLoop, DataRequests
  <1>7. QED
    BY <1>1, <1>5, <1>6 DEF Typed, Fetching, OneCall, Init

LEMMA FieldsOfJob ==
  ASSUME Fields, Fetching, NEW j \in Jobs, JobStep(j)
  PROVE  Fields' /\ (pc'[j] = "files" => entry'[j] \in Partial)
  <1> USE DEF gitHubVars, cacheVars, jobVars
  <1>1. ASSUME NEW s \in Places, GoTo(j, s)
        PROVE  pc' \in [Jobs -> Places] /\ left' \in [Jobs -> {0, 1}] /\ pc'[j] = s
    BY <1>1, GoToType DEF GoTo, Fields
  <1>2. worker[j] \in Workers /\ sha[j] \in Heads /\ head \in Heads
    BY DEF Fields
  <1>3. {"authorize", "token", "diff", "files", "marker", "post", "reviewing", "ended"}
          \subseteq Places
    BY DEF Places, OnLoop, DataRequests
  <1>4. CASE BeginJob(j)
    <2>1. PICK h \in 1..head :
             /\ sha' = [sha EXCEPT ![j] = h]
             /\ GoTo(j, IF diffs[worker[j]][h] = Nothing THEN "authorize" ELSE "reviewing")
      BY <1>4 DEF BeginJob
    <2>2. h \in Heads
      BY <1>2, <2>1, Constants DEF Heads
    <2>3. pc' \in [Jobs -> Places] /\ left' \in [Jobs -> {0, 1}] /\ pc'[j] # "files"
      BY <1>1, <1>3, <2>1
    <2>4. QED
      BY <1>4, <2>1, <2>2, <2>3 DEF BeginJob, Fields, Places
  <1>5. CASE Authorize(j)
    <2>1. pc' \in [Jobs -> Places] /\ left' \in [Jobs -> {0, 1}] /\ pc'[j] = "token"
      BY <1>1, <1>3, <1>5 DEF Authorize
    <2>2. QED
      BY <1>2, <1>5, <2>1 DEF Authorize, Discover, Fields, Places
  <1>6. CASE GetToken(j)
    <2>1. NextRequest(j) \in Places /\ NextRequest(j) # "files"
      BY <1>3 DEF NextRequest
    <2>2. NewToken \in Tokens /\ token[worker[j]] \in Tokens
      BY <1>2, Constants DEF NewToken, Tokens, Fields
    <2>3. PICK t \in Tokens :
             /\ Proceed(j, t)
             /\ \/ UNCHANGED <<token, exchanges>>
                \/ /\ token' = [token EXCEPT ![worker[j]] = NewToken]
                   /\ exchanges' = [exchanges EXCEPT ![worker[j]] = @ + 1]
      BY <1>6, <2>2 DEF GetToken
    <2>4. pc' \in [Jobs -> Places] /\ left' \in [Jobs -> {0, 1}] /\ pc'[j] # "files"
      BY <1>1, <2>1, <2>3 DEF Proceed
    <2>5. headers' \in [Jobs -> Tokens]
      BY <2>3 DEF Proceed, Fields, Tokens
    <2>6. token' \in [Workers -> Tokens] /\ exchanges' \in [Workers -> Nat]
      <3>1. token \in [Workers -> Tokens] /\ exchanges \in [Workers -> Nat]
        BY DEF Fields, Tokens
      <3>2. exchanges[worker[j]] + 1 \in Nat
        BY <1>2, <3>1
      <3>3. QED
        BY <1>2, <2>2, <2>3, <3>1, <3>2
    <2>7. QED
      BY <2>3, <2>4, <2>5, <2>6 DEF Proceed, Fields, Places, Tokens
  <1>7. ASSUME NEW how \in Results, End(j, how),
               UNCHANGED <<now, head, revocations, cacheVars, worker>>,
               reviews' \in Seq(0..Len(FilesAt))
        PROVE  Fields' /\ pc'[j] # "files"
    <2>1. pc'[j] = "ended"
      BY <1>1, <1>3, <1>7 DEF End
    <2>2. QED
      BY <1>7, <2>1, EndType DEF Fields, Places, Tokens
  <1>8. CASE Unauthorized(j)
    BY <1>7, <1>8 DEF Unauthorized, Fields, Results
  <1>9. CASE Unavailable(j)
    BY <1>7, <1>9 DEF Unavailable, Fields, Results
  <1>10. CASE FetchDiff(j)
    <2>1. [diff |-> head, page |-> 1, files |-> <<>>] \in Partial
      BY <1>2 DEF Partial, FileList
    <2>2. pc' \in [Jobs -> Places] /\ left' \in [Jobs -> {0, 1}]
          /\ entry' \in [Jobs -> Partial \cup {Nothing}] /\ entry'[j] \in Partial
      BY <1>1, <1>3, <1>10, <2>1 DEF FetchDiff, Fields
    <2>3. QED
      BY <1>10, <2>2 DEF FetchDiff, Fields, Places
  <1>11. CASE FetchPage(j)
    <2> DEFINE page == Page(entry[j].page)
               files == entry[j].files \o page
    <2>1. entry[j] \in Partial
      BY <1>11 DEF FetchPage, Fetching
    <2>2. entry[j].page \in Nat \ {0} /\ entry[j].page + 1 \in Nat \ {0}
          /\ entry[j].diff \in Heads /\ entry[j].files \in FileList
      BY <2>1 DEF Partial
    <2>3. files \in FileList
      <3> DEFINE R == [file : Files, version : Heads]
      <3>1. page \in Seq(R) /\ entry[j].files \in Seq(R)
        BY <2>2, PageIs DEF FileList
      <3> HIDE DEF R, page
      <3>2. files \in Seq(R)
        BY <3>1
      <3>3. QED
        BY <3>2 DEF FileList, R
    <2>4. pc' \in [Jobs -> Places] /\ left' \in [Jobs -> {0, 1}]
      BY <1>1, <1>3, <1>11 DEF FetchPage
    <2> HIDE DEF page, files
    <2>5. CASE /\ entry' = [entry EXCEPT ![j].files = files, ![j].page = @ + 1]
               /\ UNCHANGED <<diffs, headers>>
      <3>1. [entry[j] EXCEPT !.files = files, !.page = @ + 1] \in Partial
        BY <2>1, <2>2, <2>3 DEF Partial
      <3>2. entry' = [entry EXCEPT ![j] = [entry[j] EXCEPT !.files = files, !.page = @ + 1]]
        BY <2>5 DEF Fields
      <3>3. entry' \in [Jobs -> Partial \cup {Nothing}] /\ entry'[j] \in Partial
        BY <3>1, <3>2 DEF Fields
      <3>4. QED
        BY <1>11, <2>4, <2>5, <3>3 DEF FetchPage, Fields, Places
    <2>6. CASE /\ diffs' = [diffs EXCEPT ![worker[j]][sha[j]] =
                              [diff |-> entry[j].diff, files |-> files, last |-> head]]
               /\ entry' = [entry EXCEPT ![j] = Nothing]
               /\ headers' = [headers EXCEPT ![j] = NoToken]
               /\ GoTo(j, "reviewing")
      <3>1. [diff |-> entry[j].diff, files |-> files, last |-> head] \in Cached
        BY <1>2, <2>2, <2>3 DEF Cached
      <3>2. diffs' \in [Workers -> [Heads -> Cached \cup {Nothing}]]
        BY <1>2, <2>6, <3>1 DEF Fields
      <3>3. pc'[j] = "reviewing"
        BY <1>1, <1>3, <2>6
      <3>4. QED
        BY <1>11, <2>4, <2>6, <3>2, <3>3 DEF FetchPage, Fields, Places, NoToken
    <2>7. QED
      BY <1>11, <2>5, <2>6 DEF FetchPage, page, files
  <1>12. CASE FindMarker(j)
    <2>1. CASE End(j, "skipped")
      BY <1>7, <1>12, <2>1 DEF FindMarker, Fields, Results
    <2>2. CASE /\ GoTo(j, "post")
               /\ looked' = [looked EXCEPT ![j] = Len(reviews)]
               /\ UNCHANGED <<phase, sha, headers, entry, result>>
      <3>1. pc' \in [Jobs -> Places] /\ left' \in [Jobs -> {0, 1}] /\ pc'[j] = "post"
        BY <1>1, <1>3, <2>2
      <3>2. looked' \in [Jobs -> Nat]
        BY <2>2 DEF Fields
      <3>3. QED
        BY <1>12, <2>2, <3>1, <3>2 DEF FindMarker, Fields, Places
    <2>3. QED
      BY <1>12, <2>1, <2>2 DEF FindMarker
  <1>13. CASE PostReview(j)
    <2>1. ReviewId(j) \in 0..Len(FilesAt)
      BY <1>2, Constants DEF ReviewId, Heads
    <2>2. reviews' \in Seq(0..Len(FilesAt))
      <3>1. reviews' = Append(reviews, ReviewId(j)) \/ reviews' = reviews
        BY <1>13 DEF PostReview
      <3>2. reviews \in Seq(0..Len(FilesAt))
        BY DEF Fields
      <3> DEFINE Ids == 0..Len(FilesAt)
      <3> HIDE DEF Ids
      <3>3. reviews \in Seq(Ids) /\ ReviewId(j) \in Ids
        BY <2>1, <3>2 DEF Ids
      <3>4. reviews' \in Seq(Ids)
        BY <3>1, <3>3
      <3>5. QED
        BY <3>4 DEF Ids
    <2>3. QED
      BY <1>7, <1>13, <2>2 DEF PostReview, Results
  <1>14. CASE BeginPost(j)
    <2>1. pc' \in [Jobs -> Places] /\ left' \in [Jobs -> {0, 1}] /\ pc'[j] = "authorize"
      BY <1>1, <1>3, <1>14 DEF BeginPost
    <2>2. QED
      BY <1>14, <2>1 DEF BeginPost, Fields, Places
  <1>15. QED
    BY <1>4, <1>5, <1>6, <1>8, <1>9, <1>10, <1>11, <1>12, <1>13, <1>14 DEF JobStep

LEMMA OneCallOfJob ==
  ASSUME Fields, OneCall, NEW j \in Jobs, Alone(j)
  PROVE  OneCall'
  <1>1. SUFFICES ASSUME NEW w \in Workers, NEW k \in Loop(w)', NEW i \in Loop(w)'
                 PROVE  k = i
    BY DEF OneCall
  <1>2. \A l \in Loop(w)' : l # j => l \in Loop(w)
    BY DEF Alone, Loop
  <1>3. ASSUME NEW l \in Loop(w)', l # j, j \in Loop(w)' PROVE FALSE
    <2>1. worker[j] = w /\ l \in Loop(w)
      BY <1>2, <1>3 DEF Loop, Alone
    <2>2. j \in Loop(w)
      BY <2>1 DEF Alone, Loop
    <2>3. QED
      BY <1>3, <2>1, <2>2 DEF OneCall
  <1>4. CASE k = j \/ i = j
    BY <1>3, <1>4
  <1>5. CASE k # j /\ i # j
    BY <1>2, <1>5 DEF OneCall
  <1>6. QED
    BY <1>4, <1>5

LEMMA TypedStep == Typed /\ [Next]_vars => Typed'
  <1>1. SUFFICES ASSUME Typed, [Next]_vars PROVE Typed'
    OBVIOUS
  <1> USE DEF vars, gitHubVars, cacheVars, jobVars
  <1>2. Fields /\ Fetching /\ OneCall
    BY <1>1 DEF Typed
  <1>3. ASSUME UNCHANGED <<worker, pc, entry>> PROVE Fetching' /\ OneCall'
    <2>1. \A w \in Workers : Loop(w)' = Loop(w)
      BY <1>3 DEF Loop
    <2>2. QED
      BY <1>2, <1>3, <2>1 DEF Fetching, OneCall
  <1>4. CASE Push
    <2>1. head' \in Heads
      BY <1>2, <1>4 DEF Push, Fields, Heads
    <2>2. QED
      BY <1>2, <1>3, <1>4, <2>1 DEF Push, Fields, Typed
  <1>5. CASE Revoke
    <2>1. revocations' \in 0..MaxRevocations
      BY <1>2, <1>5, Constants DEF Revoke, Fields
    <2>2. QED
      BY <1>2, <1>3, <1>5, <2>1 DEF Revoke, Fields, Typed
  <1>6. CASE Tick
    <2>1. now' \in 0..MaxTime
      BY <1>2, <1>6, Constants DEF Tick, Fields
    <2>2. ASSUME NEW j \in Jobs PROVE left'[j] \in {0, 1}
      <3>1. pc[j] \in OnLoop => left[j] > 0
        BY <1>2, <1>6 DEF Tick, Loop, Fields
      <3>2. QED
        BY <1>2, <1>6, <3>1 DEF Tick, Fields
    <2>3. left' \in [Jobs -> {0, 1}]
      BY <1>6, <2>2 DEF Tick
    <2>4. QED
      BY <1>2, <1>3, <1>6, <2>1, <2>3 DEF Tick, Fields, Typed
  <1>7. ASSUME NEW j \in Jobs, JobStep(j) PROVE Typed'
    <2>1. Alone(j) /\ Fields' /\ (pc'[j] = "files" => entry'[j] \in Partial)
      BY <1>2, <1>7, StepAlone, FieldsOfJob
    <2>2. Fetching'
      BY <1>2, <2>1 DEF Fetching, Alone
    <2>3. OneCall'
      BY <1>2, <2>1, OneCallOfJob
    <2>4. QED
      BY <2>1, <2>2, <2>3 DEF Typed
  <1>8. CASE UNCHANGED vars
    BY <1>2, <1>3, <1>8 DEF Fields, Typed
  <1>9. QED
    BY <1>1, <1>4, <1>5, <1>6, <1>7, <1>8 DEF Next

LEMMA TypedAlways == Spec => []Typed
  BY FieldsAtStart, TypedStep, PTL DEF Spec

\* The whole of TypeOK: every variable in its type, and at most one job of a
\* worker in a call (github_client.py:303-539, all of it synchronous): no two
\* jobs of one process ever use its token and diff caches at the same time.
THEOREM ClientTypeCorrect == Spec => []TypeOK
  <1>1. Typed => TypeOK
    <2>1. SUFFICES ASSUME Typed, NEW w \in Workers PROVE Cardinality(Loop(w)) <= 1
      BY DEF Typed, TypeOK
    <2>2. CASE Loop(w) = {}
      BY <2>2, FS_EmptySet
    <2>3. CASE \E j \in Jobs : Loop(w) = {j}
      BY <2>3, FS_Singleton
    <2>4. Loop(w) \subseteq Jobs /\ \A j, k \in Loop(w) : j = k
      BY <2>1 DEF Loop, Typed, OneCall
    <2>5. QED
      BY <2>2, <2>3, <2>4
  <1>2. QED
    BY <1>1, TypedAlways, PTL

-----------------------------------------------------------------------------
(* Tokens.                                                                  *)

\* The time j's requests may still take before its last one: one unit for
\* each call that is yet to come, as many pages as the margin allows for, and
\* what is left of the call it is in.
Reach(j) ==
  CASE pc[j] = "diff"   -> left[j] + Margin - 1
    [] pc[j] = "files"  -> left[j] + Margin - 1 - entry[j].page
    [] pc[j] = "marker" -> left[j] + 1
    [] pc[j] = "post"   -> left[j]
    [] OTHER            -> 0

TokenInv(j) ==
  /\ headers[j].serial <= revocations
  /\ result[j] # "none" => pc[j] = "ended"
  /\ result[j] = "unauthorized" => revocations > headers[j].serial
  /\ pc[j] = "files" => entry[j].page <= Margin - 1
  /\ pc[j] \in DataRequests => headers[j].exp - now > Reach(j)

TokenInvs ==
  /\ \A w \in Workers : token[w].serial <= revocations
  /\ \A j \in Jobs : TokenInv(j)

\* The pages behind the end of the longest head are never asked for.
LEMMA Div ==
  ASSUME NEW a \in Nat, NEW d \in Nat, d > 0, NEW p \in Nat, p * d <= a
  PROVE  p <= a \div d /\ a \div d \in Nat
  <1> DEFINE q == a \div d
  <1>1. a = d * q + (a % d) /\ a % d \in 0..(d - 1) /\ q \in Nat
    OBVIOUS
  <1> HIDE DEF q
  <1>2. ASSUME p >= q + 1 PROVE FALSE
    <2>1. p * d = (q + 1) * d + (p - (q + 1)) * d /\ (p - (q + 1)) * d \in Nat
      BY <1>1, <1>2
    <2>2. (q + 1) * d = d * q + d
      BY <1>1
    <2>3. QED
      BY <1>1, <2>1, <2>2
  <1>3. p <= q
    BY <1>1, <1>2
  <1>4. QED
    BY <1>1, <1>3 DEF q

LEMMA PagesFitMargin ==
  ASSUME Fields, NEW p \in Nat \ {0}, Len(Page(p)) = PageSize
  PROVE  p + 1 <= Margin - 1
  <1>1. head \in Heads /\ p * PageSize <= Len(FilesAt[head])
    BY PageIs DEF Fields
  <1>2. Len(FilesAt[head]) \in Nat
    BY <1>1, Constants
  <1> DEFINE q == Len(FilesAt[head]) \div PageSize
  <1>3. p <= q /\ q \in Nat
    BY <1>1, <1>2, Div, Constants
  <1>4. 2 + q <= Margin
    BY <1>1, ClientConfig DEF ClientConfig
  <1> HIDE DEF q
  <1>5. QED
    BY <1>3, <1>4, Constants

LEMMA MarginHolds == Margin >= 2 /\ Lifetime > Margin
  <1> DEFINE q == Len(FilesAt[1]) \div PageSize
  <1>1. Len(FilesAt[1]) \in Nat /\ 0 * PageSize <= Len(FilesAt[1])
    BY Constants
  <1>2. q \in Nat
    BY <1>1, Div, Constants
  <1>3. 2 + q <= Margin /\ Margin < Lifetime
    BY Constants, ClientConfig DEF ClientConfig
  <1> HIDE DEF q
  <1>4. QED
    BY <1>2, <1>3, Constants

\* The call of j ends: only a 401 has to be accounted for.
LEMMA TokenInvAtEnd ==
  ASSUME Fields, NEW j \in Jobs, TokenInv(j), NEW how \in Results, End(j, how),
         revocations' = revocations,
         how = "unauthorized" => revocations > headers[j].serial
  PROVE  TokenInv(j)'
  <1>1. pc'[j] = "ended" /\ result'[j] = how
        /\ headers'[j] = IF how = "unauthorized" THEN headers[j] ELSE NoToken
    BY DEF Fields, End, GoTo
  <1>2. revocations \in Nat
    BY Constants DEF Fields
  <1>3. QED
    BY <1>1, <1>2 DEF TokenInv, NoToken, DataRequests, Fields

LEMMA TokenInvOfJob ==
  ASSUME Typed, NEW j \in Jobs, TokenInv(j), JobStep(j),
         \A w \in Workers : token[w].serial <= revocations
  PROVE  TokenInv(j)' /\ \A w \in Workers : token'[w].serial <= revocations'
  <1> USE DEF cacheVars, gitHubVars, jobVars
  <1>1. Fields /\ Fields' /\ Alone(j) /\ Fetching
    BY StepAlone, FieldsOfJob DEF Typed
  <1>2. /\ now \in Nat /\ revocations \in Nat /\ headers[j] \in Tokens /\ left[j] \in {0, 1}
        /\ worker[j] \in Workers /\ token[worker[j]] \in Tokens
        /\ Margin \in Nat /\ Lifetime \in Nat /\ Margin >= 2 /\ Lifetime > Margin
        /\ now' = now /\ revocations' = revocations
    BY <1>1, Constants, MarginHolds DEF Fields, Tokens, Alone
  <1>3. \A s : GoTo(j, s) => pc'[j] = s /\ left'[j] = 1
    BY <1>1 DEF GoTo, Fields
  <1>4. ASSUME token' = token
        PROVE  \A w \in Workers : token'[w].serial <= revocations'
    BY <1>2, <1>4
  <1>5. ASSUME UNCHANGED <<headers, result>>, result[j] = "none", pc'[j] \notin DataRequests
        PROVE  TokenInv(j)'
    BY <1>2, <1>5 DEF TokenInv, DataRequests
  <1>6. CASE BeginJob(j) \/ BeginPost(j) \/ Authorize(j)
    <2>1. result[j] = "none"
      BY <1>6 DEF TokenInv, BeginJob, BeginPost, Authorize
    <2>2. pc'[j] \notin DataRequests
      BY <1>3, <1>6 DEF BeginJob, BeginPost, Authorize, DataRequests
    <2>3. QED
      BY <1>4, <1>5, <1>6, <2>1, <2>2 DEF BeginJob, BeginPost, Authorize
  <1>7. CASE GetToken(j)
    <2>1. PICK t \in Tokens :
             /\ Proceed(j, t) /\ t.exp - now > Margin /\ t.serial <= revocations
             /\ token' = token \/ token' = [token EXCEPT ![worker[j]] = t]
      <3>1. NewToken \in Tokens /\ NewToken.exp - now > Margin /\ NewToken.serial <= revocations
        BY <1>2 DEF NewToken, Tokens
      <3>2. CASE Fresh(token[worker[j]]) /\ Proceed(j, token[worker[j]]) /\ token' = token
        BY <1>2, <3>2 DEF Fresh
      <3>3. CASE Proceed(j, NewToken) /\ token' = [token EXCEPT ![worker[j]] = NewToken]
        BY <3>1, <3>3
      <3>4. QED
        BY <1>7, <3>2, <3>3 DEF GetToken
    <2>2. headers'[j] = t /\ result'[j] = "none" /\ left'[j] = 1 /\ pc'[j] \in {"diff", "marker"}
      BY <1>1, <1>3, <1>7, <2>1 DEF Proceed, NextRequest, GetToken, TokenInv, Fields
    <2>3. Reach(j)' <= Margin
      BY <1>2, <2>2 DEF Reach
    <2>4. Reach(j)' \in Int /\ t.exp \in Nat /\ t.serial \in Nat
      BY <1>2, <2>1, <2>2 DEF Reach, Tokens
    <2>5. TokenInv(j)'
      BY <1>2, <2>1, <2>2, <2>3, <2>4 DEF TokenInv
    <2>6. \A w \in Workers : token'[w].serial <= revocations'
      BY <1>1, <1>2, <2>1 DEF Fields
    <2>7. QED
      BY <2>5, <2>6
  <1>8. CASE Unauthorized(j)
    <2>1. /\ pc[j] \in DataRequests => headers[j].exp - now > Reach(j)
          /\ pc[j] = "files" => entry[j].page <= Margin - 1
          /\ headers[j].serial <= revocations
      BY DEF TokenInv
    <2>2. pc[j] \in DataRequests => Reach(j) >= 0
      <3>1. pc[j] = "files" => entry[j].page \in Nat
        BY <1>1 DEF Fetching, Partial
      <3>2. QED
        BY <1>2, <2>1, <3>1 DEF Reach, DataRequests
    <2>3. pc[j] \in DataRequests => Reach(j) \in Int
      <3>1. pc[j] = "files" => entry[j].page \in Nat
        BY <1>1 DEF Fetching, Partial
      <3>2. QED
        BY <1>2, <3>1 DEF Reach, DataRequests
    <2>4. headers[j].exp > now
      BY <1>2, <1>8, <2>1, <2>2, <2>3 DEF Unauthorized, Tokens
    <2>5. revocations > headers[j].serial
      BY <1>2, <1>8, <2>1, <2>4 DEF Unauthorized, Valid, Tokens
    <2>6. QED
      BY <1>1, <1>2, <1>4, <1>8, <2>5, TokenInvAtEnd DEF Unauthorized, Results
  <1>9. CASE Unavailable(j)
    BY <1>1, <1>2, <1>4, <1>9, TokenInvAtEnd DEF Unavailable, Results
  <1>10. CASE PostReview(j)
    BY <1>1, <1>2, <1>4, <1>10, TokenInvAtEnd DEF PostReview, Results
  <1>11. CASE FetchDiff(j)
    <2>1. /\ headers[j].exp - now > left[j] + Margin - 1 /\ result[j] = "none"
      BY <1>11 DEF FetchDiff, TokenInv, Reach, DataRequests
    <2>2. pc'[j] = "files" /\ left'[j] = 1 /\ entry'[j].page = 1
          /\ UNCHANGED <<headers, result, token>>
      BY <1>1, <1>3, <1>11 DEF FetchDiff, Fields
    <2>3. Reach(j)' = 1 + Margin - 1 - 1
      BY <2>2 DEF Reach
    <2>4. QED
      BY <1>2, <1>4, <2>1, <2>2, <2>3 DEF TokenInv, Tokens
  <1>12. CASE FetchPage(j)
    <2>1. /\ headers[j].exp - now > left[j] + Margin - 1 - entry[j].page
          /\ result[j] = "none" /\ headers[j].serial <= revocations
          /\ entry[j].page \in Nat \ {0}
      BY <1>1, <1>12 DEF FetchPage, TokenInv, Reach, DataRequests, Fetching, Partial
    <2>2. UNCHANGED <<result, token>>
      BY <1>12 DEF FetchPage
    <2>3. CASE /\ Len(Page(entry[j].page)) = PageSize
               /\ entry' = [entry EXCEPT ![j].files = entry[j].files \o Page(entry[j].page),
                                         ![j].page = @ + 1]
               /\ GoTo(j, "files")
               /\ UNCHANGED <<diffs, headers>>
      <3>1. entry[j].page + 1 <= Margin - 1
        BY <1>1, <2>1, <2>3, PagesFitMargin
      <3>2. pc'[j] = "files" /\ left'[j] = 1
        BY <1>3, <2>3
      <3>3. entry'[j].page = entry[j].page + 1
        BY <1>1, <1>12, <2>3 DEF Fields, Fetching, FetchPage, Partial
      <3>4. Reach(j)' = 1 + Margin - 1 - (entry[j].page + 1)
        BY <3>2, <3>3 DEF Reach
      <3>5. headers'[j] = headers[j] /\ result'[j] = "none" /\ headers[j].exp \in Nat
        BY <1>2, <2>1, <2>2, <2>3 DEF Tokens
      <3>6. headers[j].exp - now > Reach(j)'
        BY <1>2, <2>1, <3>4, <3>5
      <3>7. TokenInv(j)'
        BY <1>2, <2>1, <3>1, <3>2, <3>3, <3>5, <3>6, Zenon DEF TokenInv
      <3>8. QED
        BY <1>4, <2>2, <3>7
    <2>4. CASE /\ headers' = [headers EXCEPT ![j] = NoToken]
               /\ GoTo(j, "reviewing")
      <3>1. pc'[j] = "reviewing" /\ headers'[j] = NoToken
        BY <1>1, <1>3, <2>4 DEF Fields
      <3>2. QED
        BY <1>2, <1>4, <2>1, <2>2, <3>1 DEF TokenInv, NoToken, DataRequests
    <2>5. QED
      BY <1>12, <2>3, <2>4 DEF FetchPage
  <1>13. CASE FindMarker(j)
    <2>1. CASE End(j, "skipped")
      BY <1>1, <1>2, <1>4, <1>13, <2>1, TokenInvAtEnd DEF FindMarker, Results
    <2>2. CASE GoTo(j, "post") /\ UNCHANGED <<headers, result>>
      <3>1. headers[j].exp - now > left[j] + 1 /\ result[j] = "none"
        BY <1>13 DEF FindMarker, TokenInv, Reach, DataRequests
      <3>2. pc'[j] = "post" /\ left'[j] = 1
        BY <1>3, <2>2
      <3>3. QED
        BY <1>2, <1>4, <1>13, <2>2, <3>1, <3>2 DEF FindMarker, TokenInv, Reach, Tokens
    <2>3. QED
      BY <1>13, <2>1, <2>2 DEF FindMarker
  <1>14. QED
    BY <1>6, <1>7, <1>8, <1>9, <1>10, <1>11, <1>12, <1>13 DEF JobStep

LEMMA TokenInvOfOthers ==
  ASSUME Typed, NEW k \in Jobs, TokenInv(k), revocations' \in Nat, revocations' >= revocations,
         now' = now, UNCHANGED <<pc[k], left[k], headers[k], entry[k], result[k]>>
  PROVE  TokenInv(k)'
  <1>1. headers[k].serial \in Nat /\ revocations \in Nat /\ Reach(k)' = Reach(k)
    BY Constants DEF Typed, Fields, Reach
  <1>2. QED
    BY <1>1 DEF TokenInv

LEMMA TokenStep == Typed /\ TokenInvs /\ [Next]_vars => TokenInvs'
  <1>1. SUFFICES ASSUME Typed, TokenInvs, [Next]_vars PROVE TokenInvs'
    OBVIOUS
  <1> USE DEF vars, gitHubVars, cacheVars, jobVars
  <1>2. /\ revocations \in Nat /\ now \in Nat /\ \A w \in Workers : token[w].serial \in Nat
        /\ Fields
    BY <1>1, Constants DEF Typed, Fields
  <1>3. ASSUME UNCHANGED <<now, token, pc, left, headers, entry, result>>,
               revocations' \in {revocations, revocations + 1}
        PROVE  TokenInvs'
    <2>1. revocations' \in Nat /\ revocations' >= revocations
      BY <1>2, <1>3
    <2>2. \A k \in Jobs : TokenInv(k)'
      BY <1>1, <1>3, <2>1, TokenInvOfOthers DEF TokenInvs
    <2>3. QED
      BY <1>1, <1>2, <1>3, <2>1, <2>2 DEF TokenInvs
  <1>4. CASE Push \/ Revoke \/ UNCHANGED vars
    BY <1>3, <1>4 DEF Push, Revoke
  <1>5. CASE Tick
    <2>1. ASSUME NEW k \in Jobs PROVE TokenInv(k)'
      <3>1. TokenInv(k)
        BY <1>1 DEF TokenInvs
      <3>2. UNCHANGED <<revocations, pc, headers, entry, result>> /\ now' = now + 1
        BY <1>5 DEF Tick
      <3>3. /\ headers[k].exp \in Nat /\ left[k] \in {0, 1} /\ Margin \in Nat
            /\ pc[k] = "files" => entry[k].page \in Nat
        BY <1>1, Constants DEF Typed, Fields, Fetching, Partial
      <3>4. pc[k] \in DataRequests => left'[k] = left[k] - 1
        BY <1>5 DEF Tick, OnLoop
      <3>5. pc[k] \in DataRequests => headers[k].exp - (now + 1) > Reach(k)'
        BY <1>2, <3>1, <3>2, <3>3, <3>4 DEF TokenInv, Reach, DataRequests
      <3>6. QED
        BY <3>1, <3>2, <3>5 DEF TokenInv
    <2>2. QED
      BY <1>1, <1>5, <2>1 DEF TokenInvs, Tick
  <1>6. ASSUME NEW j \in Jobs, JobStep(j) PROVE TokenInvs'
    <2>1. Alone(j)
      BY <1>2, <1>6, StepAlone
    <2>2. TokenInv(j)' /\ \A w \in Workers : token'[w].serial <= revocations'
      BY <1>1, <1>6, TokenInvOfJob DEF TokenInvs
    <2>3. ASSUME NEW k \in Jobs \ {j} PROVE TokenInv(k)'
      <3>1. revocations' \in Nat /\ revocations' >= revocations
        BY <1>2, <2>1 DEF Alone
      <3>2. now' = now /\ UNCHANGED <<pc[k], left[k], headers[k], entry[k], result[k]>>
        BY <2>1 DEF Alone
      <3>3. TokenInv(k)
        BY <1>1 DEF TokenInvs
      <3>4. QED
        BY <1>1, <3>1, <3>2, <3>3, TokenInvOfOthers
    <2>4. QED
      BY <2>2, <2>3 DEF TokenInvs
  <1>7. QED
    BY <1>1, <1>4, <1>5, <1>6 DEF Next

\* A worker's latest token was exchanged no later than now, and the exchanges
\* before it took their time.
Spaced(w) ==
  exchanges[w] > 0 => /\ (exchanges[w] - 1) * (Lifetime - Margin) <= token[w].exp - Lifetime
                      /\ token[w].exp - Lifetime <= now

AllSpaced == \A w \in Workers : Spaced(w)

LEMMA SpacedStep == Typed /\ AllSpaced /\ [Next]_vars => AllSpaced'
  <1>1. SUFFICES ASSUME Typed, NEW w \in Workers, Spaced(w), [Next]_vars PROVE Spaced(w)'
    BY DEF AllSpaced
  <1> USE DEF vars, gitHubVars, cacheVars, jobVars
  <1>2. /\ now \in Nat /\ exchanges[w] \in Nat /\ token[w] \in Tokens
        /\ exchanges \in [Workers -> Nat] /\ token \in [Workers -> Tokens]
        /\ Lifetime \in Nat /\ Margin \in Nat /\ Lifetime - Margin \in Nat
    BY <1>1, Constants, MarginHolds DEF Typed, Fields, Tokens
  <1>3. ASSUME UNCHANGED <<exchanges[w], token[w]>>, now' \in {now, now + 1}
        PROVE  Spaced(w)'
    BY <1>1, <1>2, <1>3 DEF Spaced, Tokens
  <1>4. CASE Push \/ Revoke \/ Tick \/ UNCHANGED vars
    BY <1>3, <1>4 DEF Push, Revoke, Tick
  <1>5. ASSUME NEW j \in Jobs, JobStep(j) PROVE Spaced(w)'
    <2>1. now' = now
      BY <1>1, <1>5, StepAlone DEF Alone, Typed
    <2>2. CASE UNCHANGED <<exchanges, token>>
      BY <1>3, <2>1, <2>2
    <2>3. CASE GetToken(j) /\ ~Fresh(token[w]) /\ worker[j] = w
      <3>1. CASE UNCHANGED <<exchanges, token>>
        BY <2>2, <3>1
      <3>2. CASE token' = [token EXCEPT ![w] = NewToken]
                   /\ exchanges' = [exchanges EXCEPT ![w] = @ + 1]
        <4>1. token'[w].exp = now + Lifetime /\ exchanges'[w] = exchanges[w] + 1
          BY <1>2, <3>2 DEF NewToken
        <4>2. token[w].exp \in Nat /\ token[w].exp - now <= Margin
          BY <1>2, <2>3 DEF Fresh, Tokens
        <4>3. exchanges[w] * (Lifetime - Margin) <= now
          <5> DEFINE n == exchanges[w]
                     d == Lifetime - Margin
          <5>1. n = 0 => n * d = 0
            BY <1>2
          <5>2. ASSUME n > 0 PROVE n * d <= now
            <6>1. n * d = (n - 1) * d + d /\ (n - 1) * d \in Int /\ n * d \in Int
              BY <1>2
            <6>2. (n - 1) * d <= token[w].exp - Lifetime
              BY <1>1, <5>2 DEF Spaced
            <6> HIDE DEF n
            <6>3. QED
              BY <1>2, <4>2, <6>1, <6>2
          <5>3. n * d <= now
            <6> HIDE DEF d
            <6>1. n \in Nat
              BY <1>2
            <6> HIDE DEF n
            <6>2. QED
              BY <1>2, <5>1, <5>2, <6>1
          <5>4. QED
            BY <5>3
        <4>4. QED
          BY <1>2, <2>1, <4>1, <4>3 DEF Spaced
      <3>3. QED
        BY <2>3, <3>1, <3>2 DEF GetToken
    <2>4. CASE GetToken(j) /\ ~(~Fresh(token[w]) /\ worker[j] = w)
      <3>1. UNCHANGED <<exchanges[w], token[w]>>
        BY <1>2, <2>4 DEF GetToken
      <3>2. QED
        BY <1>3, <2>1, <3>1
    <2>5. QED
      BY <1>5, <2>2, <2>3, <2>4 DEF JobStep, BeginJob, Authorize, Unauthorized, Unavailable,
         FetchDiff, FetchPage, FindMarker, PostReview, BeginPost
  <1>6. QED
    BY <1>1, <1>4, <1>5 DEF Next

\* github_auth.py:63-70 and 273-284, with one invariant each.  No token runs
\* out under the requests its headers were made for: a token outlasts
\* the requests still to come, and the longest list of files takes fewer of
\* them than the margin has units.  And exchanges are Lifetime - Margin apart:
\* the one before the last was that much earlier than the last.
THEOREM ClientTokensSound == Spec => []TokensSound
  <1>1. Init => TokenInvs /\ AllSpaced
    <2>1. SUFFICES ASSUME Init PROVE TokenInvs /\ AllSpaced
      OBVIOUS
    <2>2. revocations \in Nat /\ revocations >= 0
      BY <2>1, FieldsAtStart, Constants DEF Typed, Fields
    <2>3. TokenInvs
      BY <2>1, <2>2 DEF Init, TokenInvs, TokenInv, NoToken, DataRequests
    <2>4. QED
      BY <2>1, <2>3 DEF Init, Spaced, AllSpaced
  <1>2. Typed /\ TokenInvs => NeverExpired
    <2>1. SUFFICES ASSUME Typed, TokenInvs, NEW j \in Jobs, pc[j] \in DataRequests
                   PROVE  headers[j].exp > now
      BY DEF NeverExpired, TokenInvs, TokenInv
    <2>2. /\ headers[j].exp \in Nat /\ now \in Nat /\ left[j] \in {0, 1} /\ Margin \in Nat
          /\ Margin >= 2
          /\ pc[j] = "files" => entry[j].page \in Nat
      BY <2>1, Constants, MarginHolds DEF Typed, Fields, Fetching, Partial
    <2>3. /\ pc[j] = "files" => entry[j].page <= Margin - 1
          /\ headers[j].exp - now > Reach(j)
      BY <2>1 DEF TokenInvs, TokenInv
    <2>4. CASE pc[j] = "files"
      <3>1. Reach(j) = left[j] + Margin - 1 - entry[j].page
        BY <2>4 DEF Reach
      <3>2. QED
        BY <2>2, <2>3, <2>4, <3>1
    <2>5. CASE pc[j] \in {"diff", "marker", "post"}
      <3>1. Reach(j) \in {left[j] + Margin - 1, left[j] + 1, left[j]}
        BY <2>5 DEF Reach
      <3>2. QED
        BY <2>2, <2>3, <3>1
    <2>6. QED
      BY <2>1, <2>4, <2>5 DEF DataRequests
  <1>3. Typed /\ AllSpaced => ExchangesSpaced
    <2>1. SUFFICES ASSUME Typed, NEW w \in Workers, Spaced(w), exchanges[w] > 0
                   PROVE  (exchanges[w] - 1) * (Lifetime - Margin) <= now
      BY DEF ExchangesSpaced, AllSpaced
    <2>2. exchanges[w] - 1 \in Int /\ Lifetime - Margin \in Int
          /\ token[w].exp - Lifetime \in Int /\ now \in Int
      BY <2>1, Constants DEF Typed, Fields
    <2>3. (exchanges[w] - 1) * (Lifetime - Margin) \in Int
      BY <2>2
    <2>4. QED
      BY <2>1, <2>2, <2>3 DEF Spaced
  <1>4. QED
    BY <1>1, <1>2, <1>3, TypedAlways, TokenStep, SpacedStep, PTL DEF Spec, TokensSound

-----------------------------------------------------------------------------
(* Reviews.                                                                 *)

\* j has posted a review with this identifier, and looked for one before there
\* was a p-th.
Posted(j, id, p) == result[j] = "posted" /\ ReviewId(j) = id /\ looked[j] < p
PostedNow(j, id, p) == result'[j] = "posted" /\ ReviewId(j)' = id /\ looked'[j] < p

\* A job about to post has not seen its identifier on the first page.
Searched(j) ==
  pc[j] = "post" =>
      /\ looked[j] <= Len(reviews)
      /\ \A p \in DOMAIN reviews : p <= looked[j] /\ p <= PageSize => reviews[p] # ReviewId(j)

ReviewsInv ==
  /\ \A p \in DOMAIN reviews : reviews[p] # 0 => \E j \in Jobs : Posted(j, reviews[p], p)
  /\ \A j \in Jobs : Searched(j)
  /\ DuplicatesExplained

LEMMA PostedStays ==
  ASSUME Typed, TokenInvs, [Next]_vars, NEW j \in Jobs, NEW id, NEW p, Posted(j, id, p)
  PROVE  PostedNow(j, id, p)
  <1> USE DEF vars, gitHubVars, cacheVars, jobVars
  <1>1. pc[j] = "ended"
    BY DEF Posted, TokenInvs, TokenInv
  <1>2. ASSUME NEW k \in Jobs, JobStep(k) PROVE k # j /\ Alone(k)
    <2>1. pc[k] # "ended"
      BY <1>2 DEF JobStep, BeginJob, Authorize, GetToken, Unauthorized, Unavailable, FetchDiff,
         FetchPage, FindMarker, PostReview, BeginPost, OnLoop, DataRequests
    <2>2. QED
      BY <1>1, <1>2, <2>1, StepAlone DEF Typed
  <1>3. UNCHANGED <<result[j], sha[j], looked[j]>>
    BY <1>2 DEF Next, Push, Revoke, Tick, Alone
  <1>4. QED
    BY <1>3 DEF Posted, PostedNow, ReviewId

LEMMA ReviewsStep == Typed /\ TokenInvs /\ ReviewsInv /\ [Next]_vars => ReviewsInv'
  <1>1. SUFFICES ASSUME Typed, TokenInvs, ReviewsInv, [Next]_vars PROVE ReviewsInv'
    OBVIOUS
  <1> USE DEF vars, gitHubVars, cacheVars, jobVars
  <1>2. Fields /\ reviews \in Seq(0..Len(FilesAt)) /\ Len(reviews) \in Nat
        /\ DOMAIN reviews = 1..Len(reviews)
    BY <1>1 DEF Typed, Fields
  <1>3. \A j \in Jobs : \A id, p : Posted(j, id, p) => PostedNow(j, id, p)
    BY <1>1, PostedStays
  \* Nothing is lost while no review is added.
  <1>4. ASSUME reviews' = reviews, \A j \in Jobs : Searched(j)' PROVE ReviewsInv'
    <2>1. DuplicatesExplained'
      <3>1. SUFFICES ASSUME NEW p \in DOMAIN reviews, NEW q \in DOMAIN reviews,
                            p < q, reviews[p] = reviews[q], reviews[p] # 0, ~(p > PageSize)
                     PROVE  \E j \in Jobs : PostedNow(j, reviews[p], p)
                               /\ \E k \in Jobs \ {j} : PostedNow(k, reviews[p], p)
        BY <1>4, Zenon DEF DuplicatesExplained, PostedNow
      <3>2. \E j \in Jobs : Posted(j, reviews[p], p)
                /\ \E k \in Jobs \ {j} : Posted(k, reviews[p], p)
        BY <1>1, <3>1 DEF ReviewsInv, DuplicatesExplained, Posted
      <3>3. QED
        BY <1>3, <3>2
    <2>2. \A p \in DOMAIN reviews' : reviews'[p] # 0 => \E j \in Jobs : PostedNow(j, reviews'[p], p)
      BY <1>1, <1>3, <1>4 DEF ReviewsInv
    <2>3. QED
      BY <1>4, <2>1, <2>2 DEF ReviewsInv, Posted, PostedNow
  <1>5. ASSUME UNCHANGED <<reviews, pc, sha, looked>> PROVE ReviewsInv'
    BY <1>1, <1>4, <1>5 DEF ReviewsInv, Searched, ReviewId
  <1>6. CASE Push \/ Revoke \/ Tick \/ UNCHANGED vars
    BY <1>5, <1>6 DEF Push, Revoke, Tick
  <1>7. ASSUME NEW j \in Jobs, JobStep(j) PROVE ReviewsInv'
    <2>1. Alone(j) /\ Fields'
      BY <1>1, <1>7, StepAlone, FieldsOfJob DEF Typed
    <2>2. \A k \in Jobs \ {j} : UNCHANGED <<pc[k], sha[k], looked[k]>>
      BY <2>1 DEF Alone
    <2>3. ASSUME reviews' = reviews, Searched(j)' PROVE ReviewsInv'
      BY <1>1, <1>4, <2>2, <2>3 DEF ReviewsInv, Searched, ReviewId
    <2>4. \A s : GoTo(j, s) => pc'[j] = s
      BY <1>2 DEF GoTo, Fields
    <2>5. CASE FindMarker(j)
      <3>1. CASE End(j, "skipped")
        BY <2>3, <2>4, <2>5, <3>1 DEF FindMarker, End, Searched
      <3>2. CASE /\ ~ \E i \in FirstPage : reviews[i] = ReviewId(j)
                 /\ looked' = [looked EXCEPT ![j] = Len(reviews)]
                 /\ UNCHANGED sha
        <4>1. looked'[j] = Len(reviews) /\ reviews' = reviews
          BY <1>2, <2>5, <3>2 DEF Fields, FindMarker
        <4>2. \A p \in DOMAIN reviews : p <= PageSize => reviews[p] # ReviewId(j)
          BY <1>2, <3>2, Constants DEF FirstPage
        <4>3. Searched(j)'
          BY <1>2, <3>2, <4>1, <4>2 DEF Searched, ReviewId
        <4>4. QED
          BY <2>3, <4>1, <4>3
      <3>3. QED
        BY <2>5, <3>1, <3>2 DEF FindMarker
    <2>6. CASE PostReview(j) /\ reviews' = Append(reviews, ReviewId(j))
      <3> DEFINE n == Len(reviews) + 1
                 id == ReviewId(j)
      <3>1. /\ pc[j] = "post" /\ result[j] = "none"
            /\ id \in 0..Len(FilesAt)
        <4>1. pc[j] = "post"
          BY <2>6 DEF PostReview
        <4>2. result[j] = "none"
          BY <1>1, <4>1 DEF TokenInvs, TokenInv
        <4>3. sha[j] \in Heads
          BY <1>2 DEF Fields
        <4>4. QED
          BY <4>1, <4>2, <4>3, Constants DEF ReviewId, Heads
      <3>2. End(j, "posted")
        <4>1. CASE End(j, "rejected") /\ UNCHANGED reviews
          <5>1. Len(reviews') = Len(reviews) + 1
            BY <1>2, <2>6, <3>1
          <5>2. QED
            BY <1>2, <4>1, <5>1
        <4>2. QED
          BY <2>6, <4>1 DEF PostReview
      <3>3. result'[j] = "posted" /\ sha'[j] = sha[j] /\ looked'[j] = looked[j] /\ pc'[j] = "ended"
        BY <1>2, <2>4, <3>2 DEF End, Fields
      <3>4. /\ Len(reviews') = n /\ DOMAIN reviews' = 1..n /\ reviews'[n] = id
            /\ \A p \in 1..Len(reviews) : reviews'[p] = reviews[p]
        BY <1>2, <2>6, <3>1
      <3>5. looked[j] \in Nat /\ looked[j] <= Len(reviews)
            /\ \A p \in DOMAIN reviews : p <= looked[j] /\ p <= PageSize => reviews[p] # id
        BY <1>1, <1>2, <3>1 DEF ReviewsInv, Searched, Fields
      <3>6. PostedNow(j, id, n)
        BY <1>2, <3>3, <3>5 DEF PostedNow, ReviewId
      <3>7. \A p \in DOMAIN reviews' :
               reviews'[p] # 0 => \E k \in Jobs : PostedNow(k, reviews'[p], p)
        BY <1>1, <1>2, <1>3, <3>4, <3>6 DEF ReviewsInv
      <3>8. \A k \in Jobs : Searched(k)'
        <4>1. SUFFICES ASSUME NEW k \in Jobs, k # j PROVE Searched(k)'
          BY <3>3 DEF Searched
        <4>2. UNCHANGED <<pc[k], sha[k], looked[k]>> /\ Searched(k) /\ looked[k] \in Nat
          BY <1>1, <1>2, <2>2, <4>1 DEF ReviewsInv, Fields
        <4>3. looked[k] <= Len(reviews) => looked[k] <= n
          BY <1>2, <4>2
        <4>4. \A p \in DOMAIN reviews' : looked[k] <= Len(reviews) /\ p <= looked[k]
                 => p \in DOMAIN reviews /\ reviews'[p] = reviews[p]
          BY <1>2, <3>4, <4>2
        <4>5. QED
          BY <3>4, <4>2, <4>3, <4>4 DEF Searched, ReviewId
      <3>9. DuplicatesExplained'
        <4>1. SUFFICES ASSUME NEW p \in DOMAIN reviews', NEW q \in DOMAIN reviews',
                              p < q, reviews'[p] = reviews'[q], reviews'[p] # 0, ~(p > PageSize)
                       PROVE  \E i \in Jobs : PostedNow(i, reviews'[p], p)
                                 /\ \E k \in Jobs \ {i} : PostedNow(k, reviews'[p], p)
          BY Zenon DEF DuplicatesExplained, PostedNow
        <4>2. p \in DOMAIN reviews /\ reviews'[p] = reviews[p]
          BY <1>2, <3>4, <4>1
        <4>3. CASE q = n
          <5>1. PICK i \in Jobs : Posted(i, reviews[p], p)
            BY <1>1, <4>1, <4>2 DEF ReviewsInv
          <5>2. i # j
            BY <3>1, <5>1 DEF Posted
          <5>3. reviews[p] = id /\ p <= PageSize
            <6>1. p \in Nat /\ PageSize \in Nat
              BY <1>2, <4>2, Constants
            <6>2. reviews[p] = id
              BY <3>4, <4>1, <4>2, <4>3, Zenon
            <6>3. QED
              BY <4>1, <6>1, <6>2
          <5>4. looked[j] < p
            BY <1>2, <3>5, <4>2, <5>3
          <5>5. PostedNow(j, reviews[p], p)
            BY <3>3, <5>3, <5>4 DEF PostedNow, ReviewId
          <5>6. QED
            BY <1>3, <4>2, <5>1, <5>2, <5>5
        <4>4. CASE q # n
          <5>1. q \in DOMAIN reviews /\ reviews'[q] = reviews[q]
            BY <1>2, <3>4, <4>4
          <5>2. \E i \in Jobs : Posted(i, reviews[p], p)
                    /\ \E k \in Jobs \ {i} : Posted(k, reviews[p], p)
            BY <1>1, <4>1, <4>2, <5>1 DEF ReviewsInv, DuplicatesExplained, Posted
          <5>3. QED
            BY <1>3, <4>2, <5>2
        <4>5. QED
          BY <4>3, <4>4
      <3>10. QED
        BY <3>7, <3>8, <3>9 DEF ReviewsInv, Posted, PostedNow
    <2>7. CASE PostReview(j) /\ UNCHANGED reviews
      BY <2>3, <2>4, <2>7 DEF PostReview, End, Searched
    <2>8. CASE Unauthorized(j) \/ Unavailable(j)
      BY <2>3, <2>4, <2>8 DEF Unauthorized, Unavailable, End, Searched
    <2>9. CASE BeginJob(j) \/ Authorize(j) \/ GetToken(j) \/ FetchDiff(j) \/ FetchPage(j)
               \/ BeginPost(j)
      <3>1. pc'[j] # "post" /\ reviews' = reviews
        BY <2>4, <2>9 DEF BeginJob, Authorize, GetToken, Proceed, NextRequest, FetchDiff, FetchPage,
           BeginPost
      <3>2. QED
        BY <2>3, <3>1 DEF Searched
    <2>10. QED
      BY <1>7, <2>5, <2>6, <2>7, <2>8, <2>9 DEF JobStep, PostReview
  <1>8. QED
    BY <1>1, <1>6, <1>7 DEF Next

\* github_client.py:579-594: two reviews with one identifier always have two
\* jobs behind them, and both of these looked before the first of the reviews
\* was there, unless it lies behind the first page of reviews.
THEOREM DuplicatesAlwaysExplained == Spec => []DuplicatesExplained
  <1>1. Init => TokenInvs /\ ReviewsInv
    <2>1. SUFFICES ASSUME Init PROVE TokenInvs /\ ReviewsInv
      OBVIOUS
    <2>2. revocations \in Nat /\ revocations >= 0
      BY <2>1, FieldsAtStart, Constants DEF Typed, Fields
    <2>3. TokenInvs
      BY <2>1, <2>2 DEF Init, TokenInvs, TokenInv, NoToken, DataRequests
    <2>4. PICK s \in Scenarios : reviews = [i \in 1..s.others |-> 0]
      BY <2>1 DEF Init
    <2>5. \A p \in DOMAIN reviews : reviews[p] = 0
      BY <2>4
    <2>6. QED
      BY <2>1, <2>3, <2>5 DEF Init, ReviewsInv, DuplicatesExplained, Searched
  <1>2. ReviewsInv => DuplicatesExplained
    BY DEF ReviewsInv
  <1>3. QED
    BY <1>1, <1>2, TypedAlways, TokenStep, ReviewsStep, PTL DEF Spec

-----------------------------------------------------------------------------
(* What is fetched.                                                         *)

\* The files of a fetch, without the versions they carry for the properties.
Plain(files) == [i \in DOMAIN files |-> files[i].file]

\* A diff is fetched after its event, and its pages after it.
Ordered ==
  /\ \A j \in Jobs : sha[j] <= head
  /\ \A j \in Jobs : pc[j] = "files" => sha[j] <= entry[j].diff /\ entry[j].diff <= head
  /\ \A w \in Workers, h \in Heads :
        diffs[w][h] # Nothing => /\ h <= diffs[w][h].diff
                                 /\ diffs[w][h].diff <= diffs[w][h].last
                                 /\ diffs[w][h].last <= head

\* While the pull request stays where the diff was read, the files so far are
\* whole pages from the start of its list.
SoFar(j) ==
  pc[j] = "files" /\ entry[j].diff = head =>
      LET files == entry[j].files
      IN  /\ Len(files) = (entry[j].page - 1) * PageSize
          /\ Len(files) <= Len(FilesAt[head])
          /\ \A i \in DOMAIN files : files[i].file = FilesAt[head][i]

Whole(e) == e # Nothing /\ e.last = e.diff => Plain(e.files) = FilesAt[e.diff]

FetchInv ==
  /\ Ordered
  /\ \A j \in Jobs : SoFar(j)
  /\ \A w \in Workers, h \in Heads : Whole(diffs[w][h])

\* One page more.
LEMMA NextPage ==
  ASSUME Typed, NEW j \in Jobs, pc[j] = "files", entry[j].diff = head, SoFar(j)
  PROVE  LET page == Page(entry[j].page)
             files == entry[j].files \o page
         IN  /\ files \in FileList
             /\ Len(page) = PageSize => /\ Len(files) = entry[j].page * PageSize
                                        /\ Len(files) <= Len(FilesAt[head])
             /\ Len(page) < PageSize => Len(files) = Len(FilesAt[head])
             /\ \A i \in DOMAIN files : files[i].file = FilesAt[head][i]
  <1> DEFINE p == entry[j].page
             page == Page(p)
             before == entry[j].files
             files == before \o page
             R == [file : Files, version : Heads]
             all == FilesAt[head]
  <1>1. Fields /\ p \in Nat \ {0} /\ before \in FileList /\ head \in Heads
    BY DEF Typed, Fields, Fetching, Partial
  <1>2. /\ page \in FileList
        /\ \A i \in DOMAIN page : page[i].file = all[(p - 1) * PageSize + i]
        /\ Len(page) = PageSize => p * PageSize <= Len(all)
        /\ (p - 1) * PageSize <= Len(all) /\ Len(page) < PageSize
              => (p - 1) * PageSize + Len(page) = Len(all)
        /\ (p - 1) * PageSize \in Nat /\ p * PageSize = (p - 1) * PageSize + PageSize
    BY <1>1, PageIs
  <1>3. /\ Len(before) = (p - 1) * PageSize /\ Len(before) <= Len(all)
        /\ \A i \in DOMAIN before : before[i].file = all[i]
    BY DEF SoFar
  <1>4. before \in Seq(R) /\ page \in Seq(R)
    BY <1>1, <1>2 DEF FileList
  <1> HIDE DEF p, page, before, R, all
  <1>5. /\ files \in Seq(R) /\ Len(files) = Len(before) + Len(page)
        /\ \A i \in DOMAIN before : files[i] = before[i]
        /\ \A i \in DOMAIN page : files[Len(before) + i] = page[i]
    BY <1>4
  <1>6. /\ DOMAIN files = 1..Len(files) /\ DOMAIN before = 1..Len(before)
        /\ DOMAIN page = 1..Len(page) /\ Len(before) \in Nat /\ Len(page) \in Nat
    BY <1>4, <1>5
  <1>7. ASSUME NEW i \in DOMAIN files PROVE files[i].file = all[i]
    <2>1. CASE i \in DOMAIN before
      BY <1>3, <1>5, <2>1
    <2>2. CASE i \notin DOMAIN before
      <3>1. i - Len(before) \in DOMAIN page /\ i = Len(before) + (i - Len(before))
        BY <1>5, <1>6, <2>2
      <3>2. files[i] = page[i - Len(before)]
        BY <1>5, <3>1
      <3>3. QED
        BY <1>2, <1>3, <3>1, <3>2
    <2>3. QED
      BY <2>1, <2>2
  <1>8. /\ Len(page) = PageSize => Len(files) = p * PageSize /\ Len(files) <= Len(all)
        /\ Len(page) < PageSize => Len(files) = Len(all)
    BY <1>2, <1>3, <1>5
  <1>9. files \in FileList
    BY <1>5 DEF FileList, R
  <1>10. QED
    BY <1>7, <1>8, <1>9 DEF p, page, before, all

LEMMA FetchInvAtRest ==
  ASSUME Typed, FetchInv, UNCHANGED <<diffs, pc, sha, entry>>, head' \in {head, head + 1}
  PROVE  FetchInv'
  <1>1. /\ head \in Nat /\ \A j \in Jobs : sha[j] \in Nat
        /\ \A j \in Jobs : pc[j] = "files" => entry[j].diff \in Nat
        /\ \A w \in Workers, h \in Heads : diffs[w][h] # Nothing => diffs[w][h].last \in Nat
    <2>1. Fields /\ Fetching /\ Heads \subseteq Nat /\ Nothing \notin Cached
      BY Constants DEF Typed
    <2>2. head \in Nat /\ \A j \in Jobs : sha[j] \in Nat
      BY <2>1 DEF Fields
    <2>3. \A j \in Jobs : pc[j] = "files" => entry[j].diff \in Nat
      BY <2>1 DEF Fetching, Partial
    <2>4. ASSUME NEW w \in Workers, NEW h \in Heads, diffs[w][h] # Nothing
          PROVE  diffs[w][h].last \in Nat
      <3>1. diffs[w][h] \in Cached
        BY <2>1, <2>4 DEF Fields
      <3>2. QED
        BY <2>1, <3>1 DEF Cached
    <2>5. QED
      BY <2>2, <2>3, <2>4
  <1>2. Ordered'
    BY <1>1 DEF FetchInv, Ordered
  <1>3. \A j \in Jobs : SoFar(j)'
    BY <1>1 DEF FetchInv, Ordered, SoFar
  <1>4. \A w \in Workers, h \in Heads : Whole(diffs[w][h])'
    BY DEF FetchInv, Whole, Plain
  <1>5. QED
    BY <1>2, <1>3, <1>4 DEF FetchInv

LEMMA FetchStep == Typed /\ FetchInv /\ [Next]_vars => FetchInv'
  <1>1. SUFFICES ASSUME Typed, FetchInv, [Next]_vars PROVE FetchInv'
    OBVIOUS
  <1> USE DEF vars, gitHubVars, cacheVars, jobVars
  <1>2. Fields /\ Fetching /\ head \in Nat /\ Heads \subseteq Nat
    BY <1>1, Constants DEF Typed, Fields
  <1>3. CASE Push \/ Revoke \/ Tick \/ UNCHANGED vars
    BY <1>1, <1>3, FetchInvAtRest DEF Push, Revoke, Tick
  <1>4. ASSUME NEW j \in Jobs, JobStep(j) PROVE FetchInv'
    <2>1. Alone(j) /\ Fields'
      BY <1>2, <1>4, StepAlone, FieldsOfJob
    <2>2. \A k \in Jobs \ {j} : UNCHANGED <<head, pc[k], sha[k], entry[k]>>
      BY <2>1 DEF Alone
    <2>3. \A k \in Jobs \ {j} : SoFar(k)'
      BY <1>1, <2>2 DEF FetchInv, SoFar
    <2>4. \A s : GoTo(j, s) => pc'[j] = s
      BY <1>2 DEF GoTo, Fields
    <2>5. ASSUME pc'[j] # "files", sha'[j] <= head,
                 \A w \in Workers, h \in Heads :
                    diffs'[w][h] = diffs[w][h]
                    \/ /\ diffs'[w][h] # Nothing /\ h <= diffs'[w][h].diff
                       /\ diffs'[w][h].diff <= diffs'[w][h].last
                       /\ diffs'[w][h].last <= head /\ Whole(diffs'[w][h])
          PROVE  FetchInv'
      <3>1. Ordered'
        <4>1. \A k \in Jobs : sha'[k] <= head
          BY <1>1, <2>2, <2>5 DEF FetchInv, Ordered
        <4>2. \A k \in Jobs :
                 pc'[k] = "files" => sha'[k] <= entry'[k].diff /\ entry'[k].diff <= head
          BY <1>1, <2>2, <2>5 DEF FetchInv, Ordered
        <4>3. \A w \in Workers, h \in Heads :
                diffs'[w][h] # Nothing => /\ h <= diffs'[w][h].diff
                                          /\ diffs'[w][h].diff <= diffs'[w][h].last
                                          /\ diffs'[w][h].last <= head
          BY <1>1, <2>5 DEF FetchInv, Ordered
        <4>4. QED
          BY <2>1, <4>1, <4>2, <4>3, Zenon DEF Ordered, Alone
      <3>2. \A w \in Workers, h \in Heads : Whole(diffs[w][h])'
        BY <1>1, <2>5 DEF FetchInv, Whole, Plain
      <3>3. QED
        BY <2>3, <2>5, <3>1, <3>2 DEF FetchInv, SoFar
    <2>6. ASSUME NEW how \in Results, End(j, how), UNCHANGED diffs PROVE FetchInv'
      <3>1. pc'[j] = "ended" /\ sha'[j] \in {sha[j], 1}
        BY <1>2, <2>4, <2>6 DEF End, Fields
      <3>2. sha'[j] <= head
        BY <1>1, <1>2, <3>1, Constants DEF FetchInv, Ordered, Fields, Heads
      <3>3. QED
        BY <2>5, <2>6, <3>1, <3>2
    <2>7. CASE BeginJob(j)
      BY <1>2, <2>4, <2>5, <2>7 DEF BeginJob, Fields
    <2>8. CASE Authorize(j) \/ GetToken(j) \/ BeginPost(j)
      <3>1. pc'[j] # "files" /\ UNCHANGED <<diffs, sha>>
        BY <2>4, <2>8 DEF Authorize, GetToken, Proceed, NextRequest, BeginPost
      <3>2. QED
        BY <1>1, <2>5, <3>1 DEF FetchInv, Ordered
    <2>9. CASE Unauthorized(j) \/ Unavailable(j)
      BY <2>6, <2>9 DEF Unauthorized, Unavailable, Results
    <2>10. CASE FindMarker(j)
      <3>1. CASE GoTo(j, "post") /\ UNCHANGED sha
        BY <1>1, <2>4, <2>5, <2>10, <3>1 DEF FindMarker, FetchInv, Ordered
      <3>2. QED
        BY <2>6, <2>10, <3>1 DEF FindMarker, Results
    <2>11. CASE PostReview(j)
      BY <2>6, <2>11 DEF PostReview, Results
    <2>12. CASE FetchDiff(j)
      <3>1. pc'[j] = "files" /\ UNCHANGED <<sha, diffs>> /\ head' = head
            /\ entry'[j] = [diff |-> head, page |-> 1, files |-> <<>>]
        BY <1>2, <2>4, <2>12 DEF FetchDiff, Fields
      <3>2. Ordered'
        BY <1>1, <1>2, <2>2, <3>1 DEF FetchInv, Ordered
      <3>3. SoFar(j)'
        <4>1. (1 - 1) * PageSize = 0 /\ FilesAt[head] \in Seq(Files)
          BY <1>2, Constants DEF Fields
        <4>2. QED
          BY <3>1, <4>1 DEF SoFar
      <3>4. QED
        BY <1>1, <2>3, <3>1, <3>2, <3>3 DEF FetchInv, Whole, Plain
    <2>13. CASE FetchPage(j)
      <3> DEFINE page == Page(entry[j].page)
                 files == entry[j].files \o page
      <3>1. /\ pc[j] = "files" /\ entry[j] \in Partial /\ UNCHANGED sha /\ head' = head
            /\ sha[j] <= entry[j].diff /\ entry[j].diff <= head
        BY <1>1, <1>2, <2>13 DEF FetchPage, Fetching, FetchInv, Ordered
      <3>2. entry[j].diff = head =>
              /\ files \in FileList
              /\ Len(page) = PageSize => /\ Len(files) = entry[j].page * PageSize
                                         /\ Len(files) <= Len(FilesAt[head])
              /\ Len(page) < PageSize => Len(files) = Len(FilesAt[head])
              /\ \A i \in DOMAIN files : files[i].file = FilesAt[head][i]
        BY <1>1, <3>1, NextPage DEF FetchInv
      <3> HIDE DEF page, files
      <3>3. CASE /\ Len(page) = PageSize
                 /\ entry' = [entry EXCEPT ![j].files = files, ![j].page = @ + 1]
                 /\ GoTo(j, "files")
                 /\ UNCHANGED <<diffs, headers>>
        <4>1. entry'[j].diff = entry[j].diff /\ entry'[j].files = files
              /\ entry'[j].page = entry[j].page + 1 /\ pc'[j] = "files"
          BY <1>2, <2>4, <3>1, <3>3 DEF Fields, Partial
        <4>2. Ordered'
          BY <1>1, <2>2, <3>1, <3>3, <4>1 DEF FetchInv, Ordered
        <4>3. (entry[j].page + 1) - 1 = entry[j].page
          BY <3>1 DEF Partial
        <4>4. SoFar(j)'
          BY <3>1, <3>2, <3>3, <4>1, <4>3 DEF SoFar
        <4>5. QED
          BY <1>1, <2>3, <3>3, <4>2, <4>4 DEF FetchInv, Whole, Plain
      <3>4. CASE /\ Len(page) < PageSize
                 /\ diffs' = [diffs EXCEPT ![worker[j]][sha[j]] =
                                [diff |-> entry[j].diff, files |-> files, last |-> head]]
                 /\ GoTo(j, "reviewing")
        <4> DEFINE e == [diff |-> entry[j].diff, files |-> files, last |-> head]
        <4>1. pc'[j] = "reviewing" /\ sha'[j] <= head
          BY <1>1, <2>4, <3>1, <3>4 DEF FetchInv, Ordered
        <4>2. \A w \in Workers, h \in Heads :
                 diffs'[w][h] = diffs[w][h] \/ (h = sha[j] /\ diffs'[w][h] = e)
          BY <1>2, <3>4 DEF Fields
        <4>3. Whole(e)
          <5>1. SUFFICES ASSUME entry[j].diff = head PROVE Plain(files) = FilesAt[head]
            BY DEF Whole
          <5>2. FilesAt[head] \in Seq(Files)
            BY <1>2, Constants DEF Fields
          <5>3. Len(files) = Len(FilesAt[head])
                /\ \A i \in DOMAIN files : files[i].file = FilesAt[head][i]
            BY <3>2, <3>4, <5>1
          <5>4. DOMAIN files = 1..Len(files)
            BY <3>2, <5>1 DEF FileList
          <5>5. QED
            BY <5>2, <5>3, <5>4 DEF Plain
        <4>4. e # Nothing
          <5>1. files \in FileList
            <6> DEFINE R == [file : Files, version : Heads]
            <6>1. page \in Seq(R) /\ entry[j].files \in Seq(R)
              BY <1>2, <3>1, PageIs DEF FileList, Partial, page
            <6> HIDE DEF R
            <6>2. files \in Seq(R)
              BY <6>1 DEF files
            <6>3. QED
              BY <6>2 DEF FileList, R
          <5>2. e \in Cached
            BY <1>2, <3>1, <5>1 DEF Cached, Partial, Fields
          <5>3. QED
            BY <5>2, Constants
        <4>5. e.diff = entry[j].diff /\ e.last = head
          OBVIOUS
        <4> HIDE DEF e
        <4>6. QED
          BY <1>2, <2>5, <3>1, <4>1, <4>2, <4>3, <4>4, <4>5
      <3>5. QED
        BY <2>13, <3>3, <3>4 DEF FetchPage, page, files
    <2>14. QED
      BY <1>4, <2>7, <2>8, <2>9, <2>10, <2>11, <2>12, <2>13 DEF JobStep
  <1>5. QED
    BY <1>1, <1>3, <1>4 DEF Next

LEMMA FetchAtStart == Init => FetchInv
  <1>1. SUFFICES ASSUME Init PROVE FetchInv
    OBVIOUS
  <1>2. Ordered /\ \A j \in Jobs : SoFar(j)
    BY <1>1 DEF Init, Ordered, SoFar
  <1>3. QED
    BY <1>1, <1>2 DEF Init, FetchInv, Whole

LEMMA FetchAlways == Spec => []FetchInv
  BY FetchAtStart, FetchStep, TypedAlways, PTL DEF Spec

\* github_client.py:516-539: the list that ends with a short page is the whole
\* list of the head its diff is of, in its order, provided that GitHub was
\* still at this head when the short page was read.
THEOREM PagesAlwaysComplete == Spec => []PagesComplete
  <1>1. FetchInv => PagesComplete
    BY DEF FetchInv, PagesComplete, Whole, Plain
  <1>2. QED
    BY <1>1, FetchAlways, PTL

-----------------------------------------------------------------------------
(* The diff mapping.                                                        *)

\* Induction on the natural numbers as a fact about sets: whatever holds of 0
\* and of n + 1 with n holds of all, said with the set of the numbers it holds of.
LEMMA NatSetInduction ==
  ASSUME NEW T, 0 \in T, \A n \in Nat : n \in T => n + 1 \in T
  PROVE  Nat \subseteq T
  <1> DEFINE bad == Nat \ T
  <1>1. SUFFICES ASSUME bad # {} PROVE FALSE
    OBVIOUS
  <1>2. PICK x \in bad : \A y \in bad : ~(<<y, x>> \in OpToRel(<, Nat))
    <2>1. bad \subseteq Nat
      OBVIOUS
    <2> HIDE DEF bad
    <2>2. QED
     BY <1>1, <2>1, NatLessThanWellFounded, WFMin
  <1>3. \A y \in bad : ~(y < x)
    BY <1>2 DEF OpToRel
  <1>4. x # 0 /\ x - 1 \in Nat /\ x - 1 < x
    OBVIOUS
  <1>5. x - 1 \in T
    BY <1>3, <1>4
  <1>6. QED
    BY <1>4, <1>5

\* The state of the loop of _parse_patch before its first line, and all of its
\* states up to the n-th line.
Start == [old |-> 0, new |-> 0, inHunk |-> FALSE, right |-> {}, left |-> {}]
WalkOf(patch, n, walk) ==
  walk = [i \in 0..n |-> IF i = 0 THEN Start ELSE StepLine(walk[i - 1], patch[i])]

LEMMA WalkExists == \A patch : \A n \in Nat : \E walk : WalkOf(patch, n, walk)
  <1>1. TAKE patch
  <1> DEFINE T == {n \in Nat : \E walk : WalkOf(patch, n, walk)}
  <1>2. 0 \in T
    <2> DEFINE g == [i \in 0..0 |-> Start]
    <2>1. WalkOf(patch, 0, g)
      <3>1. \A i \in 0..0 : i = 0
        OBVIOUS
      <3>2. QED
        BY <3>1 DEF WalkOf
    <2>2. QED
      BY <2>1
  <1>3. ASSUME NEW n \in Nat, n \in T PROVE n + 1 \in T
    <2>1. PICK g : WalkOf(patch, n, g)
      BY <1>3
    <2> DEFINE h == [i \in 0..(n + 1) |-> IF i <= n THEN g[i] ELSE StepLine(g[n], patch[n + 1])]
    <2>2. ASSUME NEW i \in 0..(n + 1)
          PROVE  h[i] = IF i = 0 THEN Start ELSE StepLine(h[i - 1], patch[i])
      <3>1. CASE i = 0
        BY <2>1, <3>1 DEF WalkOf
      <3>2. CASE i > 0 /\ i <= n
        BY <2>1, <3>2 DEF WalkOf
      <3>3. CASE i = n + 1
        BY <3>3
      <3>4. QED
        BY <3>1, <3>2, <3>3
    <2>3. WalkOf(patch, n + 1, h)
      BY <2>2 DEF WalkOf
    <2>4. QED
      BY <2>3
  <1>4. Nat \subseteq T
    BY <1>2, <1>3, NatSetInduction
  <1>5. QED
    BY <1>4

LEMMA ParseIs ==
  ASSUME NEW patch, Len(patch) \in Nat
  PROVE  \E walk : /\ WalkOf(patch, Len(patch), walk)
                   /\ ParsePatch(patch) = [right |-> walk[Len(patch)].right,
                                           left |-> walk[Len(patch)].left]
  <1> DEFINE walk[n \in 0..Len(patch)] ==
            IF n = 0
            THEN [old |-> 0, new |-> 0, inHunk |-> FALSE, right |-> {}, left |-> {}]
            ELSE StepLine(walk[n - 1], patch[n])
  <1>1. ParsePatch(patch) = [right |-> walk[Len(patch)].right, left |-> walk[Len(patch)].left]
    BY DEF ParsePatch
  <1>2. \E w : WalkOf(patch, Len(patch), w)
    BY WalkExists
  <1>3. WalkOf(patch, Len(patch), walk)
    BY <1>2 DEF WalkOf, Start
  <1>4. QED
    BY <1>1, <1>3

RightMarks == {"+", " "}
LeftMarks == {"-", " "}

\* The lines up to the n-th of one side, and how many of them follow line h.
ShownUpTo(patch, marks, n) ==
  {i \in 1..n : patch[i].mark \in marks /\ \E h \in 1..i : IsHeader(patch[h])}
Between(patch, marks, h, n) == {k \in (h + 1)..n : patch[k].mark \in marks}

NewAt(patch, i) == NumberOf(patch, i, RightMarks, patch[HunkOf(patch, i)].new)
OldAt(patch, i) == NumberOf(patch, i, LeftMarks, patch[HunkOf(patch, i)].old)

\* h is the header of the hunk that line n is in.
LastHeader(patch, h, n) ==
  h \in 1..n /\ IsHeader(patch[h]) /\ \A k \in (h + 1)..n : ~IsHeader(patch[k])

LEMMA HunkIs ==
  ASSUME NEW patch, NEW n \in Nat, NEW h, LastHeader(patch, h, n)
  PROVE  HunkOf(patch, n) = h
  <1>1. \A g \in 1..n : LastHeader(patch, g, n) => g = h
    <2>1. SUFFICES ASSUME NEW g \in 1..n, LastHeader(patch, g, n), g # h PROVE FALSE
      OBVIOUS
    <2>2. h \in (g + 1)..n \/ g \in (h + 1)..n
      BY <2>1 DEF LastHeader
    <2>3. QED
      BY <2>1, <2>2 DEF LastHeader
  <1>2. h \in 1..n /\ IsHeader(patch[h]) /\ \A k \in (h + 1)..n : ~IsHeader(patch[k])
    BY DEF LastHeader
  <1>3. QED
    BY <1>1, <1>2, Zenon DEF HunkOf, LastHeader

LEMMA BetweenGrows ==
  ASSUME NEW patch, NEW marks, NEW h \in Nat, NEW n \in Nat, h <= n
  PROVE  /\ Cardinality(Between(patch, marks, h, n)) \in Nat
         /\ Cardinality(Between(patch, marks, h, n + 1)) =
              IF patch[n + 1].mark \in marks
              THEN Cardinality(Between(patch, marks, h, n)) + 1
              ELSE Cardinality(Between(patch, marks, h, n))
         /\ Cardinality(Between(patch, marks, n, n)) = 0
  <1> DEFINE S == Between(patch, marks, h, n)
  <1>1. IsFiniteSet(S) /\ n + 1 \notin S
    <2>1. IsFiniteSet((h + 1)..n) /\ S \subseteq (h + 1)..n
      BY FS_Interval DEF Between
    <2>2. QED
      BY <2>1, FS_Subset
  <1>2. Cardinality(S) \in Nat /\ Cardinality(S \cup {n + 1}) = Cardinality(S) + 1
    BY <1>1, FS_CardinalityType, FS_AddElement
  <1>3. Between(patch, marks, h, n + 1) = IF patch[n + 1].mark \in marks THEN S \cup {n + 1} ELSE S
    <2>1. (h + 1)..(n + 1) = ((h + 1)..n) \cup {n + 1}
      OBVIOUS
    <2>2. QED
      BY <2>1 DEF Between
  <1>4. Between(patch, marks, n, n) = {}
    BY DEF Between
  <1>5. QED
    BY <1>2, <1>3, <1>4, FS_EmptySet

LEMMA ShownGrows ==
  ASSUME NEW patch, NEW marks, NEW n \in Nat
  PROVE  ShownUpTo(patch, marks, n + 1) =
           IF patch[n + 1].mark \in marks /\ \E h \in 1..(n + 1) : IsHeader(patch[h])
           THEN ShownUpTo(patch, marks, n) \cup {n + 1}
           ELSE ShownUpTo(patch, marks, n)
  <1>1. 1..(n + 1) = (1..n) \cup {n + 1}
    OBVIOUS
  <1>2. QED
    BY <1>1 DEF ShownUpTo

\* What the walk knows after n lines.
Walked(patch, s, n) ==
  /\ s \in [old : Nat, new : Nat, inHunk : BOOLEAN, right : SUBSET Nat, left : SUBSET Nat]
  /\ ~s.inHunk => \A k \in 1..n : ~IsHeader(patch[k])
  /\ s.inHunk => \E h : /\ LastHeader(patch, h, n)
                        /\ s.new = patch[h].new + Cardinality(Between(patch, RightMarks, h, n))
                        /\ s.old = patch[h].old + Cardinality(Between(patch, LeftMarks, h, n))
  /\ s.right = {NewAt(patch, i) : i \in ShownUpTo(patch, RightMarks, n)}
  /\ s.left = {OldAt(patch, i) : i \in ShownUpTo(patch, LeftMarks, n)}

LEMMA WalkedStep ==
  ASSUME NEW patch \in Seq(PatchLines), NEW n \in Nat, n + 1 <= Len(patch), NEW s,
         Walked(patch, s, n)
  PROVE  Walked(patch, StepLine(s, patch[n + 1]), n + 1)
  <1> DEFINE l == patch[n + 1]
             t == StepLine(s, l)
  <1>1. l \in PatchLines /\ \A k \in 1..(n + 1) : patch[k] \in PatchLines
    OBVIOUS
  <1>2. s \in [old : Nat, new : Nat, inHunk : BOOLEAN, right : SUBSET Nat, left : SUBSET Nat]
    BY DEF Walked
  <1>3. 1..(n + 1) = (1..n) \cup {n + 1}
    OBVIOUS
  <1>4. CASE IsHeader(l)
    <2>1. t = [s EXCEPT !.old = l.old, !.new = l.new, !.inHunk = TRUE]
      BY <1>4 DEF StepLine
    <2>2. /\ t \in [old : Nat, new : Nat, inHunk : BOOLEAN, right : SUBSET Nat, left : SUBSET Nat]
          /\ t.inHunk /\ t.new = l.new /\ t.old = l.old /\ t.right = s.right /\ t.left = s.left
      BY <1>1, <1>2, <2>1 DEF PatchLines
    <2>3. LastHeader(patch, n + 1, n + 1)
      BY <1>4 DEF LastHeader
    <2>4. l.new + 0 = l.new /\ l.old + 0 = l.old
      <3>1. l.new \in Nat /\ l.old \in Nat
        BY <1>1 DEF PatchLines
      <3> HIDE DEF l
      <3>2. QED
        BY <3>1
    <2>5. Cardinality(Between(patch, RightMarks, n + 1, n + 1)) = 0
          /\ Cardinality(Between(patch, LeftMarks, n + 1, n + 1)) = 0
      BY BetweenGrows
    <2>6. l.mark \notin RightMarks /\ l.mark \notin LeftMarks
      BY <1>4 DEF IsHeader, RightMarks, LeftMarks
    <2>7. /\ ShownUpTo(patch, RightMarks, n + 1) = ShownUpTo(patch, RightMarks, n)
          /\ ShownUpTo(patch, LeftMarks, n + 1) = ShownUpTo(patch, LeftMarks, n)
      BY <2>6, ShownGrows
    <2> HIDE DEF t, l
    <2>8. t.right = {NewAt(patch, i) : i \in ShownUpTo(patch, RightMarks, n + 1)}
          /\ t.left = {OldAt(patch, i) : i \in ShownUpTo(patch, LeftMarks, n + 1)}
      BY <2>2, <2>7 DEF Walked
    <2>9. \E h : /\ LastHeader(patch, h, n + 1)
                 /\ t.new = patch[h].new + Cardinality(Between(patch, RightMarks, h, n + 1))
                 /\ t.old = patch[h].old + Cardinality(Between(patch, LeftMarks, h, n + 1))
      BY <2>2, <2>3, <2>4, <2>5 DEF l
    <2>10. Walked(patch, t, n + 1)
      BY <2>2, <2>8, <2>9, Zenon DEF Walked
    <2>11. QED
      BY <2>10 DEF t, l
  <1>5. CASE ~IsHeader(l) /\ ~s.inHunk
    <2>1. t = s
      BY <1>5 DEF StepLine
    <2>2. \A k \in 1..(n + 1) : ~IsHeader(patch[k])
      BY <1>3, <1>5 DEF Walked
    <2>3. /\ ShownUpTo(patch, RightMarks, n + 1) = ShownUpTo(patch, RightMarks, n)
          /\ ShownUpTo(patch, LeftMarks, n + 1) = ShownUpTo(patch, LeftMarks, n)
      BY <2>2, ShownGrows
    <2>4. QED
      BY <1>5, <2>1, <2>2, <2>3 DEF Walked
  <1>6. CASE ~IsHeader(l) /\ s.inHunk
    <2>1. PICK h : /\ LastHeader(patch, h, n)
                   /\ s.new = patch[h].new + Cardinality(Between(patch, RightMarks, h, n))
                   /\ s.old = patch[h].old + Cardinality(Between(patch, LeftMarks, h, n))
      BY <1>6 DEF Walked
    <2>2. h \in 1..n /\ h \in Nat /\ h <= n /\ LastHeader(patch, h, n + 1)
      <3>1. h \in 1..n
        BY <2>1 DEF LastHeader
      <3>2. (h + 1)..(n + 1) = ((h + 1)..n) \cup {n + 1}
        BY <3>1
      <3>3. QED
        BY <1>6, <2>1, <3>1, <3>2 DEF LastHeader
    <2>3. HunkOf(patch, n + 1) = h
      BY <2>2, HunkIs
    <2>4. (n + 1) - 1 = n
      OBVIOUS
    <2>5. NewAt(patch, n + 1) = s.new /\ OldAt(patch, n + 1) = s.old
      BY <2>1, <2>3, <2>4 DEF NewAt, OldAt, NumberOf, Between
    <2>6. patch[h] \in PatchLines
      BY <1>1, <2>2
    <2> DEFINE inNew == l.mark \in RightMarks
               inOld == l.mark \in LeftMarks
               R == Cardinality(Between(patch, RightMarks, h, n))
               L == Cardinality(Between(patch, LeftMarks, h, n))
    <2>7. /\ t.new = (IF inNew THEN s.new + 1 ELSE s.new)
          /\ t.old = (IF inOld THEN s.old + 1 ELSE s.old)
          /\ t.inHunk
          /\ t.right = (IF inNew THEN s.right \cup {s.new} ELSE s.right)
          /\ t.left = (IF inOld THEN s.left \cup {s.old} ELSE s.left)
          /\ t \in [old : Nat, new : Nat, inHunk : BOOLEAN, right : SUBSET Nat, left : SUBSET Nat]
      <3> DEFINE u == [s EXCEPT
                        !.right = IF inNew THEN @ \cup {s.new} ELSE @,
                        !.left  = IF inOld THEN @ \cup {s.old} ELSE @,
                        !.new   = IF inNew THEN @ + 1 ELSE @,
                        !.old   = IF inOld THEN @ + 1 ELSE @]
      <3>1. t = u
        BY <1>6 DEF StepLine, RightMarks, LeftMarks
      <3> HIDE DEF t, l, inNew, inOld
      <3>2. u \in [old : Nat, new : Nat, inHunk : BOOLEAN, right : SUBSET Nat, left : SUBSET Nat]
        <4>1. s.new + 1 \in Nat /\ s.old + 1 \in Nat
              /\ s.right \cup {s.new} \in SUBSET Nat /\ s.left \cup {s.old} \in SUBSET Nat
          BY <1>2
        <4>2. CASE inNew /\ inOld
          BY <1>2, <4>1, <4>2
        <4>3. CASE inNew /\ ~inOld
          BY <1>2, <4>1, <4>3
        <4>4. CASE ~inNew /\ inOld
          BY <1>2, <4>1, <4>4
        <4>5. CASE ~inNew /\ ~inOld
          BY <1>2, <4>1, <4>5
        <4>6. QED
          BY <4>2, <4>3, <4>4, <4>5
      <3>3. QED
        BY <1>2, <1>6, <3>1, <3>2
    <2>8. /\ R \in Nat /\ L \in Nat
          /\ Cardinality(Between(patch, RightMarks, h, n + 1)) = (IF inNew THEN R + 1 ELSE R)
          /\ Cardinality(Between(patch, LeftMarks, h, n + 1)) = (IF inOld THEN L + 1 ELSE L)
      BY <2>2, BetweenGrows
    <2>9. /\ ShownUpTo(patch, RightMarks, n + 1) =
               IF inNew THEN ShownUpTo(patch, RightMarks, n) \cup {n + 1}
                        ELSE ShownUpTo(patch, RightMarks, n)
          /\ ShownUpTo(patch, LeftMarks, n + 1) =
               IF inOld THEN ShownUpTo(patch, LeftMarks, n) \cup {n + 1}
                       ELSE ShownUpTo(patch, LeftMarks, n)
      <3>1. h \in 1..(n + 1) /\ IsHeader(patch[h])
        BY <2>2 DEF LastHeader
      <3>2. QED
        BY <3>1, ShownGrows
    <2>10. s.right = {NewAt(patch, i) : i \in ShownUpTo(patch, RightMarks, n)}
           /\ s.left = {OldAt(patch, i) : i \in ShownUpTo(patch, LeftMarks, n)}
      BY DEF Walked
    <2>11. patch[h].new \in Nat /\ patch[h].old \in Nat
      BY <2>6 DEF PatchLines
    <2> HIDE DEF t, l, inNew, inOld, R, L
    <2>12. t.right = {NewAt(patch, i) : i \in ShownUpTo(patch, RightMarks, n + 1)}
           /\ t.left = {OldAt(patch, i) : i \in ShownUpTo(patch, LeftMarks, n + 1)}
      BY <2>5, <2>7, <2>9, <2>10
    <2>13. /\ t.new = patch[h].new + Cardinality(Between(patch, RightMarks, h, n + 1))
           /\ t.old = patch[h].old + Cardinality(Between(patch, LeftMarks, h, n + 1))
      <3>1. s.new = patch[h].new + R /\ s.old = patch[h].old + L
        BY <2>1 DEF R, L
      <3>2. patch[h].new + (R + 1) = (patch[h].new + R) + 1
            /\ patch[h].old + (L + 1) = (patch[h].old + L) + 1
        BY <2>8, <2>11
      <3>3. QED
        BY <2>7, <2>8, <3>1, <3>2, Zenon
    <2>14. Walked(patch, t, n + 1)
      BY <2>2, <2>7, <2>12, <2>13, Zenon DEF Walked
    <2>15. QED
      BY <2>14 DEF t, l
  <1>7. QED
    BY <1>2, <1>4, <1>5, <1>6

\* For every patch, the two sets that the loop with its running counters builds
\* are the numbers of its lines, each side counted from its hunk's header.
LEMMA ParseIsExact ==
  ASSUME NEW patch \in Seq(PatchLines)
  PROVE  LET n == Len(patch)
         IN  /\ ParsePatch(patch).right = {NewAt(patch, i) : i \in ShownUpTo(patch, RightMarks, n)}
             /\ ParsePatch(patch).left = {OldAt(patch, i) : i \in ShownUpTo(patch, LeftMarks, n)}
  <1>1. Len(patch) \in Nat
    OBVIOUS
  <1>2. PICK walk :
          /\ WalkOf(patch, Len(patch), walk)
          /\ ParsePatch(patch) = [right |-> walk[Len(patch)].right, left |-> walk[Len(patch)].left]
    BY <1>1, ParseIs
  <1> DEFINE T == {n \in Nat : n <= Len(patch) => Walked(patch, walk[n], n)}
  <1>3. 0 \in T
    <2>1. walk[0] = Start
      BY <1>1, <1>2 DEF WalkOf
    <2>2. ShownUpTo(patch, RightMarks, 0) = {} /\ ShownUpTo(patch, LeftMarks, 0) = {}
      BY DEF ShownUpTo
    <2>3. Walked(patch, Start, 0)
      BY <2>2 DEF Walked, Start
    <2>4. QED
      BY <2>1, <2>3
  <1>4. ASSUME NEW n \in Nat, n \in T PROVE n + 1 \in T
    <2>1. SUFFICES ASSUME n + 1 <= Len(patch) PROVE Walked(patch, walk[n + 1], n + 1)
      OBVIOUS
    <2>2. walk[n + 1] = StepLine(walk[n], patch[n + 1])
      <3>1. n + 1 \in 0..Len(patch) /\ n + 1 # 0 /\ (n + 1) - 1 = n
        BY <1>1, <2>1
      <3>2. QED
        BY <1>2, <3>1 DEF WalkOf
    <2>3. Walked(patch, walk[n], n)
      BY <1>1, <1>4, <2>1
    <2>4. QED
      BY <2>1, <2>2, <2>3, WalkedStep
  <1>5. Len(patch) \in T
    BY <1>1, <1>3, <1>4, NatSetInduction
  <1>6. Walked(patch, walk[Len(patch)], Len(patch))
    BY <1>1, <1>5
  <1>7. QED
    BY <1>2, <1>6 DEF Walked

\* diff_mapping.py:82-133: whatever the patch, with any number of hunks, in any
\* order, and any lines between them, _parse_patch finds exactly the lines and
\* sides that GitHub accepts a comment on.  The loop counts as it goes; what
\* GitHub accepts is said line by line, from the hunk's header.
THEOREM IndexIsExact ==
  ASSUME NEW patch \in Seq(PatchLines) \cup {NoPatch}
  PROVE  /\ \A x : x \in FileIndex(patch).right
                    <=> [line |-> x, side |-> "RIGHT"] \in Commentable(patch)
         /\ \A x : x \in FileIndex(patch).left
                    <=> [line |-> x, side |-> "LEFT"] \in Commentable(patch)
         /\ \A c \in Commentable(patch) : c = [line |-> c.line, side |-> c.side]
                                          /\ c.side \in {"RIGHT", "LEFT"}
  <1>1. CASE patch = NoPatch
    BY <1>1 DEF FileIndex, Commentable
  <1>2. CASE patch # NoPatch
    <2> DEFINE new == {NewAt(patch, i) : i \in ShownUpTo(patch, RightMarks, Len(patch))}
               old == {OldAt(patch, i) : i \in ShownUpTo(patch, LeftMarks, Len(patch))}
    <2>1. FileIndex(patch) = ParsePatch(patch)
      BY <1>2 DEF FileIndex
    <2>2. FileIndex(patch).right = new /\ FileIndex(patch).left = old
      BY <1>2, <2>1, ParseIsExact
    <2>3. Commentable(patch) = {[line |-> x, side |-> "RIGHT"] : x \in new}
                               \cup {[line |-> x, side |-> "LEFT"] : x \in old}
      BY <1>2 DEF Commentable, NewAt, OldAt, ShownUpTo, RightMarks, LeftMarks
    <2> HIDE DEF new, old
    <2>4. \A x : x \in new <=> [line |-> x, side |-> "RIGHT"] \in Commentable(patch)
      BY <2>3
    <2>5. \A x : x \in old <=> [line |-> x, side |-> "LEFT"] \in Commentable(patch)
      BY <2>3
    <2>6. \A c \in Commentable(patch) : c = [line |-> c.line, side |-> c.side]
                                        /\ c.side \in {"RIGHT", "LEFT"}
      BY <2>3
    <2>7. QED
      BY <2>2, <2>4, <2>5, <2>6, Zenon
  <1>3. QED
    BY <1>1, <1>2

\* Every file of a head has the index of its own patch.
LEMMA HeadIndex ==
  ASSUME NEW h \in Heads, NEW i \in DOMAIN FilesAt[h]
  PROVE  /\ DOMAIN DiffIndex(FilesAt[h]) = {FilesAt[h][k].name : k \in DOMAIN FilesAt[h]}
         /\ DiffIndex(FilesAt[h])[FilesAt[h][i].name] = FileIndex(FilesAt[h][i].patch)
         /\ FilesAt[h][i].patch \in Seq(PatchLines) \cup {NoPatch}
  <1> DEFINE all == FilesAt[h]
             last(name) == CHOOSE k \in DOMAIN all :
                             /\ all[k].name = name
                             /\ \A l \in DOMAIN all : all[l].name = name => l <= k
  <1>1. all \in Seq(Files) /\ DOMAIN all \subseteq Nat
    BY Constants
  <1>2. \A k, l \in DOMAIN all : all[k].name = all[l].name => k = l
    BY ClientConfig DEF ClientConfig
  <1>3. last(all[i].name) = i
    <2>1. i \in DOMAIN all /\ all[i].name = all[i].name
          /\ \A l \in DOMAIN all : all[l].name = all[i].name => l <= i
      BY <1>1, <1>2
    <2>2. \A k \in DOMAIN all : all[k].name = all[i].name => k = i
      BY <1>2
    <2> HIDE DEF all
    <2>3. QED
      BY <2>1, <2>2, Zenon
  <1>4. DiffIndex(all) =
          [name \in {all[k].name : k \in DOMAIN all} |-> FileIndex(all[last(name)].patch)]
    BY Zenon DEF DiffIndex
  <1>5. all[i] \in Files
    BY <1>1
  <1>6. all[i].patch \in Seq(PatchLines) \cup {NoPatch}
    BY <1>5, ClientConfig DEF ClientConfig
  <1> HIDE DEF last
  <1>7. QED
    BY <1>3, <1>4, <1>6

\* What is anchored on the files of a head are lines that GitHub shows there,
\* and what is not anchored is on none of them.
LEMMA AnchorsAreShown ==
  ASSUME NEW j \in Jobs, sha[j] \in Heads, NEW x,
         NEW index, index = DiffIndex(FilesAt[sha[j]])
  PROVE  /\ Anchor(index, x) \subseteq ShownLines(j)
         /\ Anchor(index, x) = {} =>
              \A at \in ShownLines(j) : ~(at.path = x.path /\ at.line = x.line)
  <1> DEFINE all == FilesAt[sha[j]]
             on(side) == [path |-> x.path, line |-> x.line, side |-> side]
  <1>1. /\ \A i \in DOMAIN all : index[all[i].name] = FileIndex(all[i].patch)
        /\ \A i \in DOMAIN all : all[i].patch \in Seq(PatchLines) \cup {NoPatch}
    BY HeadIndex
  <1>2. DOMAIN index = {all[k].name : k \in DOMAIN all}
    BY DEF DiffIndex
  <1>3. \A at : at \in ShownLines(j) <=>
           \E i \in DOMAIN all : \E c \in Commentable(all[i].patch) :
              at = [path |-> all[i].name, line |-> c.line, side |-> c.side]
    BY DEF ShownLines, ToSet
  <1>4. ASSUME NEW side \in {"RIGHT", "LEFT"}, NEW i \in DOMAIN all, all[i].name = x.path,
               [line |-> x.line, side |-> side] \in Commentable(all[i].patch)
        PROVE  on(side) \in ShownLines(j)
    <2> DEFINE c == [line |-> x.line, side |-> side]
    <2>1. c.line = x.line /\ c.side = side
      OBVIOUS
    <2>2. on(side) = [path |-> all[i].name, line |-> c.line, side |-> c.side]
      BY <1>4, <2>1
    <2> HIDE DEF c, all, on
    <2>3. QED
      BY <1>3, <1>4, <2>2 DEF c
  <1>5. \A i \in DOMAIN all :
          /\ \A n : n \in FileIndex(all[i].patch).right
                      <=> [line |-> n, side |-> "RIGHT"] \in Commentable(all[i].patch)
          /\ \A n : n \in FileIndex(all[i].patch).left
                      <=> [line |-> n, side |-> "LEFT"] \in Commentable(all[i].patch)
          /\ \A c \in Commentable(all[i].patch) :
                c = [line |-> c.line, side |-> c.side] /\ c.side \in {"RIGHT", "LEFT"}
    BY <1>1, IndexIsExact
  <1>6. Anchor(index, x) \subseteq ShownLines(j)
    <2>1. CASE x.path \notin DOMAIN index
      BY <2>1 DEF Anchor
    <2>2. CASE x.path \in DOMAIN index
      <3>1. PICK i \in DOMAIN all : all[i].name = x.path
        BY <1>2, <2>2
      <3>2. index[x.path] = FileIndex(all[i].patch)
        BY <1>1, <3>1
      <3>3. CASE x.line \in index[x.path].right
        <4>1. Anchor(index, x) = {on("RIGHT")}
          BY <2>2, <3>3 DEF Anchor
        <4>2. on("RIGHT") \in ShownLines(j)
          BY <1>4, <1>5, <3>1, <3>2, <3>3
        <4>3. QED
          BY <4>1, <4>2
      <3>4. CASE x.line \notin index[x.path].right /\ x.line \in index[x.path].left
        <4>1. Anchor(index, x) = {on("LEFT")}
          BY <2>2, <3>4 DEF Anchor
        <4>2. on("LEFT") \in ShownLines(j)
          BY <1>4, <1>5, <3>1, <3>2, <3>4
        <4>3. QED
          BY <4>1, <4>2
      <3>5. CASE x.line \notin index[x.path].right /\ x.line \notin index[x.path].left
        BY <2>2, <3>5 DEF Anchor
      <3>6. QED
        BY <3>3, <3>4, <3>5
    <2>3. QED
      BY <2>1, <2>2
  <1>7. ASSUME Anchor(index, x) = {}, NEW at \in ShownLines(j), at.path = x.path, at.line = x.line
        PROVE  FALSE
    <2>1. PICK i \in DOMAIN all : \E c \in Commentable(all[i].patch) :
             at = [path |-> all[i].name, line |-> c.line, side |-> c.side]
      BY <1>3
    <2>2. PICK c \in Commentable(all[i].patch) :
             at = [path |-> all[i].name, line |-> c.line, side |-> c.side]
      BY <2>1
    <2>3. all[i].name = x.path /\ c.line = x.line
      BY <1>7, <2>2
    <2>4. c = [line |-> x.line, side |-> "RIGHT"] \/ c = [line |-> x.line, side |-> "LEFT"]
      BY <1>5, <2>3
    <2>5. x.line \in FileIndex(all[i].patch).right \/ x.line \in FileIndex(all[i].patch).left
      BY <1>5, <2>4
    <2>6. x.path \in DOMAIN index /\ index[x.path] = FileIndex(all[i].patch)
      BY <1>1, <1>2, <2>3
    <2>7. Anchor(index, x) # {}
      BY <2>5, <2>6 DEF Anchor
    <2>8. QED
      BY <1>7, <2>7
  <1>8. QED
    BY <1>6, <1>7

LEMMA IndexOfWhole ==
  ASSUME NEW j \in Jobs, Plain(diffs[worker[j]][sha[j]].files) = FilesAt[sha[j]]
  PROVE  Index(j) = DiffIndex(FilesAt[sha[j]])
  BY DEF Index, Plain

\* github_client.py:603-611, diff_mapping.py:3-40: when the pull request stayed
\* at the head of the review while its files were read, no finding loses its
\* place to the body that has a line of its number to stand on.
THEOREM AlwaysDegradedOnlyIfNotShown == Spec => []DegradedOnlyIfNotShown
  <1>1. Typed /\ FetchInv => DegradedOnlyIfNotShown
    <2>1. SUFFICES ASSUME Typed, FetchInv, NEW j \in Jobs, diffs[worker[j]][sha[j]] # Nothing,
                          diffs[worker[j]][sha[j]].diff = sha[j],
                          diffs[worker[j]][sha[j]].last = sha[j]
                   PROVE  Degraded(j) \cap
                            {[path |-> at.path, line |-> at.line] : at \in ShownLines(j)} = {}
      BY DEF DegradedOnlyIfNotShown
    <2>2. worker[j] \in Workers /\ sha[j] \in Heads
      BY <2>1 DEF Typed, Fields
    <2>3. Plain(diffs[worker[j]][sha[j]].files) = FilesAt[sha[j]]
      BY <2>1, <2>2 DEF FetchInv, Whole
    <2>4. Index(j) = DiffIndex(FilesAt[sha[j]])
      BY <2>3, IndexOfWhole
    <2>5. ASSUME NEW x \in Degraded(j), NEW at \in ShownLines(j),
                 x = [path |-> at.path, line |-> at.line]
          PROVE  FALSE
      <3>1. Anchor(Index(j), x) = {}
        BY <2>5 DEF Degraded
      <3>2. at.path = x.path /\ at.line = x.line
        BY <2>5
      <3>3. QED
        BY <2>2, <2>4, <3>1, <3>2, AnchorsAreShown
    <2>6. QED
      BY <2>5
  <1>2. QED
    BY <1>1, TypedAlways, FetchAlways, PTL

\* A job that reviews or posts has its diff in the cache of its worker, and the
\* pull request has left the head of every review that was refused.
Grounded(j) ==
  /\ pc[j] = "queued" => phase[j] = "fetch"
  /\ pc[j] \in {"marker", "post"} => phase[j] = "post"
  /\ pc[j] = "reviewing" \/ (phase[j] = "post" /\ pc[j] \in OnLoop)
        => diffs[worker[j]][sha[j]] # Nothing
  /\ result[j] # "none" => pc[j] = "ended"
  /\ result[j] = "rejected" => head > sha[j]

AllGrounded == \A j \in Jobs : Grounded(j)

\* GitHub accepts what a job posts while the pull request is where it was.
LEMMA AcceptedUnlessMoved ==
  ASSUME Typed, FetchInv, NEW j \in Jobs, Grounded(j), pc[j] = "post", ~Accepted(j)
  PROVE  head > sha[j]
  <1> DEFINE e == diffs[worker[j]][sha[j]]
  <1>1. Fields /\ worker[j] \in Workers /\ sha[j] \in Heads /\ Heads \subseteq Nat /\ head \in Nat
    BY Constants DEF Typed, Fields
  <1>2. e # Nothing
    BY DEF Grounded, OnLoop, DataRequests
  <1>3. e.diff \in Nat /\ e.last \in Nat
    <2>1. diffs \in [Workers -> [Heads -> Cached \cup {Nothing}]]
      BY <1>1 DEF Fields
    <2>2. e \in Cached
      BY <1>1, <1>2, <2>1
    <2>3. QED
      BY <1>1, <2>2 DEF Cached
  <1>4. sha[j] <= e.diff /\ e.diff <= e.last /\ e.last <= head
    BY <1>1, <1>2 DEF FetchInv, Ordered
  <1>5. ASSUME head = sha[j] PROVE Accepted(j)
    <2>1. e.diff = sha[j] /\ e.last = e.diff
      BY <1>1, <1>3, <1>4, <1>5
    <2>2. Plain(e.files) = FilesAt[sha[j]]
      BY <1>1, <1>2, <2>1 DEF FetchInv, Whole
    <2>3. Index(j) = DiffIndex(FilesAt[sha[j]])
      BY <2>2, IndexOfWhole
    <2>4. \A x \in Findings : Anchor(Index(j), x) \subseteq ShownLines(j)
      BY <1>1, <2>3, AnchorsAreShown
    <2>5. QED
      BY <2>4 DEF Accepted, Comments
  <1>6. sha[j] <= head /\ sha[j] \in Nat /\ head # sha[j]
    BY <1>1, <1>5 DEF FetchInv, Ordered
  <1>7. QED
    BY <1>1, <1>6

LEMMA LastPageStored ==
  ASSUME Typed, NEW j \in Jobs, FetchPage(j), Len(Page(entry[j].page)) < PageSize
  PROVE  diffs'[worker[j]][sha[j]] # Nothing
  <1> DEFINE files == entry[j].files \o Page(entry[j].page)
             e == [diff |-> entry[j].diff, files |-> files, last |-> head]
             R == [file : Files, version : Heads]
  <1>1. Fields /\ sha[j] \in Heads /\ worker[j] \in Workers /\ entry[j] \in Partial
    BY DEF Typed, Fields, Fetching, FetchPage
  <1>2. Len(Page(entry[j].page)) # PageSize
    BY <1>1, PageIs, Constants DEF Partial, FileList
  <1>3. diffs' = [diffs EXCEPT ![worker[j]][sha[j]] = e]
    BY <1>2 DEF FetchPage
  <1>4. diffs'[worker[j]][sha[j]] = e
    BY <1>1, <1>3 DEF Fields
  <1>5. Page(entry[j].page) \in Seq(R) /\ entry[j].files \in Seq(R)
        /\ entry[j].diff \in Heads /\ head \in Heads
    BY <1>1, PageIs DEF FileList, Partial, Fields
  <1>6. files \in Seq(R)
    <2> HIDE DEF R
    <2>1. QED
      BY <1>5
  <1> HIDE DEF files
  <1>7. e \in Cached
    BY <1>5, <1>6 DEF Cached, FileList
  <1>8. QED
    BY <1>4, <1>7, Constants

LEMMA GroundedStep == Typed /\ FetchInv /\ AllGrounded /\ [Next]_vars => AllGrounded'
  <1>1. SUFFICES ASSUME Typed, FetchInv, AllGrounded, [Next]_vars PROVE AllGrounded'
    OBVIOUS
  <1> USE DEF vars, gitHubVars, cacheVars, jobVars
  <1>2. Fields /\ Fetching /\ head \in Nat /\ \A j \in Jobs : sha[j] \in Nat /\ Grounded(j)
    BY <1>1, Constants DEF Typed, Fields, AllGrounded
  <1>3. ASSUME UNCHANGED <<worker, diffs, pc, phase, sha, result>>, head' \in {head, head + 1}
        PROVE  AllGrounded'
    BY <1>1, <1>2, <1>3 DEF AllGrounded, Grounded
  <1>4. CASE Push \/ Revoke \/ Tick \/ UNCHANGED vars
    BY <1>3, <1>4 DEF Push, Revoke, Tick
  <1>5. ASSUME NEW j \in Jobs, JobStep(j) PROVE AllGrounded'
    <2>1. Alone(j) /\ Fields'
      BY <1>2, <1>5, StepAlone, FieldsOfJob
    <2>2. \A w \in Workers, h \in Heads : diffs[w][h] # Nothing => diffs'[w][h] # Nothing
      <3>1. CASE UNCHANGED diffs
        BY <3>1
      <3>2. CASE FetchPage(j) /\ ~ UNCHANGED diffs
        <4>1. Len(Page(entry[j].page)) < PageSize /\ sha[j] \in Heads /\ worker[j] \in Workers
          BY <1>2, <3>2 DEF FetchPage, Fields
        <4>2. diffs'[worker[j]][sha[j]] # Nothing
          BY <1>1, <3>2, <4>1, LastPageStored
        <4>3. \A w \in Workers, h \in Heads :
                 diffs'[w][h] = diffs[w][h] \/ (w = worker[j] /\ h = sha[j])
          <5>1. PICK e : diffs' = [diffs EXCEPT ![worker[j]][sha[j]] = e]
            BY <3>2 DEF FetchPage
          <5>2. QED
            BY <1>2, <5>1 DEF Fields
        <4>4. QED
          BY <4>2, <4>3
      <3>3. QED
        BY <1>5, <3>1, <3>2 DEF JobStep, BeginJob, Authorize, GetToken, Proceed, Unauthorized,
           Unavailable, FetchDiff, FindMarker, PostReview, BeginPost
    <2>3. ASSUME NEW k \in Jobs \ {j} PROVE Grounded(k)'
      <3>1. worker[k] \in Workers /\ sha[k] \in Heads
        BY <1>2 DEF Fields
      <3>2. QED
        BY <1>2, <2>1, <2>2, <3>1 DEF Grounded, Alone
    <2>4. \A s : GoTo(j, s) => pc'[j] = s
      BY <1>2 DEF GoTo, Fields
    <2>5. worker' = worker /\ head' = head /\ worker[j] \in Workers /\ sha[j] \in Heads
      BY <1>2, <2>1 DEF Alone, Fields
    <2>6. ASSUME NEW how \in Results, End(j, how), how = "rejected" => head > sha[j]
          PROVE  Grounded(j)'
      <3>1. pc'[j] = "ended" /\ result'[j] = how
            /\ (how = "rejected" => sha'[j] = sha[j])
        BY <1>2, <2>4, <2>6 DEF End, Fields
      <3>2. QED
        BY <2>5, <2>6, <3>1 DEF Grounded, OnLoop, DataRequests
    <2>7. pc[j] # "ended" => result[j] = "none"
      BY <1>2 DEF Grounded
    <2> SUFFICES Grounded(j)'
      BY <2>3 DEF AllGrounded
    <2>8. CASE BeginJob(j)
      <3>1. PICK h \in 1..head :
               /\ sha' = [sha EXCEPT ![j] = h]
               /\ GoTo(j, IF diffs[worker[j]][h] = Nothing THEN "authorize" ELSE "reviewing")
        BY <2>8 DEF BeginJob
      <3>2. sha'[j] = h /\ pc'[j] \in {"authorize", "reviewing"}
            /\ (pc'[j] = "reviewing" => diffs[worker[j]][h] # Nothing)
        BY <1>2, <2>4, <3>1 DEF Fields
      <3>3. phase[j] = "fetch"
        BY <1>2, <2>8 DEF BeginJob, Grounded
      <3>4. QED
        BY <2>5, <2>7, <2>8, <3>2, <3>3 DEF BeginJob, Grounded
    <2>9. CASE Authorize(j)
      BY <1>2, <2>4, <2>5, <2>7, <2>9 DEF Authorize, Grounded, OnLoop
    <2>10. CASE GetToken(j)
      <3>1. pc[j] = "token" /\ pc[j] \in OnLoop /\ UNCHANGED <<phase, sha, result, diffs>>
        BY <2>10 DEF GetToken, Proceed, OnLoop
      <3>2. pc'[j] = NextRequest(j)
        BY <2>4, <2>10 DEF GetToken, Proceed
      <3>3. pc'[j] \in {"diff", "marker"} /\ (pc'[j] = "marker" => phase[j] = "post")
        BY <1>2, <3>2 DEF NextRequest, Fields
      <3>4. QED
        BY <1>2, <2>5, <2>7, <3>1, <3>3 DEF Grounded
    <2>11. CASE Unauthorized(j) \/ Unavailable(j)
      BY <2>6, <2>11 DEF Unauthorized, Unavailable, Results
    <2>12. CASE FetchDiff(j)
      BY <1>2, <2>4, <2>5, <2>7, <2>12 DEF FetchDiff, Grounded, OnLoop, DataRequests
    <2>13. CASE FetchPage(j)
      <3>1. pc[j] = "files" /\ UNCHANGED <<phase, sha, result>>
        BY <2>13 DEF FetchPage
      <3>2. CASE GoTo(j, "files") /\ UNCHANGED diffs
        BY <1>2, <2>4, <2>5, <2>7, <3>1, <3>2 DEF Grounded, OnLoop, DataRequests
      <3>3. CASE GoTo(j, "reviewing") /\ diffs'[worker[j]][sha[j]] # Nothing
        BY <2>4, <2>5, <2>7, <3>1, <3>3 DEF Grounded
      <3>4. Len(Page(entry[j].page)) < PageSize => diffs'[worker[j]][sha[j]] # Nothing
        BY <1>1, <2>13, LastPageStored
      <3>5. QED
        BY <2>13, <3>2, <3>3, <3>4 DEF FetchPage
    <2>14. CASE FindMarker(j)
      <3>1. CASE GoTo(j, "post") /\ UNCHANGED <<phase, sha, result>>
        BY <1>2, <2>4, <2>5, <2>7, <2>14, <3>1 DEF FindMarker, Grounded, OnLoop, DataRequests
      <3>2. QED
        BY <2>6, <2>14, <3>1 DEF FindMarker, Results
    <2>15. CASE PostReview(j)
      <3>1. CASE End(j, "posted")
        BY <2>6, <3>1 DEF Results
      <3>2. CASE ~Accepted(j) /\ End(j, "rejected")
        <4>1. head > sha[j]
          BY <1>1, <1>2, <2>15, <3>2, AcceptedUnlessMoved DEF PostReview
        <4>2. QED
          BY <2>6, <3>2, <4>1 DEF Results
      <3>3. QED
        BY <2>15, <3>1, <3>2 DEF PostReview
    <2>16. CASE BeginPost(j)
      <3>1. pc[j] = "reviewing" /\ pc'[j] = "authorize" /\ UNCHANGED <<sha, result, diffs>>
        BY <2>4, <2>16 DEF BeginPost
      <3>2. QED
        BY <1>2, <2>5, <2>7, <3>1 DEF Grounded
    <2>17. QED
      BY <1>5, <2>8, <2>9, <2>10, <2>11, <2>12, <2>13, <2>14, <2>15, <2>16 DEF JobStep
  <1>6. QED
    BY <1>1, <1>4, <1>5 DEF Next

\* github_client.py:603-611: GitHub never refuses a review for one of its
\* lines unless the pull request has left the commit the review is about.
THEOREM AlwaysRejectedOnlyIfMoved == Spec => []RejectedOnlyIfMoved
  <1>1. Init => AllGrounded
    BY DEF Init, AllGrounded, Grounded, OnLoop, DataRequests
  <1>2. Typed /\ AllGrounded => RejectedOnlyIfMoved
    <2>1. SUFFICES ASSUME Typed, AllGrounded, NEW j \in Jobs, result[j] = "rejected"
                   PROVE  head # sha[j]
      BY DEF RejectedOnlyIfMoved
    <2>2. head > sha[j] /\ head \in Nat /\ sha[j] \in Nat
      BY <2>1, Constants DEF AllGrounded, Grounded, Typed, Fields
    <2>3. QED
      BY <2>2
  <1>3. QED
    BY <1>1, <1>2, GroundedStep, TypedAlways, FetchAlways, PTL DEF Spec
=============================================================================
