------------------------------ MODULE Retrieval -----------------------------
(***************************************************************************)
(* memory/context_retriever.py and the grounding of a prompt               *)
(* (agents/base_agent.py): a query made of the symbols a diff defines, two *)
(* rankings of the stored chunks, their reciprocal rank fusion, and the    *)
(* chunks that fit the context budget.  A chunk is a row of code_chunks:   *)
(* the file it came from and the seeding that stored it.                   *)
(***************************************************************************)
EXTENDS Integers, FiniteSets, Sequences, SequencesExt

CONSTANTS
    Paths,        \* the files that have chunks
    ByVector,     \* the files, nearest to the query's embedding first
    ByText,       \* the files, best ts_rank_cd first
    Mentions,     \* per file: the symbols its chunk mentions
    SizeOf,       \* per file: the characters its block takes
    RrfK,         \* Settings.rrf_k
    TopK,         \* _RETRIEVAL_TOP_K
    Candidates,   \* hybrid_search's candidate_pool
    MaxSize,      \* _MAX_CONTEXT_CHARS, less the header
    MaxSymbols    \* _MAX_QUERY_SYMBOLS

ASSUME RetrievalConfig ==
    /\ {RrfK, TopK, MaxSymbols} \subseteq Nat \ {0}
    /\ Candidates \in Nat /\ Candidates >= TopK
    /\ {ByVector, ByText} \subseteq Seq(Paths)
    /\ ToSet(ByVector) = Paths /\ ToSet(ByText) = Paths
    /\ SizeOf \in [Paths -> Nat] /\ MaxSize \in Nat

Chunk(path, seeding) == [path |-> path, seeding |-> seeding]

\* extract_retrieval_query: the first symbols defined on added lines.  A diff
\* is the sequence of its lines, of which only the symbol an added line
\* defines matters; without any, the empty query stands for the raw text.
Query(diff) ==
    LET seen[n \in 0..Len(diff)] ==
            IF n = 0 THEN {}
            ELSE IF Cardinality(seen[n - 1]) < MaxSymbols
                 THEN seen[n - 1] \cup diff[n].defines
                 ELSE seen[n - 1]
    IN  seen[Len(diff)]

\* The elements of a finite set in a strict total order, given as pairs.
InOrder(S, order) ==
    [n \in 1..Cardinality(S) |->
        CHOOSE x \in S : Cardinality({y \in S : <<y, x>> \in order}) = n - 1]

FirstOf(s, n) == SubSeq(s, 1, IF Len(s) < n THEN Len(s) ELSE n)

\* Where a sequence without repetition has c.
Rank(hits, c) == CHOOSE i \in DOMAIN hits : hits[i] = c

\* search_vector and search_fulltext: the best rows of the table in the
\* ranker's order; plainto_tsquery asks for chunks with every word of the
\* query, and no chunk has every word of a raw diff.
RankedRows(order, rows) ==
    LET better == {p \in rows \X rows :
                      LET i == Rank(order, p[1].path)
                          j == Rank(order, p[2].path)
                      IN  i < j \/ (i = j /\ p[1].seeding < p[2].seeding)}
    IN  FirstOf(InOrder(rows, better), Candidates)

VectorHits(rows) == RankedRows(ByVector, rows)
TextHits(rows, query) ==
    RankedRows(ByText, {c \in rows : query # {} /\ query \subseteq Mentions[c.path]})

\* A chunk's fused score, the sum of 1 / (k + rank) over the rankings that
\* have it, as a fraction.
Score(vector, text, c) ==
    LET k(hits) == RrfK + Rank(hits, c)
    IN  IF c \notin ToSet(text) THEN [num |-> 1, den |-> k(vector)]
        ELSE IF c \notin ToSet(vector) THEN [num |-> 1, den |-> k(text)]
        ELSE [num |-> k(vector) + k(text), den |-> k(vector) * k(text)]

\* When a chunk enters the dict of scores.
Entry(vector, text, c) ==
    IF c \in ToSet(vector) THEN Rank(vector, c) ELSE Len(vector) + Rank(text, c)

\* c is in front of d: its score is higher, or as high and entered earlier.
InFront(vector, text, c, d) ==
    LET s == Score(vector, text, c)
        t == Score(vector, text, d)
    IN  \/ s.num * t.den > t.num * s.den
        \/ /\ s.num * t.den = t.num * s.den
           /\ Entry(vector, text, c) < Entry(vector, text, d)

\* Mutation of Fused: the hits of the second ranking follow those of the first.
FusedBehind(vector, text) == vector \o text

\* reciprocal_rank_fusion: each chunk once, those of the best scores first.
Fused(vector, text) ==
    LET chunks == ToSet(vector) \cup ToSet(text)
    IN  InOrder(chunks, {p \in chunks \X chunks : InFront(vector, text, p[1], p[2])})

\* hybrid_search.  Each search has a connection of its own, so the table may
\* have changed between them: rows1 and rows2.
HybridSearch(rows1, rows2, query) ==
    FirstOf(Fused(VectorHits(rows1), TextHits(rows2, query)), TopK)

\* format_retrieved_context: in the order given, whole chunks only, leaving
\* out each one that would exceed the budget.
Context(chunks) ==
    LET block[n \in 0..Len(chunks)] ==
            IF n = 0 THEN [used |-> 0, chunks |-> <<>>]
            ELSE LET size == block[n - 1].used + SizeOf[chunks[n].path]
                 IN  IF size > MaxSize THEN block[n - 1]
                     ELSE [used   |-> size,
                           chunks |-> Append(block[n - 1].chunks, chunks[n])]
    IN  block[Len(chunks)].chunks
=============================================================================
