-------------------------------- MODULE Extraction --------------------------------
(***************************************************************************)
(* From a page to evidence (retrieval/ and agents/web_evidence.py): a text *)
(* is cut into chunks, the chunks are ranked by their words, by dense      *)
(* vectors and by a reranker, some are selected, and the extractor takes   *)
(* quotes from these, or from whole pages, into the evidence of the task.  *)
(*                                                                         *)
(* The scores of the rankers are part of the input.  A page is a sequence  *)
(* of lines, one sentence each, and a quote is a range of its lines: a     *)
(* source has one page, which never changes.                               *)
(***************************************************************************)
EXTENDS Naturals, Integers, Sequences, FiniteSets, SequencesExt, FiniteSetsExt

CONSTANTS
    Target, Overlap,     \* 1500 and 200 characters
    MinChunk,            \* half the target
    Slack,               \* a third of it
    Near,                \* half the overlap
    TopK, PerSource, TextBudget,       \* FinalSelector: 10, 3 and 20000
    RankedTop, FusedTop,               \* 20 and 30
    RankConstant,        \* k of the reciprocal rank fusion: 60
    MinQuote, MaxQuote,  \* 24 and 500 characters
    MaxPerPage,          \* 8 quotes
    MaxWithoutWords,     \* 3, when no quote has a word of the dimension
    KeywordsOf           \* DIMENSION_KEYWORDS

(* What the constants have to be; the instance is assumed to keep it. *)
ExtractionAssumption ==
    /\ {Target, Overlap, MinChunk, Slack, Near} \subseteq Nat
    /\ Overlap < Target /\ 0 < MinChunk /\ MinChunk <= Target
    /\ RankConstant \in Nat \ {0}

LOCAL Least(S) == CHOOSE x \in S : \A y \in S : x <= y
LOCAL Greatest(S) == CHOOSE x \in S : \A y \in S : x >= y
Smaller(a, b) == IF a < b THEN a ELSE b
Larger(a, b) == IF a < b THEN b ELSE a

-----------------------------------------------------------------------------
(* chunk_text_ranges: length is that of the text, bounds are the places    *)
(* after its line ends and full stops. *)

(* The last bound within reach, or the next one not far behind it. *)
ChunkEnd(start, length, bounds) ==
    LET desired == Smaller(start + Target, length)
        before == {b \in bounds : Smaller(start + MinChunk, desired) <= b /\ b <= desired}
        after == {b \in bounds : desired < b /\ b <= Smaller(length, desired + Slack)}
    IN  IF desired = length THEN length
        ELSE IF before # {} THEN Greatest(before)
        ELSE IF after # {} THEN Least(after)
        ELSE desired

(* The next chunk starts at a bound in the overlap, if there is one near   *)
(* the beginning of it. *)
NextStart(start, end, bounds) ==
    LET desired == Larger(start + 1, end - Overlap)
        nearby == {b \in bounds : desired <= b /\ b < end /\ b <= desired + Near}
        next == IF nearby = {} THEN desired ELSE Least(nearby)
    IN  IF next > start THEN next ELSE end

ChunkRanges(length, bounds) ==
    LET From[start \in 0..length] ==
            LET end == ChunkEnd(start, length, bounds) IN
            <<<<start, end>>>>
            \o (IF end >= length THEN <<>> ELSE From[NextStart(start, end, bounds)])
    IN  IF length = 0 THEN <<>> ELSE From[0]

-----------------------------------------------------------------------------
(* SourceRAGService.run on the chunks of the sources it is given: a chunk  *)
(* is [id, source, index, chars, sparse, dense, rerank], ids are ordered.  *)

LOCAL Ordered(S, Before(_, _)) ==
    [i \in 1..Cardinality(S) |->
        CHOOSE x \in S : Cardinality({y \in S : Before(y, x)}) = i - 1]

Prefix(s, n) == SubSeq(s, 1, Smaller(Len(s), n))

(* When no chunk has a word of the query the first chunks of the sources   *)
(* come first. *)
SparseRanked(chunks) ==
    IF \A c \in chunks : c.sparse = 0
    THEN Ordered(chunks, LAMBDA c, d : \/ c.index < d.index
                                       \/ c.index = d.index /\ c.id < d.id)
    ELSE Ordered(chunks, LAMBDA c, d : \/ c.sparse > d.sparse
                                       \/ c.sparse = d.sparse /\ c.id < d.id)

(* DenseRetriever.retrieve: the vectors are cached by chunk, page version  *)
(* and model, so that a cached one is what would be computed. *)
DenseRanked(chunks) ==
    Prefix(Ordered(chunks, LAMBDA c, d : \/ c.dense > d.dense
                                         \/ c.dense = d.dense /\ c.id < d.id), RankedTop)

RankIn(c, ranked) == CHOOSE i \in DOMAIN ranked : ranked[i] = c

(* 1 / (k + rank) of every ranking the chunk is in, as a fraction. *)
FusedScore(c, sparse, dense) ==
    LET parts == {<<1, RankConstant + RankIn(c, sparse)>> : x \in {c} \cap ToSet(sparse)}
        others == {<<1, RankConstant + RankIn(c, dense)>> : x \in {c} \cap ToSet(dense)}
    IN  IF parts = {} THEN CHOOSE p \in others : TRUE
        ELSE IF others = {} THEN CHOOSE p \in parts : TRUE
        ELSE LET p == CHOOSE p \in parts : TRUE
                 q == CHOOSE q \in others : TRUE
             IN  <<p[2] + q[2], p[2] * q[2]>>

(* ReciprocalRankFusion.fuse. *)
Fused(sparse, dense) ==
    LET found == {[chunk |-> c, score |-> FusedScore(c, sparse, dense)]
                    : c \in ToSet(sparse) \cup ToSet(dense)}
        ranked == Ordered(found,
                     LAMBDA f, g : LET ahead == f.score[1] * g.score[2] - g.score[1] * f.score[2]
                                   IN ahead > 0 \/ (ahead = 0 /\ f.chunk.id < g.chunk.id))
    IN  [i \in 1..Smaller(Len(ranked), FusedTop) |-> ranked[i].chunk]

Reranked(ranked) ==
    Ordered(ToSet(ranked), LAMBDA c, d : \/ c.rerank > d.rerank
                                         \/ c.rerank = d.rerank /\ c.id < d.id)

Ranked(chunks, mode) ==
    LET fused == Fused(Prefix(SparseRanked(chunks), RankedTop), DenseRanked(chunks)) IN
    CASE mode = "bm25_v1" -> SparseRanked(chunks)
      [] mode = "hybrid_v1" -> fused
      [] mode = "hybrid_rerank_v1" -> Reranked(fused)

CharsOf(s) == FoldLeft(LAMBDA n, c : n + c.chars, 0, s)

(* FinalSelector.select. *)
Select(ranked) ==
    FoldLeft(LAMBDA s, c :
                IF /\ Len(s) < TopK
                   /\ Len(SelectSeq(s, LAMBDA d : d.source = c.source)) < PerSource
                   /\ CharsOf(s) + c.chars <= TextBudget
                THEN Append(s, c) ELSE s,
             <<>>, ranked)

-----------------------------------------------------------------------------
(* extract_evidence_from_page on a range of the lines of a page.  A line   *)
(* is [text, chars, words, kind, named, number]: a line of kind "low" has  *)
(* a phrase that nothing is quoted with, "menu" starts like navigation and *)
(* "question" ends like a question. *)

QuoteText(page, q) == [i \in 1..(q[2] - q[1] + 1) |-> page[q[1] + i - 1].text]

LOCAL LinesOf(page, q) == {page[i] : i \in q[1]..q[2]}

QuoteChars(page, q) == MapThenSumSet(LAMBDA i : page[i].chars, q[1]..q[2])

WordsOf(page, q) == UNION {line.words : line \in LinesOf(page, q)}

(* Two or three lines are quoted together when one of them is short. *)
Spans(page, range) ==
    {q \in {<<i, j>> : i, j \in range[1]..range[2]} :
        /\ q[1] <= q[2] /\ q[2] <= q[1] + 2
        /\ q[1] < q[2] => \E line \in LinesOf(page, q) : line.chars < MinQuote
        /\ QuoteChars(page, q) \in MinQuote..MaxQuote}

Quotable(page, q, intent) ==
    /\ \A line \in LinesOf(page, q) : line.kind # "low"
    /\ page[q[1]].kind # "menu" /\ page[q[2]].kind # "question"
    /\ intent # {} => intent \cap WordsOf(page, q) # {}

QuoteScore(page, q, dimension, intent) ==
    Cardinality(KeywordsOf[dimension] \cap WordsOf(page, q))
    + 3 * Cardinality(intent \cap WordsOf(page, q))
    + (IF \E line \in LinesOf(page, q) : line.named THEN 1 ELSE 0)
    + (IF \E line \in LinesOf(page, q) : line.number THEN 1 ELSE 0)

LOCAL Width(q) == q[2] - q[1]

(* Of the quotes with one text the first is kept: lines before windows. *)
Candidates(page, range, intent) ==
    LET all == {q \in Spans(page, range) : Quotable(page, q, intent)} IN
    {q \in all : ~ \E p \in all \ {q} :
        /\ QuoteText(page, p) = QuoteText(page, q)
        /\ \/ Width(p) < Width(q)
           \/ Width(p) = Width(q) /\ p[1] < q[1]}

(* A quote with its score, the best first. *)
Quotes(page, range, dimension, intent) ==
    LET candidates == {[quote |-> q, score |-> QuoteScore(page, q, dimension, intent)]
                         : q \in Candidates(page, range, intent)}
        ranked == Ordered(candidates,
                     LAMBDA p, q : \/ p.score > q.score
                                   \/ p.score = q.score /\ p.quote[1] < q.quote[1]
                                   \/ /\ p.score = q.score /\ p.quote[1] = q.quote[1]
                                      /\ Width(p.quote) < Width(q.quote))
        telling == SelectSeq(ranked, LAMBDA q : q.score > 0)
    IN  IF telling # <<>> THEN Prefix(telling, MaxPerPage)
        ELSE Prefix(ranked, Smaller(MaxWithoutWords, MaxPerPage))

(* In hundredths, 0.58 + 0.06 for every point and 0.9 at most. *)
Confidence(score) == Smaller(90, 58 + 6 * score)

-----------------------------------------------------------------------------
(* WebEvidenceExtractorAgent.execute: a task is [competitor, dimension,    *)
(* intent]; scanned are the [source, range] of the chunks, or of the       *)
(* pages, in order.  Evidence is [source, dimension, quote, competitor,    *)
(* confidence], its span identity the first three. *)

Span(e) == <<e.source, e.dimension, e.quote>>

Found(pages, task, scan) ==
    {[source |-> scan.source, dimension |-> task.dimension, quote |-> q.quote,
      competitor |-> task.competitor, confidence |-> Confidence(q.score)]
        : q \in ToSet(Quotes(pages[scan.source], scan.range, task.dimension, task.intent))}

(* The best quotes of a page, whichever chunk they were found in. *)
PageItems(pages, task, scanned, source) ==
    LET found == UNION {Found(pages, task, s) : s \in {s \in ToSet(scanned) : s.source = source}}
    IN  Prefix(Ordered(found,
                  LAMBDA e, f : \/ e.confidence > f.confidence
                                \/ e.confidence = f.confidence /\ e.quote[1] < f.quote[1]
                                \/ /\ e.confidence = f.confidence /\ e.quote[1] = f.quote[1]
                                   /\ e.quote[2] < f.quote[2]), MaxPerPage)

\* Fault: what is stored is not looked up.
ResolvedFaulty(store, item) == item

(* A quote that is stored is not stored again. *)
Resolved(store, item) ==
    IF \E e \in ToSet(store) : Span(e) = Span(item)
    THEN CHOOSE e \in ToSet(store) : Span(e) = Span(item)
    ELSE item

(* The agent saves what is new and then fails when it has found nothing. *)
Extracted(pages, store, task, scanned) ==
    LET sources == {s.source : s \in ToSet(scanned)}
        items == [s \in sources |-> PageItems(pages, task, scanned, s)]
        resolved == UNION {{Resolved(store, i) : i \in ToSet(items[s])} : s \in sources}
        new == resolved \ ToSet(store)
    IN  [resolved |-> resolved,
         store    |-> store \o SetToSeq(new),
         failed   |-> resolved = {}]
=============================================================================
