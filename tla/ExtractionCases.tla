------------------------------ MODULE ExtractionCases ------------------------------
(***************************************************************************)
(* Small inputs of Extraction: texts of up to 12 characters with any       *)
(* bounds; three chunks of two sources with any scores; and a page of      *)
(* three lines from which two research tasks extract, one after the other. *)
(***************************************************************************)
EXTENDS Naturals, Sequences, FiniteSets, SequencesExt, CaseInputs

EX == INSTANCE Extraction WITH
        Target <- 6, Overlap <- 2, MinChunk <- 3, Slack <- 2, Near <- 1,
        TopK <- 2, PerSource <- 1, TextBudget <- 3, RankedTop <- 2, FusedTop <- 3,
        RankConstant <- 60, MinQuote <- 24, MaxQuote <- 70, MaxPerPage <- 2,
        MaxWithoutWords <- 1, KeywordsOf <- [feature |-> {"a"}, pricing |-> {"b"}]

ChunkingCase ==
    /\ Begin("chunking")
    /\ \E length \in 0..12 : \E bounds \in SUBSET (1..length) :
          input' = [length |-> length, bounds |-> bounds \cup ({length} \ {0})]

RetrievalCase ==
    /\ Begin("retrieval")
    /\ \E mode \in {"bm25_v1", "hybrid_v1", "hybrid_rerank_v1"},
          sparse, dense \in [1..3 -> 0..2], chars \in [1..3 -> 1..2] :
          input' = [mode |-> mode,
                    chunks |-> {[id |-> i, source |-> IF i = 3 THEN 2 ELSE 1,
                                 index |-> IF i = 2 THEN 2 ELSE 1, chars |-> chars[i],
                                 sparse |-> sparse[i], dense |-> dense[i],
                                 rerank |-> (sparse[i] + 2 * dense[i]) % 4] : i \in 1..3}]

LOCAL PageLine(text, chars, words, kind, named) ==
    [text |-> text, chars |-> chars, words |-> words, kind |-> kind,
     named |-> named, number |-> FALSE]

PageLines ==
    {PageLine("x", 30, {"a"}, "plain", FALSE), PageLine("y", 30, {}, "plain", FALSE),
     PageLine("z", 10, {"a", "b"}, "plain", FALSE), PageLine("q", 30, {"b"}, "question", TRUE),
     PageLine("m", 10, {}, "menu", FALSE), PageLine("l", 30, {"a", "b"}, "low", FALSE)}

ExtractionTasks ==
    [competitor : {1, 2}, dimension : {"feature"}, intent : {{}, {"b"}}]

LOCAL Scan(from, to) == [source |-> 1, range |-> <<from, to>>]

ExtractionCase ==
    /\ Begin("extraction")
    /\ \E page \in [1..3 -> PageLines], first, second \in ExtractionTasks,
          scanned \in {<<Scan(1, 3)>>, <<Scan(1, 2), Scan(2, 3)>>, <<Scan(2, 3)>>} :
          input' = [page |-> page, first |-> first, second |-> second, scanned |-> scanned]

-----------------------------------------------------------------------------

(* The chunks of a text cover it, in order: each begins in the one before  *)
(* or at its end, ends behind it, so that no chunk is part of another, and *)
(* no chunk is longer than the target and the slack, or, but for the last, *)
(* shorter than the least chunk. *)
ChunksCover ==
    topic = "chunking" =>
        LET ranges == EX!ChunkRanges(input.length, input.bounds) IN
        /\ ranges = <<>> <=> input.length = 0
        /\ \A i \in DOMAIN ranges :
              LET r == ranges[i] IN
              /\ i = 1 => r[1] = 0
              /\ i = Len(ranges) => r[2] = input.length
              /\ r[2] - r[1] <= 6 + 2
              /\ i < Len(ranges) => r[2] - r[1] >= 3
              /\ i > 1 => ranges[i-1][1] < r[1] /\ r[1] <= ranges[i-1][2] /\ ranges[i-1][2] < r[2]

(* The fusion keeps to what both rankings agree on; the selection keeps to *)
(* its bounds, leaves a chunk out only when one of them is reached by      *)
(* chunks ranked before it, and is never empty, which would fail the       *)
(* extraction after the paid calls of the search. *)
RetrievalIsFair ==
    topic = "retrieval" =>
        LET ranked == EX!Ranked(input.chunks, input.mode)
            selected == EX!Select(ranked)
            sparse == EX!SparseRanked(input.chunks)
            dense == EX!DenseRanked(input.chunks)
            Ahead(c, d, s) == /\ {c, d} \subseteq ToSet(s)
                              /\ EX!RankIn(c, s) < EX!RankIn(d, s)
            Earlier(c) == SelectSeq(selected, LAMBDA d : Ahead(d, c, ranked))
        IN
        /\ selected # <<>>
        /\ Len(selected) <= 2 /\ EX!CharsOf(selected) <= 3
        /\ \A c, d \in ToSet(selected) : c # d => c.source # d.source
        /\ \A c \in ToSet(ranked) \ ToSet(selected) :
              \/ Len(Earlier(c)) = 2
              \/ \E d \in ToSet(Earlier(c)) : d.source = c.source
              \/ EX!CharsOf(Earlier(c)) + c.chars > 3
        /\ input.mode = "hybrid_v1" =>
              \A c, d \in ToSet(ranked) :
                 Ahead(c, d, EX!Prefix(sparse, 2)) /\ Ahead(c, d, dense) => Ahead(c, d, ranked)

(* Evidence is quoted from what was scanned, of the dimension of its task, *)
(* and is stored once, by whichever task it is found first; a quote with a *)
(* word of the dimension or of the intent is never passed over for one     *)
(* without; and to extract again for a task adds nothing. *)
EvidenceIsStoredOnce ==
    /\ ChunksCover /\ RetrievalIsFair
    /\ topic = "extraction" =>
          LET Work(store, task) == EX!Extracted(<<input.page>>, store, task, input.scanned)
              Plain(e) == e.confidence = 58
          IN
          \E one \in {Work(<<>>, input.first)} :
          \E two \in {Work(one.store, input.second)} :
          \E again \in {Work(two.store, input.first)} :
             /\ \A i, j \in DOMAIN two.store :
                   EX!Span(two.store[i]) = EX!Span(two.store[j]) => i = j
             /\ again.store = two.store /\ again.resolved = one.resolved
             /\ again.failed = one.failed
             /\ \A e \in two.resolved :
                   /\ \E s \in ToSet(input.scanned) :
                         s.range[1] <= e.quote[1] /\ e.quote[2] <= s.range[2]
                   /\ e.competitor \in {input.first.competitor, input.second.competitor}
                   /\ input.second.intent # {} =>
                         input.second.intent \cap EX!WordsOf(input.page, e.quote) # {}
             /\ Len(input.scanned) = 1 /\ (\E e \in one.resolved : Plain(e)) =>
                   \A e \in one.resolved : Plain(e)
=============================================================================
