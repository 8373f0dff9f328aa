------------------------------- MODULE Chunking ------------------------------
(***************************************************************************)
(* From raw chunks to the pieces that are stored: count_tokens and         *)
(* split_text_by_tokens (incidentops/ingestion/chunking/chunker.py) and    *)
(* the chunk loop of _index_one_document with its bounded fallback         *)
(* (incidentops/ingestion/indexer.py).  Texts are numbers of words.        *)
(***************************************************************************)
EXTENDS Parsers

CONSTANTS
  MaxChunkTokens,  \* settings.max_chunk_tokens
  OverlapTokens,   \* overlap_tokens of split_text_by_tokens
  MaxChunks        \* settings.max_chunks_per_document

\* split_text_by_tokens does not end when the overlap is as long as the chunk.
ASSUME ChunkingAssumption ==
  /\ {MaxChunkTokens, OverlapTokens, MaxChunks} \subseteq Nat \ {0}
  /\ (10 * MaxChunkTokens) \div 13 > (10 * OverlapTokens) \div 13

\* int(words * 1.3) and int(tokens / 1.3)
CountTokens(words) == (13 * words) \div 10
WordsFor(tokens)   == (10 * tokens) \div 13

Ceil(a, b)    == (a + b - 1) \div b
Larger(a, b)  == IF a > b THEN a ELSE b
Smaller(a, b) == IF a < b THEN a ELSE b

\* Mutant: the next piece starts after the overlap instead of before it.
SplitTextByTokens_Skips(words) ==
  LET step == WordsFor(MaxChunkTokens) + WordsFor(OverlapTokens)
  IN {[at |-> s, words |-> Smaller(WordsFor(MaxChunkTokens), words - s)] :
        s \in {s \in 0 .. words - 1 : s % step = 0}}

\* The pieces of a text: where each begins and how many words it has.  The last
\* ones may hold nothing but overlap.
SplitTextByTokens(words) ==
  LET step == WordsFor(MaxChunkTokens) - WordsFor(OverlapTokens)
  IN IF words <= WordsFor(MaxChunkTokens) THEN {[at |-> 0, words |-> words]}
     ELSE {[at |-> s, words |-> Smaller(WordsFor(MaxChunkTokens), words - s)] :
             s \in {s \in 0 .. words - 1 : s % step = 0}}

\* Overlap is not accounted for: the split may give more pieces.
EstimateChunkSegments(raws) ==
  LET Segments(words) == Larger(1, Ceil(Larger(1, CountTokens(words)), MaxChunkTokens))
      total[k \in 0 .. Len(raws)] == IF k = 0 THEN 0 ELSE total[k - 1] + Segments(raws[k].words)
  IN total[Len(raws)]

-----------------------------------------------------------------------------
(* _build_bounded_fallback_chunks                                           *)

TargetTokens(lines) ==
  LET total == Larger(1, CountTokens(WordsIn(lines, 1, Len(lines))))
      count == Smaller(MaxChunks, Larger(1, Ceil(total, MaxChunkTokens)))
  IN Larger(MaxChunkTokens, Ceil(total, count))

\* The chunk that began at built.from ends.  One without words ends the loop, and
\* so does the limit; what is left of the lines is dropped.
CloseChunk(lines, built, to) ==
  LET chunk == RawChunk(lines, built.from, to)
  IN IF chunk.words = 0 THEN [built EXCEPT !.stopped = TRUE]
     ELSE [chunks  |-> Append(built.chunks, chunk), from |-> to + 1,
           stopped |-> Len(built.chunks) + 1 >= MaxChunks]

\* Line i joins the open chunk unless that makes it too long.
TakeLine(lines, built, i) ==
  LET Full(b, limit) == ~b.stopped /\ CountTokens(WordsIn(lines, b.from, i)) >= limit
      opened == IF built.from < i /\ Full(built, TargetTokens(lines) + 1)
                THEN CloseChunk(lines, built, i - 1) ELSE built
  IN IF Full(opened, TargetTokens(lines)) THEN CloseChunk(lines, opened, i) ELSE opened

BoundedFallbackChunks(lines) ==
  LET built[i \in 0 .. Len(lines)] ==
        IF i = 0 THEN [chunks |-> <<>>, from |-> 1, stopped |-> FALSE]
        ELSE TakeLine(lines, built[i - 1], i)
      last == built[Len(lines)]
  IN IF last.stopped \/ last.from > Len(lines) THEN last.chunks
     ELSE CloseChunk(lines, last, Len(lines)).chunks

-----------------------------------------------------------------------------
\* The raw chunks that are cut into pieces.
NeedsFallback(doc) == EstimateChunkSegments(Parse(doc)) > MaxChunks

RawChunks(doc) == IF NeedsFallback(doc) THEN BoundedFallbackChunks(doc.lines) ELSE Parse(doc)

\* Mutant: a chunk is measured in words.
SubTexts_ByWords(words) ==
  IF words > MaxChunkTokens THEN SplitTextByTokens(words) ELSE {[at |-> 0, words |-> words]}

SubTexts(words) ==
  IF CountTokens(words) > MaxChunkTokens THEN SplitTextByTokens(words)
  ELSE {[at |-> 0, words |-> words]}

\* What would be stored: raw is the number of the chunk a piece was cut from.
Pieces(doc) ==
  LET raws == RawChunks(doc)
  IN UNION {{[raw |-> k, at |-> text.at, words |-> text.words] : text \in SubTexts(raws[k].words)} :
              k \in DOMAIN raws}
=============================================================================
