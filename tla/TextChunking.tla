---------------------------- MODULE TextChunking ----------------------------
(***************************************************************************)
(* TextParser.ParseText (parser/formats/text.go) with the strategy of the  *)
(* engine, by sentences.  A text is the sequence of the lengths of its     *)
(* sentences; a piece of it is a sequence of their indices, joined by one  *)
(* blank, or a window of one sentence that is too large.  config has       *)
(* MaxSize, MinSize and Overlap as NewTextParser leaves them.              *)
(*                                                                         *)
(* For the chunkers that cut by paragraphs or at a fixed size it is a text *)
(* character by character: <<kind, position>>, with "x" a letter, "." the  *)
(* end of a sentence, "n" a line break, " " a blank; one that a chunker    *)
(* adds has position 0.                                                    *)
(*                                                                         *)
(* The text is one of single-byte characters: the code compares the length *)
(* of a sentence in runes and that of a chunk in bytes.                    *)
(***************************************************************************)
EXTENDS Naturals, Sequences, FiniteSets, SequencesExt

\* NewTextParser: the window must go forward.
Normalized(config) ==
  [config EXCEPT !.overlap = IF @ >= config.max THEN config.max - 1 ELSE @]

\* The length of the joined sentences.
Length(text, piece) ==
  IF piece = <<>> THEN 0
  ELSE FoldLeft(LAMBDA n, i : n + text[i], 0, piece) + Len(piece) - 1

\* splitLargeUnit: windows of MaxSize that overlap.
Windows(length, config) ==
  LET step == config.max - config.overlap
  IN  {[from |-> k * step, to |-> IF k * step + config.max > length THEN length
                                  ELSE k * step + config.max] :
         k \in {n \in 0..length : n = 0 \/ (n - 1) * step + config.max < length}}

\* getOverlapSentences: the last sentence, and those before it that fit.
OverlapSentences(text, sentences, config) ==
  IF sentences = <<>> \/ config.overlap = 0 THEN <<>>
  ELSE LET fits(k) == k = Len(sentences)
                      \/ Length(text, SubSeq(sentences, k, Len(sentences))) + 1 <= config.overlap
           first == Min({k \in 1..Len(sentences) : \A j \in k..Len(sentences) : fits(j)})
       IN  SubSeq(sentences, first, Len(sentences))

\* A chunk is made of what has been gathered if that is not too short.
Emit(text, state, config) ==
  IF state.current # <<>> /\ Length(text, state.current) >= config.min
  THEN Append(state.chunks, state.current) ELSE state.chunks

\* Mutant of Gather: a sentence that does not fit is lost with the overlap.
GatherWithoutSentence(text, config, state, i) ==
  LET overlap == OverlapSentences(text, state.sentences, config)
  IN  IF Length(text, state.current) + text[i] + 1 > config.max /\ state.current # <<>>
      THEN [state EXCEPT !.chunks = Emit(text, state, config),
                         !.current = overlap, !.sentences = overlap]
      ELSE [state EXCEPT !.current = Append(@, i), !.sentences = Append(@, i)]

\* One sentence.  sentences follows current, but keeps an overlap that did not
\* fit.
Gather(text, config, state, i) ==
  LET overlap == OverlapSentences(text, state.sentences, config)
  IN  IF text[i] > config.max
      THEN [chunks |-> Append(Emit(text, state, config), <<i>>), current |-> <<>>, sentences |-> <<>>]
      ELSE IF Length(text, state.current) + text[i] + 1 > config.max /\ state.current # <<>>
      THEN [chunks |-> Emit(text, state, config),
            current |-> IF Length(text, Append(overlap, i)) <= config.max
                        THEN Append(overlap, i) ELSE <<i>>,
            sentences |-> Append(overlap, i)]
      ELSE [state EXCEPT !.current = Append(@, i), !.sentences = Append(@, i)]

\* chunkBySentence.  If nothing is long enough, all of it is one chunk.
Chunks(text, config) ==
  LET all == [i \in DOMAIN text |-> i]
      end == FoldLeft(LAMBDA state, i : Gather(text, config, state, i),
                      [chunks |-> <<>>, current |-> <<>>, sentences |-> <<>>], all)
      chunks == Emit(text, end, config)
  IN  IF chunks = <<>> /\ text # <<>> THEN <<all>> ELSE chunks

-----------------------------------------------------------------------------
\* With MinSize at most half of MaxSize (both configurations of the engine):
\* no chunk is longer than MaxSize, the windows of a large sentence leave no
\* character out, and what is between two chunks, or after the last, and in
\* none of them is shorter than MinSize (text.go:192, text.go:227).
LosesLittle(text, config) ==
  LET chunks == Chunks(text, config)
      kept == UNION {ToSet(chunks[n]) : n \in DOMAIN chunks}
      Large(chunk) == Len(chunk) = 1 /\ text[chunk[1]] > config.max
  IN  /\ \A chunk \in ToSet(chunks) :
           IF Large(chunk)
           THEN \A p \in 1..text[chunk[1]] : \E w \in Windows(text[chunk[1]], config) :
                  w.from < p /\ p <= w.to /\ w.to - w.from <= config.max
           ELSE Length(text, chunk) <= config.max
      /\ \A i, j \in DOMAIN text :
           (i <= j /\ (i..j) \cap kept = {}) =>
             Length(text, [n \in 1..(j - i + 1) |-> i + n - 1]) < config.min

-----------------------------------------------------------------------------
(* Character by character.                                                 *)

Break == <<<<"n", 0>>, <<"n", 0>>>>
Blank1 == <<<<" ", 0>>>>

\* A document whose i-th character is of the kind kinds[i].
Document(kinds) == [i \in DOMAIN kinds |-> <<kinds[i], i>>]

\* strings.TrimSpace
TrimSpace(piece) ==
  LET ink == {i \in DOMAIN piece : piece[i][1] \in {"x", "."}}
  IN  IF ink = {} THEN <<>> ELSE SubSeq(piece, Min(ink), Max(ink))

Joined(piece, separator, next) ==
  IF piece = <<>> THEN next ELSE piece \o separator \o next

\* strings.Split at two line breaks; the pattern of TextParser takes the blanks
\* around them too, which are trimmed here.
SplitParagraphs(content) ==
  LET Next1(paras, c) ==
        LET last == Last(paras)
        IN  IF c[1] = "n" /\ last # <<>> /\ Last(last)[1] = "n"
            THEN Append(Front(paras), Front(last)) \o <<<<>>>>
            ELSE Append(Front(paras), Append(last, c))
  IN  FoldLeft(Next1, <<<<>>>>, content)

\* The windows of a piece: they begin step apart and the last one is the first
\* that comes within slack of the end.
WindowsOf(piece, max, step, slack) ==
  LET n == Len(piece)
      end(k) == IF k * step + max > n THEN n ELSE k * step + max
      reached == {k \in 0..n : k * step + slack < n /\ \A j \in 0..n : j < k => end(j) + slack < n}
  IN  [k \in 1..Cardinality(reached) |-> TrimSpace(SubSeq(piece, (k - 1) * step + 1, end(k - 1)))]

LongEnough(pieces, min) == SelectSeq(pieces, LAMBDA piece : Len(piece) >= min)

-----------------------------------------------------------------------------
\* getLastNChars
LastChars(piece, n) == IF Len(piece) <= n THEN piece ELSE SubSeq(piece, Len(piece) - n + 1, Len(piece))

\* A chunk is made of what has been gathered if that is long enough.
Flushed(state, config) ==
  IF state.current # <<>> /\ Len(state.current) >= config.min
  THEN Append(state.chunks, state.current) ELSE state.chunks

\* What the next chunk begins with.
Restarted(current, para, config) ==
  LET candidate == LastChars(current, config.overlap) \o Break \o para
  IN  IF config.overlap > 0 /\ Len(current) > config.overlap /\ Len(candidate) <= config.max
      THEN candidate ELSE para

\* One paragraph.  Too little to be a chunk waits behind a large paragraph.
AddParagraph(config, state, para) ==
  IF para = <<>> THEN state
  ELSE IF Len(para) > config.max
  THEN [chunks |-> Flushed(state, config)
                   \o LongEnough(WindowsOf(para, config.max, config.max - config.overlap, 0), 1),
        current |-> IF Len(state.current) >= config.min THEN <<>> ELSE state.current]
  ELSE IF Len(state.current) + Len(para) + 2 > config.max /\ state.current # <<>>
  THEN [chunks |-> Flushed(state, config), current |-> Restarted(state.current, para, config)]
  ELSE [state EXCEPT !.current = Joined(@, Break, para)]

\* TextParser.chunkByParagraph
ByParagraph(content, config) ==
  LET paras == SplitParagraphs(content)
      end == FoldLeft(LAMBDA state, para : AddParagraph(config, state, TrimSpace(para)),
                      [chunks |-> <<>>, current |-> <<>>], paras)
      chunks == Flushed(end, config)
  IN  IF chunks = <<>> /\ TrimSpace(content) # <<>> THEN <<TrimSpace(content)>> ELSE chunks

\* TextParser.chunkByFixedSize: a text shorter than MinSize has no chunk.
ByFixedSize(content, config) ==
  LongEnough(WindowsOf(content, config.max, config.max - config.overlap, 0), config.min)

-----------------------------------------------------------------------------
\* The letters of the document in a piece, by position.
Positions(piece) == {piece[i][2] : i \in {k \in DOMAIN piece : piece[k][1] = "x"}}
PositionsIn(chunks) == UNION {Positions(chunks[k]) : k \in DOMAIN chunks}

\* A piece has the letters of the document in their order.
InOrder(piece) ==
  LET letters == SelectSeq(piece, LAMBDA c : c[1] = "x")
  IN  \A i \in 1..Len(letters) - 1 : letters[i][2] < letters[i + 1][2]

\* No n letters that follow each other are all in none of the chunks.
NoGap(document, chunks, n) ==
  LET lost == Positions(document) \ PositionsIn(chunks)
      kept == Positions(document) \ lost
  IN  \A i, j \in lost :
        (i <= j /\ (i..j) \cap kept = {}) => Cardinality((i..j) \cap lost) < n

Dense(document) == \A i \in DOMAIN document : document[i][1] \in {"x", "."}

\* With MinSize less than half of MaxSize: cut by paragraphs, no chunk is longer
\* than MaxSize and no MinSize letters in a row are lost; cut at a fixed size,
\* none are unless blanks fill the windows (text.go:135, text.go:284).
CutsLoseLittle(document, config) ==
  LET chunks == ByParagraph(document, config)
  IN  /\ \A k \in DOMAIN chunks : Len(chunks[k]) <= config.max /\ InOrder(chunks[k])
      /\ NoGap(document, chunks, config.min)
      /\ Dense(document) => NoGap(document, ByFixedSize(document, config), config.min)

-----------------------------------------------------------------------------
(* StreamingParser (parser/stream/streaming.go): a document arrives in     *)
(* reads of any length; what is gathered is cut into chunks as soon as it  *)
(* is large enough, and what may be incomplete is put before the next read.*)
(* ChunkOverlap is less than MaxChunkSize, or cutting at a fixed size      *)
(* would not end.  The configuration does not change under way.            *)

CONSTANT
  Documents  \* what is streamed: [kinds, strategy, config]; strategy is
             \* "paragraph", "sentence" or "fixed"

VARIABLE stream  \* the call: see Opened

\* rest: what has not been read.  buffer, overlap: as in the code.
Opened(d) ==
  [at |-> "read", document |-> Document(d.kinds), strategy |-> d.strategy, config |-> d.config,
   rest |-> Document(d.kinds), buffer |-> <<>>, overlap |-> <<>>, chunks |-> <<>>]

NoStream == [at |-> "none"]

\* chunkBufferByParagraph: what has been gathered makes room for a paragraph
\* that does not fit, and is dropped when it is short.
MakeRoom(state, para, config) ==
  IF Len(state.current) + Len(para) > config.max /\ state.current # <<>>
  THEN [chunks |-> Flushed(state, config), current |-> <<>>] ELSE state

GatherParagraph(config, state, para) ==
  IF para = <<>> THEN state
  ELSE LET room == MakeRoom(state, para, config)
       IN  [room EXCEPT !.current = Joined(@, Break, para)]

\* The last paragraph may be incomplete: it is left if it does not fit.
CutByParagraph(content, config) ==
  LET paras == [k \in DOMAIN SplitParagraphs(content) |-> TrimSpace(SplitParagraphs(content)[k])]
      before == FoldLeft(LAMBDA state, para : GatherParagraph(config, state, para),
                         [chunks |-> <<>>, current |-> <<>>], Front(paras))
      fits == Len(before.current) + Len(Last(paras)) <= config.max
      current == IF Last(paras) = <<>> \/ ~fits THEN before.current
                 ELSE Joined(before.current, Break, Last(paras))
  IN  IF Last(paras) # <<>> /\ ~fits
      THEN [chunks |-> LongEnough(Append(before.chunks, before.current), config.min),
            overlap |-> Last(paras)]
      ELSE IF Len(current) >= config.min
      THEN [chunks |-> Append(before.chunks, current), overlap |-> <<>>]
      ELSE [chunks |-> before.chunks, overlap |-> current]

\* strings.FieldsFunc at the ends of sentences.
Fields(content) ==
  LET fields == FoldLeft(LAMBDA done, c : IF c[1] = "." THEN Append(done, <<>>)
                                          ELSE Append(Front(done), Append(Last(done), c)),
                         <<<<>>>>, content)
  IN  SelectSeq(fields, LAMBDA field : field # <<>>)

\* Every sentence ends in a full stop again.
GatherSentence(config, state, field) ==
  LET sentence == Append(TrimSpace(field), <<".", 0>>)
  IN  IF TrimSpace(field) = <<>> THEN state
      ELSE IF Len(state.current) + Len(sentence) > config.max /\ state.current # <<>>
      THEN [chunks |-> Append(state.chunks, state.current), current |-> sentence]
      ELSE [state EXCEPT !.current = Joined(@, Blank1, sentence)]

\* Mutant of ChunksLoseLittle: the last sentence is taken for complete.
CutBySentenceDropping(content, config) ==
  LET fields == Fields(content)
      before == FoldLeft(LAMBDA state, field : GatherSentence(config, state, field),
                         [chunks |-> <<>>, current |-> <<>>],
                         IF fields = <<>> THEN <<>> ELSE Front(fields))
  IN  IF Len(before.current) >= config.min
      THEN [chunks |-> Append(before.chunks, before.current), overlap |-> <<>>]
      ELSE [chunks |-> before.chunks, overlap |-> before.current]

\* chunkBufferBySentence: the last sentence is always left.
CutBySentence(content, config) ==
  LET fields == Fields(content)
      last == IF fields = <<>> THEN <<>> ELSE TrimSpace(Last(fields))
      before == FoldLeft(LAMBDA state, field : GatherSentence(config, state, field),
                         [chunks |-> <<>>, current |-> <<>>],
                         IF fields = <<>> THEN <<>> ELSE Front(fields))
  IN  IF Len(before.current) >= config.min
      THEN [chunks |-> Append(before.chunks, before.current), overlap |-> last]
      ELSE [chunks |-> before.chunks,
            overlap |-> IF last = <<>> THEN before.current ELSE Joined(before.current, Blank1, last)]

\* chunkBufferByFixedSize: the last ChunkOverlap characters come again.
CutByFixedSize(content, config) ==
  [chunks |-> LongEnough(WindowsOf(content, config.max, config.max - config.overlap, config.overlap),
                         config.min),
   overlap |-> LastChars(content, config.overlap)]

Cut(content) ==
  CASE stream.strategy = "sentence" -> CutBySentence(content, stream.config)
    [] stream.strategy = "fixed" -> CutByFixedSize(content, stream.config)
    [] OTHER -> CutByParagraph(content, stream.config)

\* processBuffer
Processed(content) ==
  IF Len(content) < stream.config.min THEN [chunks |-> <<>>, overlap |-> content] ELSE Cut(content)

\* processBufferFinal: what is left over once more is dropped.
ProcessedLast(content) ==
  IF content = <<>> THEN <<>>
  ELSE IF Cut(content).chunks = <<>> THEN <<content>> ELSE Cut(content).chunks

\* One read of n characters; a reader may say with the last ones that it is at
\* its end.
Reads(n, end) ==
  /\ stream.at = "read" /\ n <= Len(stream.rest)
  /\ end => n = Len(stream.rest)
  /\ LET content == stream.buffer \o stream.overlap \o SubSeq(stream.rest, 1, n)
         full == Len(content) >= stream.config.max \/ end
         cut == Processed(content)
     IN  stream' = [stream EXCEPT
                      !.at = IF end THEN "end" ELSE @,
                      !.rest = SubSeq(@, n + 1, Len(@)),
                      !.buffer = IF full THEN <<>> ELSE content,
                      !.overlap = IF full THEN cut.overlap ELSE <<>>,
                      !.chunks = IF full THEN @ \o cut.chunks ELSE @]

StreamEnds ==
  /\ stream.at \in {"read", "end"} /\ stream.rest = <<>>
  /\ stream' = [stream EXCEPT !.at = "done",
                  !.chunks = @ \o ProcessedLast(stream.buffer) \o ProcessedLast(stream.overlap)]

\* The context is cancelled, or a read fails: there is no result.
GivesUp ==
  /\ stream.at = "read" /\ stream' = [stream EXCEPT !.at = "failed", !.chunks = <<>>]

StreamStep ==
  /\ stream.at # "none"
  /\ \/ \E n \in 1..Len(stream.rest), end \in BOOLEAN : Reads(n, end)
     \/ StreamEnds \/ GivesUp

-----------------------------------------------------------------------------
\* However the document is cut into reads, its letters come in their order,
\* once unless the chunks are to overlap, and no MinChunkSize of them in a row
\* are lost; by sentences only the last sentence may be (streaming.go:224: the
\* remainder of the last buffer is dropped).
StreamKeeps ==
  stream.at = "done" =>
    LET chunks == stream.chunks
        document == stream.document
        lost == Positions(document) \ PositionsIn(chunks)
        ends == {i \in DOMAIN document : document[i][1] = "."}
    IN  /\ \A k \in DOMAIN chunks : InOrder(chunks[k])
        /\ stream.strategy # "fixed" => InOrder(FlattenSeq(chunks))
        /\ IF stream.strategy = "sentence"
           THEN \A p \in lost, q \in Positions(document) :
                  p < q => q \in lost /\ (p..q) \cap ends = {}
           ELSE IF stream.strategy = "fixed" /\ ~Dense(document) THEN TRUE
           ELSE NoGap(document, chunks, stream.config.min)
=============================================================================
