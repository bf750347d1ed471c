----------------------------- MODULE SourceText -----------------------------
(***************************************************************************)
(* What happens to the text of a source: how it is captured, normalised    *)
(* and cut into chunks, how a span of a chunk is read, and the checks that *)
(* the repository, the admission of evidence and the database make of the  *)
(* result.  A text is a sequence of UTF-16 code units, as a JavaScript     *)
(* string is; a code unit stands for its class, the classes being those    *)
(* the algorithms tell apart.  Letters are composed already: what Unicode  *)
(* composition does to them is left out.                                   *)
(***************************************************************************)
EXTENDS Naturals, Sequences, SequencesExt

CONSTANT MaxScalars   \* SOURCE_CHUNK_MAX_SCALARS

ASSUME MaxScalarsAssumption == MaxScalars \in Nat \ {0}

Units == {"letter", "space", "newline", "return", "mark", "high", "low"}

(* What trim() removes and \s matches; the byte order mark is one of them. *)
Blank == {<<"space">>, <<"newline">>, <<"return">>, <<"mark">>}

(* isUnicodeScalarString: every surrogate has its other half. *)
WellFormed(t) ==
    \A i \in DOMAIN t :
       /\ t[i] = "high" => i < Len(t) /\ t[i + 1] = "low"
       /\ t[i] = "low" => i > 1 /\ t[i - 1] = "high"

(* Array.from: the scalars of a text, each with its one or two code units. *)
Points(t) ==
    LET first(i) == t[i] # "low"
        starts == SelectSeq([i \in DOMAIN t |-> i], first)
    IN  [j \in DOMAIN starts |->
            IF t[starts[j]] = "high" THEN <<"high", "low">> ELSE <<t[starts[j]]>>]

WithoutMark(t) == IF t # <<>> /\ t[1] = "mark" THEN Tail(t) ELSE t

(* The decoder of UTF-8 text drops a byte order mark at its start.         *)
Captured(t) == WithoutMark(t)

(* CR LF and a lone CR become LF.                                          *)
Newlines(t) ==
    LET apart(i) == ~(t[i] = "newline" /\ i > 1 /\ t[i - 1] = "return")
        kept == SelectSeq([i \in DOMAIN t |-> i], apart)
    IN  [j \in DOMAIN kept |->
            IF t[kept[j]] = "return" THEN "newline" ELSE t[kept[j]]]

Normalized(t) == Newlines(WithoutMark(t))

(* A text that normalizeStoredSourceText accepts.                          *)
Acceptable(t) ==
    /\ WellFormed(t)
    /\ \E i \in DOMAIN Points(Normalized(t)) : Points(Normalized(t))[i] \notin Blank

----------------------------------------------------------------------------
(* Chunks.                                                                 *)

(* chooseBoundary: the end of the chunk that begins after start: after the *)
(* last paragraph break, or else line break, or else blank, or at maximum. *)
Boundary(points, start, maximum) ==
    LET ends   == start + 1 .. maximum
        blanks == {e \in ends : points[e] \in Blank}
        lines  == {e \in ends : points[e] = <<"newline">>}
        breaks == {e \in lines : e > start + 1 /\ points[e - 1] = <<"newline">>}
    IN  CASE breaks # {} -> Max(breaks)
          [] breaks = {} /\ lines # {} -> Max(lines)
          [] lines = {} /\ blanks # {} -> Max(blanks)
          [] blanks = {} -> maximum

ChunkEnd(points, start) ==
    IF start + MaxScalars >= Len(points) THEN Len(points)
    ELSE Boundary(points, start, start + MaxScalars)

(* chunkNormalizedSource, as far as its own reconstruction check; a chunk  *)
(* that would be empty ends the work.                                      *)
Chunks(t) ==
    LET points == Points(t)
        from[start \in 0 .. Len(points)] ==
            LET end == ChunkEnd(points, start)
            IN  IF start = Len(points) \/ end <= start THEN <<>>
                ELSE << [start |-> start, end |-> end,
                         text |-> FlattenSeq(SubSeq(points, start + 1, end))] >>
                     \o from[end]
    IN  from[0]

Joined(chunks) == FlattenSeq([i \in DOMAIN chunks |-> chunks[i].text])

(* sliceUnicodeScalarSpan. *)
Span(text, start, end) == FlattenSeq(SubSeq(Points(text), start + 1, end))

SpanExists(text, start, end) ==
    WellFormed(text) /\ start < end /\ end <= Len(Points(text))

(* assertChunkReconstruction, and the same again when evidence is admitted *)
(* (verifySnapshot), which also bounds a chunk.                            *)
Reconstructs(chunks, normalized) ==
    /\ chunks # <<>>
    /\ \A i \in DOMAIN chunks :
          LET c == chunks[i] IN
          /\ c.start = IF i = 1 THEN 0 ELSE chunks[i - 1].end
          /\ SpanExists(normalized, c.start, c.end)
          /\ Span(normalized, c.start, c.end) = c.text
          /\ c.end - c.start <= MaxScalars
    /\ Joined(chunks) = normalized

(* What the triggers on source_chunks require at commit: characters of the *)
(* database are scalars.                                                   *)
ReconstructsInDatabase(chunks, normalized) ==
    /\ chunks # <<>>
    /\ \A i \in DOMAIN chunks :
          /\ chunks[i].end - chunks[i].start = Len(Points(chunks[i].text))
          /\ chunks[i].start = IF i = 1 THEN 0 ELSE chunks[i - 1].end
    /\ chunks[Len(chunks)].end = Len(Points(Joined(chunks)))
    /\ Joined(chunks) = normalized

(* substring(text FROM start + 1 FOR end - start) = excerpt.               *)
QuotesInDatabase(text, start, end, excerpt) ==
    /\ end <= Len(Points(text))
    /\ SubSeq(Points(text), start + 1, end) = Points(excerpt)

=============================================================================
