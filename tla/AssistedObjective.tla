--------------------------- MODULE AssistedObjective --------------------------
(***************************************************************************)
(* The objective that the browser suggests from a note.  It picks a line   *)
(* of the note as its evidence and offers it only if the line occurs once  *)
(* and lies in one of the chunks that the server cut, which the browser    *)
(* does not have: it cuts the note again by itself.  The server looks the  *)
(* line up in its own chunks, and looks at it again whenever the page is   *)
(* read.                                                                   *)
(*                                                                         *)
(* Which lines state an objective safely is a matter of wording and left   *)
(* out: any line may be the one.                                           *)
(***************************************************************************)
EXTENDS SourceLifecycle

----------------------------------------------------------------------------
(* The browser.  A note is the immutable text of a live source.            *)

(* trim(). *)
Trimmed(t) ==
    LET seen == {i \in DOMAIN t : <<t[i]>> \notin Blank}
    IN  IF seen = {} THEN <<>> ELSE SubSeq(t, Min(seen), Max(seen))

(* The lines of a note without those that are blank. *)
Lines(note) ==
    LET breaks == {0, Len(note) + 1} \cup {i \in DOMAIN note : note[i] = "newline"}
        Between(i) == Trimmed(SubSeq(note, i + 1, Min({j \in breaks : j > i}) - 1))
    IN  {Between(i) : i \in breaks \ {Len(note) + 1}} \ {<<>>}

(* Where a text begins in another, in code units. *)
Occurrences(t, e) == {i \in 1 .. Len(t) - Len(e) + 1 : SubSeq(t, i, i + Len(e) - 1) = e}

(* chooseCanonicalChunkBoundary, the browser's copy of chooseBoundary. *)
CanonicalBoundary(points, start, maximum) ==
    LET After(S) == CHOOSE e \in S : \A other \in S : other <= e
        paragraphs == {i \in start + 2 .. maximum :
                         points[i] = <<"newline">> /\ points[i - 1] = <<"newline">>}
        lines == {i \in start + 1 .. maximum : points[i] = <<"newline">>}
        words == {i \in start + 1 .. maximum : points[i] \in Blank}
    IN  IF paragraphs # {} THEN After(paragraphs)
        ELSE IF lines # {} THEN After(lines)
        ELSE IF words # {} THEN After(words) ELSE maximum

(* isExcerptWithinCanonicalChunk: the scalars of the excerpt are all in the*)
(* first chunk that ends after its beginning.                              *)
WithinCanonicalChunk(note, e) ==
    LET points == Points(note)
        at == Len(Points(SubSeq(note, 1, Min(Occurrences(note, e)) - 1)))
        EndOf(start) ==
            IF start + MaxScalars >= Len(points) THEN Len(points)
            ELSE CanonicalBoundary(points, start, start + MaxScalars)
        FirstEnd[start \in 0 .. Len(points)] ==
            IF start >= Len(points) THEN 0
            ELSE IF EndOf(start) > at THEN EndOf(start) ELSE FirstEnd[EndOf(start)]
    IN  at + Len(Points(e)) <= FirstEnd[0]

(* Mutant: the browser does not know that the server cuts the note.        *)
SuggestsAnywhere(note, e) ==
    /\ e \in Lines(note)
    /\ \A i \in DOMAIN note : note[i] \notin {"return", "mark"}
    /\ \E i \in DOMAIN note : Occurrences(note, e) = {i}

(* advisePrimaryObjective: e may be suggested as the evidence.  A note with*)
(* control or format characters is not read at all.                        *)
Suggests(note, e) ==
    /\ e \in Lines(note)
    /\ \A i \in DOMAIN note : note[i] \notin {"return", "mark"}
    /\ \E i \in DOMAIN note : Occurrences(note, e) = {i}
    /\ WithinCanonicalChunk(note, e)

----------------------------------------------------------------------------
(* The server.                                                             *)

(* The places of an excerpt in the chunks of a source, in scalars. *)
Matches(chunks, e) ==
    UNION {{[chunk |-> c, start |-> i, end |-> i + Len(Points(e))] :
              i \in {i \in 0 .. Len(Points(chunks[c].text)) - Len(Points(e)) :
                       SubSeq(Points(chunks[c].text), i + 1, i + Len(Points(e)))
                          = Points(e)}} :
           c \in DOMAIN chunks}

(* deriveEvidenceCandidate finds exactly one place.                        *)
Derivable(chunks, e) ==
    \E m \in Matches(chunks, Normalized(e)) : Matches(chunks, Normalized(e)) = {m}

(* validEvidenceRow: the page shows a claim if the text of its source still*)
(* makes the same chunks and the span still reads as the excerpt.          *)
ShownAt(note, chunks, m, e) ==
    /\ Acceptable(Captured(note)) /\ Captured(note) = note
    /\ Chunks(Normalized(note)) = chunks
    /\ SpanExists(chunks[m.chunk].text, m.start, m.end)
    /\ Span(chunks[m.chunk].text, m.start, m.end) = e

(* The notes of the instance whose every suggestion can be proposed and is *)
(* then shown.                                                             *)
Proposable ==
    {t \in Reconstructed :
       LET note == Captured(t) IN
       \A e \in Lines(note) : Suggests(note, e) =>
          /\ Derivable(ChunksOf[t], e)
          /\ \A m \in Matches(ChunksOf[t], Normalized(e)) :
                ShownAt(note, ChunksOf[t], m, e)}

ProposableSources == {<<Captured(t), ChunksOf[t]>> : t \in Proposable}

(* What the browser suggests from a note that was captured or corrected,   *)
(* the server accepts as evidence, although each cuts the note into chunks *)
(* by a copy of the algorithm; and the claim made of it is shown.          *)
SuggestionsAreProposable ==
    \A s \in SourceIds :
       sources[s].status = "live" => <<sources[s].text, sources[s].chunks>> \in ProposableSources

=============================================================================
