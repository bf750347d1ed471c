------------------------- MODULE MCSourceLifecycle -------------------------
(* Uses of four keys: a source captured, corrected twice, erased or quoted;*)
(* a content item revised twice from one base and captured; and each of a  *)
(* set of short texts, which make up to four chunks, captured and quoted.  *)
EXTENDS AssistedObjective

CONSTANTS k1, k2, k3, k4

Plain == <<"letter">>
Other == <<"letter", "letter">>
Texts == UNION {[1 .. n -> {"letter", "space", "newline", "return"}] : n \in 1 .. 3}
            \cup UNION {[1 .. n -> {"letter", "newline", "high", "low"}] : n \in 3 .. 4}
            \cup {t \in [1 .. 6 -> {"letter", "space", "newline"}] : t[1] = "letter" /\ t[6] = "letter"}
            \cup {<<"mark", "letter">>, <<"mark", "mark">>, <<"mark", "mark", "letter">>}

KindsOf(a, b, c, d) ==
    (k1 :> a) @@ (k2 :> b) @@ (k3 :> c) @@ (k4 :> d)

MCCasts ==
    { [kinds |-> KindsOf("source.capture", "source.correct", "source.correct", "claim.create"),
       texts |-> {Plain}, classes |-> {0}],
      [kinds |-> KindsOf("source.capture", "source.correct", "source.tombstone", "claim.create"),
       texts |-> {Plain}, classes |-> {0}],
      [kinds |-> KindsOf("source.capture", "source.correct", "source.correct",
                         "source.tombstone"),
       texts |-> {Plain}, classes |-> {0, 1}],
      [kinds |-> KindsOf("content.create", "content.revise", "content.revise", "source.capture"),
       texts |-> {Plain, Other}, classes |-> {0}],
      [kinds |-> (k1 :> "source.capture") @@ (k2 :> "claim.create"),
       texts |-> {<<"newline", "letter", "high", "low">>}, classes |-> {1}] }
    \cup { [kinds |-> k1 :> "source.capture", texts |-> {t}, classes |-> {0}] : t \in Texts }

(* What the proof of TriggersNeverRefuse assumes, for all of these texts:  *)
(* no text has more than six code units.                                   *)
ASSUME TextsOfTheRun == TextsAgree(6)
=============================================================================
