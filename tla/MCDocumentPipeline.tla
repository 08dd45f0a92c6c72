------------------------- MODULE MCDocumentPipeline -------------------------
(***************************************************************************)
(* Instances of DocumentPipeline for TLC.                                  *)
(***************************************************************************)
EXTENDS DocumentPipeline, TLC

CONSTANTS s1, i1, i2, t1, t2, u1, d1, d2, w1, w2, o1

OneSource == [i \in Items |-> s1]
OneUrl == [t \in Texts |-> u1]

\* Two articles, and the default normalizer, which makes the second text of
\* either
Articles == [i \in Items |-> IF i = i1 THEN t1 ELSE t2]
AllSecond == [i \in Items |-> t2]

\* Two payloads of one release whose normalized text is the same
AllFirst == [i \in Items |-> t1]

\* An item that has a text, and one with metrics only
WithMetrics == [i \in Items |-> IF i = i1 THEN t1 ELSE None]

Symmetry == Permutations(Workers) \cup Permutations(Docs)
==============================================================================
