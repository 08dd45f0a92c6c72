--------------------------- MODULE MCEmbeddingWork ---------------------------
(***************************************************************************)
(* Instances of EmbeddingWork for TLC.                                     *)
(***************************************************************************)
EXTENDS EmbeddingWork, TLC

CONSTANTS w1, w2, k1, k2, q1, ingestion, chat

WorkAttempts == Chunks \X (1 .. MaxEpoch)

AllAttempts == WorkAttempts \cup Callers

LaneOfAttempt == [a \in AllAttempts |-> IF a \in Callers THEN chat ELSE ingestion]

OneUnit == [a \in AllAttempts |-> 1]

OneEmbedding == [l \in {ingestion, chat} |-> IF l = chat THEN 2 ELSE 1]

Ample == [l \in {ingestion, chat} |-> 9]

\* What the configuration gives to the constants.  TLC evaluates the body of
\* such a definition at every use of its constant, and the tables above once.
GivenAttempts == AllAttempts
GivenLanes == LaneOfAttempt
GivenUnits == OneUnit
GivenCaps == OneEmbedding

Symmetry == Permutations(Workers)
==============================================================================
