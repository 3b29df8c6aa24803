---------------------------- MODULE MCInversion ----------------------------
(* Up to MaxDocs documents over two words, some with many occurrences so   *)
(* that a chunk fills after a document or two.                             *)
EXTENDS Inversion

MCWords == {1, 2}
Doc(a, b) == [w \in MCWords |-> IF w = 1 THEN a ELSE b]
MCDocuments == {Doc(0, 0), Doc(1, 3), Doc(130, 0), Doc(1, 120)}
MCBufferSizes == {15}
MCChunkLimits == {0, 1, 2}
============================================================================
