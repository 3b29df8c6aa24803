-------------------------- MODULE MCInvertedMerge --------------------------
(* An instance of InvertedMerge for TLC: two words, three kinds of document. *)
EXTENDS InvertedMerge

TwoWords == {1, 2}

\* Documents with one of the words, with the other, with both.
ThreeTexts == {<<3, 0>>, <<0, 1>>, <<2, 1>>}
=============================================================================
