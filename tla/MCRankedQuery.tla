---------------------------- MODULE MCRankedQuery ----------------------------
(* Three terms, the last of no weight: it is in every document.  Weights of *)
(* documents that make the approximate order right, wrong, and a tie.       *)
EXTENDS RankedQuery

MCTermWeights == <<4, 8, 0>>

By(f, g) == [approx |-> f, exact |-> g]
MCWeighings ==
  {By([d \in Docs |-> 1], [d \in Docs |-> 1 + (d % 2)]),
   By([d \in Docs |-> IF d = 0 THEN 1 ELSE 2], [d \in Docs |-> IF d < 2 THEN 4 ELSE 2])}
==============================================================================
