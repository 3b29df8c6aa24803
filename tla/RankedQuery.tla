----------------------------- MODULE RankedQuery -----------------------------
(***************************************************************************)
(* A ranked query of text/query.ranked.c: the accumulators of its terms,   *)
(* and the documents CosineGet selects by them.                            *)
(***************************************************************************)
EXTENDS Accumulators, CosineHeap

CONSTANTS
  MaxParas,   \* values of maxparas
  Weighings   \* weights of the documents: records of the functions approx and exact

\* Approximate weights are too low.  Sums are multiples of them, as a quotient, a float
\* in the code, is a whole number here.
ASSUME RankedAssumption ==
  /\ MaxParas \subseteq Nat \ {0}
  /\ \A g \in Weighings :
       /\ {g.approx, g.exact} \subseteq [Docs -> Nat \ {0}]
       /\ \A d \in Docs : g.approx[d] <= g.exact[d]
       /\ \A d \in Docs, j \in DOMAIN TermWeights : TermWeights[j] % g.approx[d] = 0

VARIABLES
  answers,    \* the documents retrieved, with their weights, best first
  asked       \* what they were selected by: maxparas, the weights, whether exact

allvars == <<vars, answers, asked>>

InitQuery ==
  /\ Init
  /\ answers = <<>>
  /\ asked = [m |-> 0]

Accumulate == stage # "added" /\ Next /\ UNCHANGED <<answers, asked>>

\* The accumulators in use: the array has one for every document.
InUse == IF query.method = "A" THEN Cardinality({x \in DOMAIN acc : acc[x].sum # 0}) ELSE Len(acc)

Select(maxparas, g, exact) ==
  LET m == IF InUse > maxparas THEN maxparas ELSE InUse
  IN /\ stage = "added" /\ asked.m = 0
     /\ answers' = CosineGet(acc, m, g.approx, g.exact, exact, query.method = "A")
     /\ asked' = [m |-> maxparas, g |-> g, exact |-> exact]
     /\ UNCHANGED vars

NextQuery ==
  \/ Accumulate
  \/ \E maxparas \in MaxParas, g \in Weighings, exact \in BOOLEAN : Select(maxparas, g, exact)

SpecQuery == InitQuery /\ [][NextQuery]_allvars

----------------------------------------------------------------------------
(* Properties.                                                             *)

\* The rank of a document by its whole sum, exactly as the answer was asked for.
RankOf(d) == Kept(d) \div (IF asked.exact THEN asked.g.exact[d] ELSE asked.g.approx[d])

\* Where each document has one accumulator the answers are the best documents: as many
\* as there are, up to maxparas, each once and with its weight, best first, and no
\* document left out is better than the last.
BestAnswers ==
  asked.m > 0 /\ Cardinality(DocsIn(acc)) = Len(acc) =>
    /\ Len(answers) = IF InUse > asked.m THEN asked.m ELSE InUse
    /\ \A x, y \in DOMAIN answers : x < y => /\ answers[x].w >= answers[y].w
                                             /\ answers[x].doc # answers[y].doc
    /\ \A x \in DOMAIN answers : answers[x].w = RankOf(answers[x].doc)
    /\ answers # <<>> =>
         \A d \in DocsIn(acc) \ DocsIn(answers) : RankOf(d) <= answers[Len(answers)].w
==============================================================================
