---------------------------- MODULE MCBooleanGet ----------------------------
(* Two words with up to six postings among seven documents.                 *)
EXTENDS BooleanGet

CONSTANTS w1, w2

MCWords == {w1, w2}
Symmetry == Permutations(MCWords)
Counts == <<1, 5, 1, 2, 1, 3, 9>>
Entry(docs) == [docs |-> docs, counts |-> [j \in DOMAIN docs |-> Counts[docs[j]]]]
MCEntries ==
  {Entry(d) : d \in {<<2>>, <<1, 7>>, <<3, 4, 6>>, <<1, 2, 3, 5>>, <<2, 4, 5, 6, 7>>,
                     <<1, 2, 3, 4, 6, 7>>}}
Every(k) == [mode |-> 1, k |-> k]
MCSkips == {NoSkips, Every(1), Every(2), Every(3),
            [mode |-> 2, mins |-> 1, max_nodes |-> 2]}
============================================================================
