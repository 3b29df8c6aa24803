-------------------------- MODULE MCBoolOptimiser --------------------------
(* Queries as the grammar of bool_parser.y makes them: every tree of two     *)
(* levels of operators over two words, and, a level deeper, one such tree    *)
(* joined with "*" or a literal of a third word.  The second word may not be *)
(* in the dictionary, which makes it a "_".                                  *)
EXTENDS BoolOptimiser

CONSTANTS t1, t2, t3

Joined(S, T) == {Node(tag, <<s, t>>) : tag \in {"and", "or"}, s \in S, t \in T}

Leaves == {Term(t1), Term(t2)}
Level1 == Leaves \cup {Not(s) : s \in Leaves} \cup Joined(Leaves, Leaves)
Level2 == Level1 \cup {Not(s) : s \in Level1} \cup Joined(Level1, Level1)
Sides  == {Term(t3), Not(Term(t3)), All}

MCQueries == Level2 \cup Joined(Sides, Level2) \cup Joined(Level1, Sides)

MCCounts ==
  {[w \in Words |-> CASE w = t1 -> 2 [] w = t3 -> 1 [] OTHER -> n] : n \in {0, 3}}
==============================================================================
