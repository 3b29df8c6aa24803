---------------------------- MODULE BoolOptimiser ----------------------------
(***************************************************************************)
(* A boolean query from its parse tree to its answer: FindNoneTerms and    *)
(* BooleanQuery of text/bool_query.c around OptimiseBoolTree of            *)
(* text/bool_optimiser.c, one action for each pass over the tree.          *)
(*                                                                         *)
(* A node is a tag and the sequence of its children; a term has its word.  *)
(* What BooleanGet does with the lists of documents is in the module       *)
(* BooleanGet: here a list is a set, and a document the set of its words,  *)
(* so that a query is asked of every document there could be.              *)
(***************************************************************************)
EXTENDS Naturals, Sequences, FiniteSets, SequencesExt

CONSTANTS
  Words,      \* words of queries
  Counts,     \* candidate doc_counts: functions on Words
  Queries,    \* parse trees
  Types,      \* values of optimise_type
  IterLimit   \* ITER_LIMIT: passes of DNF_Distribute before it gives up

Node(tag, kids) == [tag |-> tag, kids |-> kids]

Term(w) == [tag |-> "term", word |-> w, kids |-> <<>>]

Not(n) == Node("not", <<n>>)

All == Node("all", <<>>)

None == Node("none", <<>>)

Tags == {"term", "and", "or", "diff", "none", "all", "not", "or_terms"}

VARIABLES
  parsed,   \* the parse tree, for the properties
  count,    \* doc_count of each word
  type,     \* optimise_type
  tree,     \* the tree as it is now
  passes,   \* i of DNF_Distribute
  pc,       \* the pass that is next
  answer    \* the documents retrieved

vars == <<parsed, count, type, tree, passes, pc, answer>>

Init ==
  /\ parsed \in Queries
  /\ count \in Counts
  /\ type \in Types
  /\ tree = parsed
  /\ passes = 0
  /\ pc = "FindNoneTerms"
  /\ answer = {}

\* A pass: the tree it makes, and the one that follows.
Pass(this, new, next) ==
  /\ pc = this
  /\ tree' = new
  /\ pc' = next
  /\ UNCHANGED <<parsed, count, type, passes, answer>>

\* The children of a node, each replaced.
Each(n, New(_)) == [n EXCEPT !.kids = [x \in DOMAIN @ |-> New(@[x])]]

----------------------------------------------------------------------------
(* FindNoneTerms: words that are not in the dictionary.                    *)

RECURSIVE NoneTerms(_, _)
NoneTerms(n, cnt) ==
  IF n.tag = "term" THEN IF cnt[n.word] = 0 THEN None ELSE n
  ELSE Each(n, LAMBDA k : NoneTerms(k, cnt))

FindNoneTerms ==
  Pass("FindNoneTerms", NoneTerms(tree, count), IF type = 0 THEN "BooleanGet" ELSE "PermeateNots")

----------------------------------------------------------------------------
(* PermeateNots: DoubleNeg, AndDeMorgan and OrDeMorgan, down to the leaves.*)

Negated(kids) == [x \in DOMAIN kids |-> Not(kids[x])]

\* Variant: the first child keeps its sign.
DeMorganHalf(n) ==
  LET c == n.kids[1]
  IN CASE c.tag = "and" -> Node("or", <<c.kids[1], Not(c.kids[2])>>)
       [] c.tag = "or"  -> Node("and", Negated(c.kids))
       [] OTHER         -> n

DeMorgan(n) ==
  LET c == n.kids[1]
  IN CASE c.tag = "and" -> Node("or", Negated(c.kids))
       [] c.tag = "or"  -> Node("and", Negated(c.kids))
       [] OTHER         -> n

RECURSIVE Permeated(_)
Permeated(n) ==
  IF n.tag = "not" /\ n.kids[1].tag = "not" THEN Permeated(n.kids[1].kids[1])
  ELSE Each(IF n.tag = "not" THEN DeMorgan(n) ELSE n, Permeated)

PermeateNots == Pass("PermeateNots", Permeated(tree), "TF_Idempotent")

----------------------------------------------------------------------------
(* TF_Idempotent: constants, from the leaves up.                           *)

\* AndTrueFalse (unit "all", zero "none") and OrTrueFalse (the other way).
\* Variant: a single child is left below its parent.
TrueFalseLeft(n, unit, zero) ==
  LET rest == SelectSeq(n.kids, LAMBDA k : k.tag # unit)
  IN IF \E x \in DOMAIN n.kids : n.kids[x].tag = zero THEN Node(zero, <<>>)
     ELSE IF rest = <<>> THEN Node(unit, <<>>) ELSE [n EXCEPT !.kids = rest]

TrueFalse(n, unit, zero) ==
  LET rest == SelectSeq(n.kids, LAMBDA k : k.tag # unit)
  IN IF \E x \in DOMAIN n.kids : n.kids[x].tag = zero THEN Node(zero, <<>>)
     ELSE CASE Len(rest) = 0 -> Node(unit, <<>>)
            [] Len(rest) = 1 -> rest[1]
            [] OTHER         -> [n EXCEPT !.kids = rest]

RECURSIVE Idempotent(_)
Idempotent(n) ==
  LET m == Each(n, Idempotent)
  IN CASE m.tag = "not" /\ m.kids[1].tag = "all"  -> None
       [] m.tag = "not" /\ m.kids[1].tag = "none" -> All
       [] m.tag = "and" -> TrueFalse(m, "all", "none")
       [] m.tag = "or"  -> TrueFalse(m, "none", "all")
       [] OTHER         -> m

TF_Idempotent ==
  Pass("TF_Idempotent", Idempotent(tree), IF type = 2 THEN "DNF_Distribute" ELSE "CollapseTree")

----------------------------------------------------------------------------
(* DNF_Distribute: passes of AndDistribute until one changes nothing.      *)

\* (a | b) & A.  An OR on the right is taken to the left.
\* Variant: the children are swapped with or without an OR.
RECURSIVE AndSwapped(_)
AndSwapped(n) ==
  IF n.tag \notin {"and", "or"} THEN n
  ELSE IF n.tag = "and" /\ \E x \in 1 .. 2 : n.kids[x].tag = "or"
       THEN LET swap == n.kids[2].tag = "or"
                or   == IF swap THEN n.kids[2] ELSE n.kids[1]
                rest == IF swap THEN n.kids[1] ELSE n.kids[2]
            IN AndSwapped(Node("or", [x \in 1 .. 2 |-> Node("and", <<or.kids[x], rest>>)]))
       ELSE LET m == Each(n, AndSwapped)
            IN IF n.tag = "and" THEN [m EXCEPT !.kids = <<m.kids[2], m.kids[1]>>] ELSE m

\* Variant: an OR on the right is not seen.
RECURSIVE AndDistributeLeft(_)
AndDistributeLeft(n) ==
  IF n.tag = "and" /\ n.kids[1].tag = "or"
  THEN AndDistributeLeft(Node("or", [x \in 1 .. 2 |-> Node("and", <<n.kids[1].kids[x], n.kids[2]>>)]))
  ELSE Each(n, AndDistributeLeft)

RECURSIVE AndDistribute(_)
AndDistribute(n) ==
  IF n.tag \notin {"and", "or"} THEN n
  ELSE IF n.tag = "and" /\ \E x \in 1 .. 2 : n.kids[x].tag = "or"
       THEN LET swap == n.kids[2].tag = "or"
                or   == IF swap THEN n.kids[2] ELSE n.kids[1]
                rest == IF swap THEN n.kids[1] ELSE n.kids[2]
            IN AndDistribute(Node("or", [x \in 1 .. 2 |-> Node("and", <<or.kids[x], rest>>)]))
       ELSE Each(n, AndDistribute)

DNF_Distribute ==
  /\ pc = "DNF_Distribute"
  /\ tree' = AndDistribute(tree)
  /\ IF tree' = tree THEN pc' = "CollapseTree" /\ passes' = passes
     ELSE IF passes = IterLimit THEN pc' = "fatal" /\ passes' = passes
     ELSE pc' = pc /\ passes' = passes + 1
  /\ UNCHANGED <<parsed, count, type, answer>>

----------------------------------------------------------------------------
(* CollapseTree: ANDs within ANDs and ORs within ORs become one.           *)

\* Variant: of the children of a child, only the first is linked in.
RECURSIVE SplicedFirst(_, _)
SplicedFirst(tag, n) == IF n.tag = tag THEN SplicedFirst(tag, n.kids[1]) ELSE <<n>>

RECURSIVE Spliced(_, _)
Spliced(tag, n) ==
  IF n.tag = tag THEN FlattenSeq([x \in DOMAIN n.kids |-> Spliced(tag, n.kids[x])]) ELSE <<n>>

RECURSIVE Collapsed(_)
Collapsed(n) ==
  IF n.tag \notin {"and", "or"} THEN n
  ELSE LET kids == Spliced(n.tag, n)
       IN Node(n.tag, [x \in DOMAIN kids |-> Collapsed(kids[x])])

CollapseTree ==
  Pass("CollapseTree", Collapsed(tree), IF type = 2 THEN "AndSortDNF" ELSE "DiffTree")

----------------------------------------------------------------------------
(* AndNotToDiff: the negated children of an AND are taken from the others, *)
(* or, if there are no others, from the first of them.                     *)

IsNot(n) == n.tag = "not"

\* Variant: the first of the negated children is dropped with its list's head.
DiffWithout(n) ==
  LET pos == SelectSeq(n.kids, LAMBDA k : ~IsNot(k))
      neg == SelectSeq(n.kids, IsNot)
      left == IF pos = <<>> THEN <<neg[1]>> ELSE pos
      rest == Tail(neg)
  IN IF neg = <<>> THEN n
     ELSE Node("diff", <<IF Len(left) = 1 THEN left[1] ELSE Node("and", left)>>
                         \o [x \in DOMAIN rest |-> rest[x].kids[1]])

AndNotToDiff(n) ==
  LET pos == SelectSeq(n.kids, LAMBDA k : ~IsNot(k))
      neg == SelectSeq(n.kids, IsNot)
      left == IF pos = <<>> THEN <<neg[1]>> ELSE pos
      rest == IF pos = <<>> THEN Tail(neg) ELSE neg
  IN IF neg = <<>> THEN n
     ELSE Node("diff", <<IF Len(left) = 1 THEN left[1] ELSE Node("and", left)>>
                         \o [x \in DOMAIN rest |-> rest[x].kids[1]])

\* DiffTree goes on to the children of the differences it makes only.
RECURSIVE Differenced(_)
Differenced(n) ==
  LET m == AndNotToDiff(n)
  IN IF n.tag # "and" \/ m.tag # "diff" THEN n ELSE Each(m, Differenced)

DiffTree == Pass("DiffTree", Differenced(tree), "MarkOrTerms")

\* The conjuncts of a tree in DNF.
Conjuncts(n, New(_)) ==
  LET Conjunct(k) == IF k.tag = "and" THEN New(k) ELSE k
  IN IF n.tag = "or" THEN Each(n, Conjunct) ELSE Conjunct(n)

DiffDNF == Pass("DiffDNF", Conjuncts(tree, AndNotToDiff), "BooleanGet")

----------------------------------------------------------------------------
(* MarkOrTerms and the sorts.                                              *)

Terms(kids) == \A x \in DOMAIN kids : kids[x].tag = "term"

RECURSIVE Marked(_)
Marked(n) ==
  LET m == Each(n, Marked)
  IN IF n.tag = "or" /\ Terms(n.kids) THEN [m EXCEPT !.tag = "or_terms"] ELSE m

MarkOrTerms == Pass("MarkOrTerms", Marked(tree), "AndOrSort")

\* A term has its doc_count, an OR of terms their sum; others have none.
Weighed(n, tags) == n.tag \in tags

Weight(n) ==
  IF n.tag = "term" THEN count[n.word] ELSE FoldLeft(LAMBDA s, k : s + count[k.word], 0, n.kids)

\* AndSort with AndSort_comp (tags {"term"}) and AndOrSort_comp ({"term", "or_terms"}).
\* qsort leaves the order of equals open: here it is the order they had.
AndSort(n, tags) ==
  LET Before(x, y) ==
        LET a == n.kids[x] b == n.kids[y]
        IN IF Weighed(a, tags) /\ Weighed(b, tags) /\ Weight(a) # Weight(b) THEN Weight(a) < Weight(b)
           ELSE IF Weighed(a, tags) # Weighed(b, tags) THEN Weighed(a, tags) ELSE x < y
      order == SortSeq([x \in DOMAIN n.kids |-> x], Before)
  IN [n EXCEPT !.kids = [x \in DOMAIN @ |-> @[order[x]]]]

AndSortDNF ==
  Pass("AndSortDNF", Conjuncts(tree, LAMBDA k : AndSort(k, {"term"})), "DiffDNF")

RECURSIVE AndOrSorted(_)
AndOrSorted(n) ==
  Each(IF n.tag = "and" THEN AndSort(n, {"term", "or_terms"}) ELSE n, AndOrSorted)

AndOrSort == Pass("AndOrSort", AndOrSorted(tree), "BooleanGet")

----------------------------------------------------------------------------
(* BooleanGet, on sets of documents.                                       *)

Documents == SUBSET {w \in Words : count[w] > 0}

RECURSIVE Found(_, _)
Found(n, d) ==
  CASE n.tag \in {"all", "not", "none"} -> FALSE     \* "Unexpected" all and not
    [] n.tag = "term" -> n.word \in d
    [] n.tag = "and"  -> \A x \in DOMAIN n.kids : Found(n.kids[x], d)
    [] n.tag = "diff" -> Found(n.kids[1], d) /\ \A x \in 2 .. Len(n.kids) : ~Found(n.kids[x], d)
    [] n.tag \in {"or", "or_terms"} -> \E x \in DOMAIN n.kids : Found(n.kids[x], d)

Retrieved(n) == {d \in Documents : Found(n, d)}

BooleanGet ==
  /\ pc = "BooleanGet"
  /\ answer' = Retrieved(tree)
  /\ pc' = "answered"
  /\ UNCHANGED <<parsed, count, type, tree, passes>>

Next ==
  \/ FindNoneTerms
  \/ PermeateNots \/ TF_Idempotent
  \/ DNF_Distribute \/ CollapseTree \/ AndSortDNF \/ DiffDNF
  \/ DiffTree \/ MarkOrTerms \/ AndOrSort
  \/ BooleanGet

\* The program runs on by itself.
Spec == Init /\ [][Next]_vars /\ WF_vars(Next)

----------------------------------------------------------------------------
(* Properties.                                                             *)

RECURSIVE Matches(_, _)
Matches(n, d) ==
  CASE n.tag = "term" -> n.word \in d
    [] n.tag = "all"  -> TRUE
    [] n.tag = "none" -> FALSE
    [] n.tag = "not"  -> ~Matches(n.kids[1], d)
    [] n.tag = "and"  -> \A x \in DOMAIN n.kids : Matches(n.kids[x], d)
    [] n.tag = "diff" -> Matches(n.kids[1], d) /\ \A x \in 2 .. Len(n.kids) : ~Matches(n.kids[x], d)
    [] n.tag \in {"or", "or_terms"} -> \E x \in DOMAIN n.kids : Matches(n.kids[x], d)

Meaning(n) == {d \in Documents : Matches(n, d)}

\* A node has as many children as its tag asks for.  ReplaceWithChildren and
\* LastBoolSibling follow the sibling of a first child without looking.
RECURSIVE WellFormed(_)
WellFormed(n) ==
  /\ n.tag \in Tags
  /\ CASE n.tag \in {"term", "all", "none"} -> n.kids = <<>>
       [] n.tag = "not" -> Len(n.kids) = 1
       [] OTHER         -> Len(n.kids) >= 2
  /\ \A x \in DOMAIN n.kids : WellFormed(n.kids[x])

TypeOK ==
  /\ WellFormed(tree)
  /\ count \in Counts /\ type \in Types /\ passes \in 0 .. IterLimit
  /\ answer \subseteq Documents

\* Every pass of every type of optimisation leaves the tree with the documents that
\* the parse tree stood for.
SameMeaning == Meaning(tree) = Meaning(parsed)

\* A query that no document without any of its words matches can be answered by
\* looking words up.  In DNF (type 2) it is answered with exactly its documents.
DnfAnswers ==
  pc = "answered" /\ type = 2 /\ ~Matches(parsed, {}) => answer = Meaning(parsed)

\* A query that type 1 "optimises for" (mgquery.1): an AND of words, of negated words
\* and of ORs of words, one of them not negated.
Literal(n) == n.tag = "term" \/ (n.tag = "not" /\ n.kids[1].tag = "term")

RECURSIVE OrOfWords(_)
OrOfWords(n) == n.tag = "term" \/ (n.tag = "or" /\ OrOfWords(n.kids[1]) /\ OrOfWords(n.kids[2]))

RECURSIVE AndOfOrs(_)
AndOfOrs(n) ==
  IF n.tag = "and" THEN AndOfOrs(n.kids[1]) /\ AndOfOrs(n.kids[2]) ELSE Literal(n) \/ OrOfWords(n)

\* Type 1 answers such a query with exactly its documents.
AndOfOrsAnswers ==
  pc = "answered" /\ type = 1 /\ AndOfOrs(parsed) /\ ~Matches(parsed, {}) => answer = Meaning(parsed)

\* Where the answer falls short, no document is in it that does not match.
NoWrongDocument == pc = "answered" => answer \subseteq Meaning(parsed)

\* Distribution comes to an end before the limit of passes, and every query is answered.
Answered == <>(pc = "answered")

\* bool_optimiser.c, DiffTree: "Unlike DiffDNF, this routine will search throughout the
\* tree for "and"-nodes": type 1 answers what type 2 answers.
TreeAnswers ==
  pc = "answered" /\ type = 1 /\ ~Matches(parsed, {}) => answer = Meaning(parsed)
==============================================================================
