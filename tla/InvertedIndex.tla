--------------------------- MODULE InvertedIndex ---------------------------
(***************************************************************************)
(* What building an inverted file promises: documents are numbered in the  *)
(* order they arrive, and the published index lists, for every word of the *)
(* collection, the documents that hold it in increasing order and, from    *)
(* level 2 on, how often each does.  A collection without a word is given  *)
(* up.                                                                     *)
(***************************************************************************)
EXTENDS Naturals, Sequences, FiniteSets

CONSTANTS Words,      \* the words documents are made of
          Documents   \* the documents: how often each word occurs in one

VARIABLES level,      \* inversion level
          text,       \* the collection
          outcome,    \* "building", "published" or "abandoned"
          index       \* the published index

vars == <<level, text, outcome, index>>

\* A function without domain: no index yet.
NoIndex == <<>>

Vocabulary(t) == {w \in Words : \E n \in DOMAIN t : t[n][w] > 0}

Postings(t, w) ==
  LET holding == {n \in DOMAIN t : t[n][w] > 0}
      \* The i-th of them in order.
      nth(i) == CHOOSE n \in holding : Cardinality({m \in holding : m <= n}) = i
  IN [i \in 1..Cardinality(holding) |->
        [doc |-> nth(i), tf |-> IF level = 1 THEN 0 ELSE t[nth(i)][w]]]

Init ==
  /\ level \in {1, 2, 3}
  /\ text = <<>>
  /\ outcome = "building"
  /\ index = NoIndex

Arrive(d) ==
  /\ outcome = "building"
  /\ text' = Append(text, d)
  /\ UNCHANGED <<level, outcome, index>>

Publish ==
  /\ outcome = "building"
  /\ Vocabulary(text) # {}
  /\ outcome' = "published"
  /\ index' = [w \in Vocabulary(text) |-> Postings(text, w)]
  /\ UNCHANGED <<level, text>>

Abandon ==
  /\ outcome = "building"
  /\ Vocabulary(text) = {}
  /\ outcome' = "abandoned"
  /\ UNCHANGED <<level, text, index>>

Next == Publish \/ Abandon \/ \E d \in Documents : Arrive(d)

Spec == Init /\ [][Next]_vars
============================================================================
