--------------------------- MODULE MergedCollection ---------------------------
(***************************************************************************)
(* What mgmerge promises (mgmerge.1): a collection only grows, by whole    *)
(* batches of new documents put after the old ones, and holds every        *)
(* document once.  Nothing is edited and nothing is deleted.               *)
(***************************************************************************)
EXTENDS Naturals, Sequences

CONSTANT Coll

VARIABLE built   \* the documents of each collection, in the order of their numbers

Distinct(s) == \A i, j \in DOMAIN s : s[i] = s[j] => i = j

Init == \A c \in Coll : built[c] # <<>> /\ Distinct(built[c])

\* One merge: a batch of documents not merged before comes after the old ones.
Add(c) ==
  LET old == built[c]
      new == built'[c]
  IN /\ Len(new) > Len(old)
     /\ SubSeq(new, 1, Len(old)) = old
     /\ Distinct(new)
     /\ \A other \in Coll \ {c} : built'[other] = built[other]

Next == \E c \in Coll : Add(c)

Spec == Init /\ [][Next]_built
===============================================================================
