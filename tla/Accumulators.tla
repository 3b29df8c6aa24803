----------------------------- MODULE Accumulators -----------------------------
(***************************************************************************)
(* The weights of documents in a ranked query, added up term by term:      *)
(* CosineDecode, CosineDecodeSplay, CosineDecodeHash and CosineDecodeList  *)
(* of text/invf_get.c, with the limit on accumulators, the skips that are  *)
(* used once it is reached, and the tables the accumulators are kept in.   *)
(*                                                                         *)
(* A posting of a term is worth the term's weight: Wqt * Wdt for one       *)
(* occurrence.  The code of an entry and of its skips is SkippedEntry's;   *)
(* here an entry is the sequence of its documents, and a place in it is    *)
(* the number of postings before it.                                       *)
(***************************************************************************)
EXTENDS Integers, Sequences, FiniteSets, Functions

CONSTANTS
  NumDocs,      \* documents of the collection
  Methods,      \* "A"rray, "S"play tree, "H"ash table, "L"ist
  Limits,       \* values of max_accumulators
  Skips,        \* postings per skip; 0: the inverted file has none
  TermWeights   \* the weights of the terms of a query, in order

ASSUME AccumulatorsAssumption ==
  /\ NumDocs \in Nat \ {0}
  /\ Methods \subseteq {"A", "S", "H", "L"}
  /\ Limits \subseteq Nat \ {0, 1}
  /\ Skips \subseteq Nat
  /\ TermWeights \in Seq(Nat)

VARIABLES
  query,    \* the parameters: method, limit, stop (stop_at_max_accum) and k
  acc,      \* the accumulators, in the order of the table or, sorted, by document
  sup,      \* HT->Suplimentary_Entries: what the hash table had no room for
  room,     \* places allocated for acc and for sup
  anding,   \* no new accumulators: only those there are, in order of documents
  sorted,   \* the table has been sorted
  term,     \* terms begun
  post,     \* the documents of the entry being read
  dec,      \* the decoder: i, kd, next_i, next_doc_num and CurrDocNum (cur)
  next,     \* the accumulator the Anding loop is at
  stage,    \* "term", "post" or "added"
  abort,    \* no more terms
  total,    \* history: what the terms processed are worth, by document
  had       \* history: documents with an accumulator when the term began

vars == <<query, acc, sup, room, anding, sorted, term, post, dec, next, stage, abort, total, had>>

Docs == 0 .. NumDocs - 1

Entry == [doc : Docs, sum : Nat]

DocsIn(entries) == {entries[x].doc : x \in DOMAIN entries}

Place(entries, d) == CHOOSE x \in DOMAIN entries : entries[x].doc = d

\* Documents in the order of their numbers; and entries, one of each document.
InOrder(docs) ==
  [x \in 1 .. Cardinality(docs) |-> CHOOSE d \in docs : Cardinality({e \in docs : e < d}) = x - 1]

ByDoc(entries) ==
  LET docs == InOrder(DocsIn(entries))
  IN [x \in DOMAIN docs |-> entries[Place(entries, docs[x])]]

\* What the entries of a document come to.
SumOf(entries, d) ==
  SumFunctionOnSet([x \in DOMAIN entries |-> entries[x].sum],
                   {x \in DOMAIN entries : entries[x].doc = d})

\* The decoder at the start of an entry with skips of k postings.
Opened(k) == [i |-> 0, kd |-> k - 1, next_i |-> 0, next_doc_num |-> 0, cur |-> 0]

Init ==
  /\ query \in [method : Methods, limit : Limits, stop : BOOLEAN, k : Skips]
  /\ acc = IF query.method = "A" THEN [x \in 1 .. NumDocs |-> [doc |-> x - 1, sum |-> 0]] ELSE <<>>
  /\ sup = <<>>
  /\ room = [acc |-> IF query.method = "A" THEN NumDocs ELSE query.limit, sup |-> 0]
  /\ anding = FALSE
  /\ sorted = FALSE
  /\ term = 0
  /\ post = <<>>
  /\ dec = Opened(0)
  /\ next = 1
  /\ stage = "term"
  /\ abort = FALSE
  /\ total = [d \in Docs |-> 0]
  /\ had = 0

----------------------------------------------------------------------------
(* The tables.                                                             *)

\* HT_sort: both parts in one list by document.
Chained == ByDoc(acc \o sup)

\* LT_sort and LT_pack: entries of one document become one.
Packed(entries) ==
  LET docs == InOrder(DocsIn(entries))
  IN [x \in DOMAIN docs |-> [doc |-> docs[x], sum |-> SumOf(entries, docs[x])]]

Ordered ==
  CASE query.method = "H" -> Chained
    [] query.method = "L" -> Packed(acc)
    [] OTHER              -> acc

AddTo(d, w) == [acc EXCEPT ![Place(acc, d)].sum = @ + w]

Added(d, w) == Append(acc, [doc |-> d, sum |-> w])

\* SP_member, SP_insert and the addition.
SplayAdd(d, w) ==
  /\ acc' = IF d \in DocsIn(acc) THEN AddTo(d, w) ELSE ByDoc(Added(d, w))
  /\ UNCHANGED <<sup, room>>

\* HT_find, HT_insert, and HT_Sup_Add when the table is full: the supplementary
\* table gets a place for each posting left, this one too (dec.i counts it already).
\* Variant: without the one.
SupRoomShort == Len(post) - dec'.i

SupRoom == Len(post) - dec'.i + 1

HashAdd(d, w) ==
  CASE d \in DocsIn(acc) ->
         acc' = AddTo(d, w) /\ UNCHANGED <<sup, room>>
    [] d \notin DocsIn(acc) /\ Len(acc) < room.acc ->
         acc' = Added(d, w) /\ UNCHANGED <<sup, room>>
    [] OTHER ->
         /\ room' = IF sup = <<>> THEN [room EXCEPT !.sup = SupRoom] ELSE room
         /\ sup' = Append(sup, [doc |-> d, sum |-> w])
         /\ UNCHANGED acc

\* LT_add: an entry more, whether or not the document has one; the list grows by half.
ListAdd(d, w) ==
  /\ acc' = Added(d, w)
  /\ room' = IF Len(acc) = room.acc THEN [room EXCEPT !.acc = @ + @ \div 2] ELSE room
  /\ UNCHANGED sup

Add(d, w) ==
  CASE query.method = "A" -> acc' = AddTo(d, w) /\ UNCHANGED <<sup, room>>
    [] query.method = "S" -> SplayAdd(d, w)
    [] query.method = "H" -> HashAdd(d, w)
    [] query.method = "L" -> ListAdd(d, w)

----------------------------------------------------------------------------
(* Terms.                                                                  *)

Limited == query.method # "A"

\* Variant: an accumulator more.
FullLate == Limited /\ Len(acc) > query.limit

\* The limit is looked at when a term begins: from then on, the terms only add
\* to the accumulators there are.
Full == Limited /\ Len(acc) >= query.limit

BeginTerm(docs) ==
  /\ stage = "term" /\ ~abort /\ term < Len(TermWeights)
  /\ term' = term + 1
  /\ post' = docs
  /\ anding' = (anding \/ Full)
  /\ sorted' = (sorted \/ anding')
  /\ acc' = IF anding' /\ ~sorted THEN Ordered ELSE acc
  /\ sup' = IF anding' /\ ~sorted THEN <<>> ELSE sup
  /\ dec' = Opened(query.k)
  /\ next' = 1
  /\ stage' = "post"
  /\ total' = [d \in Docs |-> IF \E x \in DOMAIN docs : docs[x] = d + 1
                              THEN total[d] + TermWeights[term + 1] ELSE total[d]]
  /\ had' = Cardinality(DocsIn(acc \o sup))
  /\ UNCHANGED <<query, room, abort>>

p == Len(post)

\* Variant: the term is left as soon as the limit is reached.
LoopingUntilAbort == dec.i < p /\ ~abort /\ (anding => next <= Len(acc))

Looping == dec.i < p /\ (anding => next <= Len(acc))

\* The candidate is behind the block at hand, and there is another block.
\* Variant: the number of the block's last document is taken for one from 0.
BehindShort(s) == acc[next].doc >= s.next_doc_num - 1

Behind(s) == acc[next].doc > s.next_doc_num

Hopping(s) == /\ query.k > 0 /\ anding
              /\ s.i + query.k < p /\ s.next_doc_num >= 0 /\ Behind(s)

Hop(s) == [s EXCEPT !.i = s.next_i, !.cur = s.next_doc_num, !.kd = query.k - 1]

\* The header of a block: its last document and where the next block starts.
Header(s) ==
  IF s.i + query.k < p
  THEN [s EXCEPT !.next_i = @ + query.k, !.next_doc_num = post[s.next_i + query.k]]
  ELSE [s EXCEPT !.next_doc_num = -1]

AtBlock(s) == query.k > 0 /\ s.kd = query.k - 1

\* The document of a posting: the last one of a block has no gap of its own.
CurrDocNum(s) ==
  IF query.k > 0 /\ s.kd = 0 /\ s.i # p - 1 THEN s.next_doc_num
  ELSE s.cur + post[s.i + 1] - (IF s.i = 0 THEN 0 ELSE post[s.i])

Passed(s) ==
  [s EXCEPT !.i = @ + 1, !.cur = CurrDocNum(s),
            !.kd = IF @ - 1 < 0 THEN query.k - 1 ELSE @ - 1]

\* Anding: go on to the first accumulator not before the document, add if it is the
\* document's, and leave it behind unless it is of a later one.
\* Variant: leave it behind in any case.
AfterAlways(here, match) == here + 1

After(here, match) == IF match THEN here + 1 ELSE here

FirstFrom(d) ==
  LET ahead == {x \in next .. Len(acc) : acc[x].doc >= d}
  IN IF ahead = {} THEN Len(acc) + 1 ELSE CHOOSE x \in ahead : \A y \in ahead : x <= y

AndTo(d, w) ==
  LET here  == FirstFrom(d)
      match == here <= Len(acc) /\ acc[here].doc = d
  IN /\ acc' = IF match THEN [acc EXCEPT ![here].sum = @ + w] ELSE acc
     /\ next' = After(here, match)
     /\ UNCHANGED <<sup, room>>

\* A round of the loop: a hop, a header, and a posting unless another hop is due.
Posting ==
  /\ stage = "post" /\ Looping
  /\ LET hopped == IF Hopping(dec) THEN Hop(dec) ELSE dec
         headed == IF AtBlock(hopped) THEN Header(hopped) ELSE hopped
     IN IF Hopping(headed)
        THEN /\ dec' = headed
             /\ UNCHANGED <<acc, sup, room, next, abort>>
        ELSE /\ dec' = Passed(headed)
             /\ LET d == dec'.cur - 1
                    w == TermWeights[term]
                IN IF anding THEN AndTo(d, w) /\ UNCHANGED abort
                   ELSE /\ Add(d, w)
                        /\ UNCHANGED next
                        /\ abort' = (abort \/ /\ Limited /\ query.stop
                                              /\ Len(acc') >= query.limit)
  /\ UNCHANGED <<query, anding, sorted, term, post, stage, total, had>>

\* What is local to the round of a term is forgotten.
EndTerm ==
  /\ stage = "post" /\ ~Looping
  /\ stage' = "term"
  /\ post' = <<>>
  /\ dec' = Opened(0)
  /\ next' = 1
  /\ UNCHANGED <<query, acc, sup, room, anding, sorted, term, abort, total, had>>

\* No more terms.  The hash table is sorted if it was not.
EndTerms ==
  /\ stage = "term" /\ term > 0
  /\ stage' = "added"
  /\ acc' = IF query.method = "H" /\ ~sorted THEN Ordered ELSE acc
  /\ sup' = IF query.method = "H" /\ ~sorted THEN <<>> ELSE sup
  /\ sorted' = (sorted \/ query.method = "H")
  /\ UNCHANGED <<query, room, anding, term, post, dec, next, abort, total, had>>

\* An entry: the documents of a word, one at least, numbered from 1.
Entries ==
  {InOrder(docs) : docs \in (SUBSET (1 .. NumDocs)) \ {{}}}

Next ==
  \/ \E docs \in Entries : BeginTerm(docs)
  \/ Posting \/ EndTerm \/ EndTerms

Spec == Init /\ [][Next]_vars

----------------------------------------------------------------------------
(* Properties.                                                             *)

TypeOK ==
  /\ query \in [method : Methods, limit : Limits, stop : BOOLEAN, k : Skips]
  /\ \A x \in DOMAIN acc : acc[x] \in Entry
  /\ \A x \in DOMAIN sup : sup[x] \in Entry
  /\ anding \in BOOLEAN /\ sorted \in BOOLEAN /\ abort \in BOOLEAN
  /\ stage \in {"term", "post", "added"}
  /\ dec.i \in 0 .. p /\ next \in 1 .. Len(acc) + 1

\* What is kept of a document, over all of its entries.
Kept(d) == SumOf(acc \o sup, d)

\* Between two terms, and however the limit cut the query short: a document has all
\* the terms processed are worth to it, or has no accumulator at all.
SumsExact ==
  stage \in {"term", "added"} =>
    \A d \in Docs : d \in DocsIn(acc \o sup) => Kept(d) = total[d]

\* Without the limit being reached every document of a term has its accumulator.
AllAccumulated ==
  stage \in {"term", "added"} /\ ~anding => \A d \in Docs : total[d] > 0 => d \in DocsIn(acc \o sup)

\* No table is written beyond its end: the list, which grows by half; the hash
\* table; and its supplement, which is allocated once, for the term at hand.
RoomEnough ==
  query.method \in {"H", "L"} => Len(acc) <= room.acc + room.sup /\ Len(sup) <= room.sup

\* mgquery.1, max_accumulators: it "limits the number of different paragraph and
\* document numbers to be accumulated".  What holds is that a term that began with
\* the limit reached gives no document an accumulator and takes none from it.
LimitKept ==
  Limited /\ term > 0 /\ had >= query.limit => Cardinality(DocsIn(acc \o sup)) = had
===============================================================================
