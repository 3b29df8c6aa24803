------------------------------ MODULE CosineHeap ------------------------------
(***************************************************************************)
(* The heap of text/query.ranked.c and the selection CosineGet makes with  *)
(* it: of the accumulated sums the best, first by sums over approximate    *)
(* document weights, which are too low, and then by the exact weights,     *)
(* which are only fetched for documents that may still get in.             *)
(*                                                                         *)
(* A heap entry has a weight w, a document and org, the place of its       *)
(* accumulator.  The code's quotients are floats: here sums are multiples  *)
(* of the document weights, and the quotients are whole numbers.           *)
(***************************************************************************)
EXTENDS Naturals, Sequences

Swapped(h, i, j) == [h EXCEPT ![i] = h[j], ![j] = h[i]]

\* Heap_Lesser and Heap_Greater, the comparisons HC of a heap: the head is above all.
Above(hc, a, b) == IF hc = "lesser" THEN a.w < b.w ELSE a.w > b.w

\* Heap_Heapify: entry i sinks below children that are above it, a level at a time.
Sunk(s, hc) ==
  LET left  == 2 * s.at
      child == IF left < Len(s.h) /\ Above(hc, s.h[left + 1], s.h[left]) THEN left + 1 ELSE left
  IN IF left > Len(s.h) \/ ~Above(hc, s.h[child], s.h[s.at]) THEN s
     ELSE [h |-> Swapped(s.h, s.at, child), at |-> child]

Heapify(h, i, hc) ==
  LET sunk[level \in 0 .. Len(h)] ==
        IF level = 0 THEN [h |-> h, at |-> i] ELSE Sunk(sunk[level - 1], hc)
  IN sunk[Len(h)].h

\* Heap_Build: from the last entry with a child up to the head.
Build(h, hc) ==
  LET parents == Len(h) \div 2
      built[n \in 0 .. parents] ==
        IF n = 0 THEN h ELSE Heapify(built[n - 1], parents + 1 - n, hc)
  IN built[parents]

\* Heap_DeleteHead.
WithoutHead(h, hc) ==
  LET rest == [i \in 1 .. Len(h) - 1 |-> IF i = 1 THEN h[Len(h)] ELSE h[i]]
  IN IF rest = <<>> THEN <<>> ELSE Heapify(rest, 1, hc)

\* The heap emptied from its head on: the order documents are retrieved in.
Drained(h, hc) ==
  LET rest[n \in 1 .. Len(h)] == IF n = 1 THEN h ELSE WithoutHead(rest[n - 1], hc)
  IN [n \in 1 .. Len(h) |-> rest[n][1]]

----------------------------------------------------------------------------
(* CosineGet.  s.heap is the heap, s.sums what is left in the accumulators:*)
(* the quotient, or 0 for what is in the heap.                             *)

InHeap(s, e) ==
  [heap |-> Heapify([s.heap EXCEPT ![1] = e], 1, "lesser"), sums |-> [s.sums EXCEPT ![e.org] = 0]]

\* The first m accumulators fill the heap.
Filled(entries, m, approx) ==
  LET first == [x \in 1 .. m |-> [w |-> entries[x].sum \div approx[entries[x].doc],
                                  doc |-> entries[x].doc, org |-> x]]
  IN [heap |-> Build(first, "lesser"),
      sums |-> [x \in DOMAIN entries |-> IF x <= m THEN 0 ELSE entries[x].sum]]

\* The others push the head out if they are above it; it gets its sum back.
\* The array method leaves out documents without a sum.
\* Variant: the sum is not put back.
OfferLosing(s, x, e, approx, skipZero) ==
  LET w == e.sum \div approx[e.doc]
  IN IF skipZero /\ e.sum = 0 THEN s
     ELSE IF w <= s.heap[1].w THEN [s EXCEPT !.sums[x] = w]
     ELSE InHeap(s, [w |-> w, doc |-> e.doc, org |-> x])

Offer(s, x, e, approx, skipZero) ==
  LET w    == e.sum \div approx[e.doc]
      head == s.heap[1]
  IN IF skipZero /\ e.sum = 0 THEN s
     ELSE IF w <= head.w THEN [s EXCEPT !.sums[x] = w]
     ELSE InHeap([s EXCEPT !.sums[head.org] = head.w], [w |-> w, doc |-> e.doc, org |-> x])

Approximate(entries, m, approx, skipZero) ==
  LET offered[x \in m .. Len(entries)] ==
        IF x = m THEN Filled(entries, m, approx)
        ELSE Offer(offered[x - 1], x, entries[x], approx, skipZero)
  IN offered[Len(entries)]

\* What a quotient by the approximate weight comes to by the exact one.
Exactly1(w, d, approx, exact) == (w * approx[d]) \div exact[d]

\* The exact weight of an accumulator that is above the head by the approximate one,
\* which is an upper bound.
Try(s, x, doc, approx, exact) ==
  LET w == Exactly1(s.sums[x], doc, approx, exact)
  IN IF s.sums[x] = 0 \/ s.sums[x] <= s.heap[1].w \/ w <= s.heap[1].w THEN s
     ELSE InHeap(s, [w |-> w, doc |-> doc, org |-> x])

\* Exact weights for the heap, and then for what may still get in.
Exactly(s, entries, approx, exact) ==
  LET again == [x \in DOMAIN s.heap |->
                  [s.heap[x] EXCEPT !.w = Exactly1(@, s.heap[x].doc, approx, exact)]]
      tried[x \in 0 .. Len(entries)] ==
        IF x = 0 THEN [s EXCEPT !.heap = Build(again, "lesser")]
        ELSE Try(tried[x - 1], x, entries[x].doc, approx, exact)
  IN tried[Len(entries)]

\* Documents of one place in the text are one answer, ranked by the first of them.
\* (maxdocs, which only cuts the answers short, is not modelled.)
Retrieved(ranked) ==
  LET out[n \in 0 .. Len(ranked)] ==
        IF n = 0 THEN <<>>
        ELSE IF \E x \in DOMAIN out[n - 1] : out[n - 1][x].doc = ranked[n].doc THEN out[n - 1]
        ELSE Append(out[n - 1], [doc |-> ranked[n].doc, w |-> ranked[n].w])
  IN out[Len(ranked)]

\* The answers to a query with at most m paragraphs, by approximate weights or by exact ones.
CosineGet(entries, m, approx, exact, exactly, skipZero) ==
  IF m = 0 THEN <<>>
  ELSE LET best  == Approximate(entries, m, approx, skipZero)
           final == IF exactly THEN Exactly(best, entries, approx, exact) ELSE best
       IN Retrieved(Drained(Build(final.heap, "greater"), "greater"))
===============================================================================
