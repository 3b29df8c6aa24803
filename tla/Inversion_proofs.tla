-------------------------- MODULE Inversion_proofs --------------------------
(***************************************************************************)
(* No word's codes leave its region of the memory buffer (NoOverrun), for  *)
(* every collection of fewer than 2^30 documents, every vocabulary and     *)
(* every way of cutting the collection into chunks: nothing here uses when *)
(* pass 1 closes a chunk.                                                  *)
(*                                                                         *)
(* The argument: the counts a chunk is described by are differences of     *)
(* running totals over the collection (TotalsOK, CountsOK, ChunksOK);      *)
(* pass 2 reads the same documents between the same two places (ReadOK);   *)
(* and what a word has used of its region is bounded by what BlockCode's   *)
(* bound allows for the postings coded so far (CodedOK).                   *)
(***************************************************************************)
EXTENDS Inversion, ArithmeticTheorems, SequenceTheorems

IsSeq(s) == \E S : s \in Seq(S)

\* Every word once, in some order.
OrderOK(words) ==
  /\ IsSeq(words)
  /\ \A i \in 1..Len(words) : words[i] \in Words
  /\ \A i, j \in 1..Len(words) : words[i] = words[j] => i = j

\* Documents and occurrences of w among the first n documents.
F(n, w) == IF n = 0 THEN 0 ELSE totals[n][w].f
W(n, w) == IF n = 0 THEN 0 ELSE totals[n][w].w

\* Documents read at the end of the k-th chunk.
Cut(k) == IF k = 0 THEN 0 ELSE cuts[k]

\* From document i to document j, w gains at most a posting a document, and an
\* occurrence at least for every posting.
Gains(i, j, w) ==
  /\ F(i, w) <= F(j, w) /\ F(j, w) - F(i, w) <= j - i
  /\ F(j, w) - F(i, w) <= W(j, w) - W(i, w)
  /\ F(i, w) = F(j, w) => W(i, w) = W(j, w)

TotalsOK ==
  /\ IsSeq(text) /\ Len(text) <= MaxDocs
  /\ \A i \in 1..Len(text) : text[i] \in [Words -> Nat]
  /\ \A i \in 1..Len(text) : \A w \in Words : text[i][w] < Shl(MaxLog)
  /\ IsSeq(totals) /\ Len(totals) = Len(text)
  /\ \A i \in 0..Len(text) : \A w \in Words : F(i, w) \in Nat /\ W(i, w) \in Nat
  /\ \A i \in 0..(Len(text) - 1) : \A w \in Words :
       /\ F(i + 1, w) = F(i, w) + IF text[i + 1][w] > 0 THEN 1 ELSE 0
       /\ W(i + 1, w) = W(i, w) + text[i + 1][w]
  /\ \A i, j \in 0..Len(text) : \A w \in Words : i <= j => Gains(i, j, w)

\* e counts the whole text and, locally, its last n documents.
CountedSince(e, n) ==
  /\ e \in [Words -> [wcnt : Nat, fcnt : Nat, lwcnt : Nat, lfcnt : Nat]]
  /\ \A w \in Words :
       /\ e[w].fcnt = F(Len(text), w) /\ e[w].wcnt = W(Len(text), w)
       /\ e[w].lfcnt = F(Len(text), w) - F(Len(text) - n, w)
       /\ e[w].lwcnt = W(Len(text), w) - W(Len(text) - n, w)

\* Pass 1 has met every word of the text and counts from the last cut on.
CountsOK ==
  /\ InvfLevel \in {1, 2, 3}
  /\ OrderOK(first_occr)
  /\ \A w \in Words : F(Len(text), w) > 0 =>
       \E i \in 1..Len(first_occr) : first_occr[i] = w
  /\ lcallnum \in 0..Len(text) /\ Cut(Len(cuts)) = Len(text) - lcallnum
  /\ CountedSince(ent, lcallnum)

\* The k-th description says what lies between two cuts.
Describes(k) ==
  /\ Cut(k - 1) < Cut(k)
  /\ chunk_file[k].docs = Cut(k) - Cut(k - 1)
  /\ \E m \in 0..Len(first_occr) : DOMAIN chunk_file[k].counts = 1..m
  /\ \A w \in Words :
       CountsIn(chunk_file[k], w) = [wcnt |-> W(Cut(k), w) - W(Cut(k - 1), w),
                                     fcnt |-> F(Cut(k), w) - F(Cut(k - 1), w)]

ChunksOK ==
  /\ IsSeq(chunk_file) /\ IsSeq(cuts) /\ Len(cuts) = Len(chunk_file)
  /\ \A k \in 0..Len(cuts) : Cut(k) \in 0..Len(text)
  /\ \A k \in 1..Len(cuts) : Describes(k)

\* Pass 2 is inside the chunk it read last.
ReadOK ==
  /\ at \in 0..Len(chunk_file) /\ callnum \in 0..Len(text)
  /\ docs_left = Cut(at) - callnum /\ docs_left >= 0
  /\ at > 0 => Cut(at - 1) <= callnum
  /\ stage \in {"pass2", "merge"} => next_docs_left = DocsOfChunk(at)
  /\ stage \in {"pass1", "built"} => at = 0

\* What the codes of w have used of its region.
Coded(w) ==
  LET s == Cut(at - 1)
      p == F(Cut(at), w) - F(s, w)
      k == F(callnum, w) - F(s, w)
      tf == IF InvfLevel >= 2 THEN W(callnum, w) - W(s, w) ELSE 0
  IN /\ wr[w].b = IF p = 0 THEN 1 ELSE BblockInitW(Cut(at) - s, p)
     /\ wr[w].last \in s..callnum /\ wr[w].used \in Nat
     /\ k = 0 => wr[w].used = 0 /\ wr[w].last = s
     /\ k > 0 => wr[w].used <= Used(k, wr[w].last - s, wr[w].b) + tf

CodedOK == at > 0 => \A w \in Words : Coded(w)

IInv == TotalsOK /\ CountsOK /\ ChunksOK /\ ReadOK /\ CodedOK
----------------------------------------------------------------------------
(* Sequences of anything.                                                  *)

LEMMA AppendIsSeq ==
  ASSUME NEW s, IsSeq(s), NEW x
  PROVE  /\ IsSeq(Append(s, x)) /\ Len(s) \in Nat /\ Len(Append(s, x)) = Len(s) + 1
         /\ \A i \in 1..Len(s) : Append(s, x)[i] = s[i]
         /\ Append(s, x)[Len(s) + 1] = x
  <1>1. PICK S : s \in Seq(S)
    BY DEF IsSeq
  <1>2. s \in Seq(S \cup {x}) /\ x \in S \cup {x}
    BY <1>1, SeqMonotonic
  <1>3. Append(s, x) \in Seq(S \cup {x})
    BY <1>2, AppendProperties
  <1>4. IsSeq(Append(s, x))
    BY <1>3 DEF IsSeq
  <1>5. Len(s) \in Nat
    BY <1>1
  <1> QED
    BY <1>2, <1>4, <1>5, AppendProperties

LEMMA ConcatIsSeq ==
  ASSUME NEW s, IsSeq(s), NEW t, IsSeq(t)
  PROVE  /\ IsSeq(s \o t) /\ Len(s \o t) = Len(s) + Len(t)
         /\ Len(s) \in Nat /\ Len(t) \in Nat
         /\ \A i \in 1..Len(s) : (s \o t)[i] = s[i]
         /\ \A i \in 1..Len(t) : (s \o t)[Len(s) + i] = t[i]
  <1>1. PICK S : s \in Seq(S)
    BY DEF IsSeq
  <1>2. PICK T : t \in Seq(T)
    BY DEF IsSeq
  <1>3. s \in Seq(S \cup T) /\ t \in Seq(S \cup T)
    BY <1>1, <1>2, SeqMonotonic
  <1>4. s \o t \in Seq(S \cup T) /\ Len(s \o t) = Len(s) + Len(t)
    BY <1>3, ConcatProperties
  <1>5. IsSeq(s \o t)
    BY <1>4 DEF IsSeq
  <1>6. Len(s) \in Nat /\ Len(t) \in Nat
    BY <1>3
  <1> QED
    BY <1>3, <1>4, <1>5, <1>6, ConcatProperties

LEMMA EmptyIsSeq == IsSeq(<<>>) /\ Len(<<>>) = 0
  <1>1. <<>> \in Seq({})
    OBVIOUS
  <1> QED
    BY <1>1 DEF IsSeq
----------------------------------------------------------------------------
(* The description of a chunk.                                             *)

\* CountsIn, for any order of the words.
Lookup(order, c, w) ==
  IF \E i \in DOMAIN c.counts : order[i] = w
  THEN LET code == c.counts[CHOOSE i \in DOMAIN c.counts : order[i] = w]
       IN [wcnt |-> code[1], fcnt |-> IF code[1] >= 2 THEN code[2] ELSE code[1]]
  ELSE [wcnt |-> 0, fcnt |-> 0]

\* Words met later do not disturb a description written earlier.
LEMMA LookupStable ==
  ASSUME NEW old, NEW new, NEW c, NEW w,
         \A i \in DOMAIN c.counts : old[i] = new[i],
         \A i, j \in DOMAIN c.counts : old[i] = old[j] => i = j
  PROVE  Lookup(old, c, w) = Lookup(new, c, w)
  <1>1. CASE \E i \in DOMAIN c.counts : old[i] = w
    <2> DEFINE i == CHOOSE i \in DOMAIN c.counts : old[i] = w
               j == CHOOSE j \in DOMAIN c.counts : new[j] = w
    <2>1. i \in DOMAIN c.counts /\ old[i] = w
      BY <1>1
    <2>2. j \in DOMAIN c.counts /\ new[j] = w
      BY <1>1
    <2>3. i = j
      BY <2>1, <2>2
    <2> HIDE DEF i, j
    <2>4. \E k \in DOMAIN c.counts : new[k] = w
      BY <1>1
    <2> QED
      BY <1>1, <2>3, <2>4, Zenon DEF Lookup, i, j
  <1>2. CASE ~\E i \in DOMAIN c.counts : old[i] = w
    <2>1. ~\E i \in DOMAIN c.counts : new[i] = w
      BY <1>2
    <2> QED
      BY <1>2, <2>1 DEF Lookup
  <1> QED
    BY <1>1, <1>2

\* Local counts: a posting has an occurrence, and its word is known.
LocalOK(e, words) ==
  /\ e \in [Words -> [wcnt : Nat, fcnt : Nat, lwcnt : Nat, lfcnt : Nat]]
  /\ \A w \in Words :
       /\ e[w].lfcnt <= e[w].lwcnt
       /\ e[w].lfcnt = 0 => e[w].lwcnt = 0
       /\ e[w].lfcnt > 0 => \E i \in 1..Len(words) : words[i] = w

\* The counts that dump_dict writes, short form included, are read back whole.
LEMMA LookupDescription ==
  ASSUME NEW words, OrderOK(words), NEW e, LocalOK(e, words),
         NEW N, NEW mem, NEW w \in Words
  PROVE  /\ DOMAIN Description(e, words, N, mem).counts = 1..Len(words)
         /\ Description(e, words, N, mem).docs = N
         /\ Lookup(words, Description(e, words, N, mem), w)
              = [wcnt |-> e[w].lwcnt, fcnt |-> e[w].lfcnt]
  <1> DEFINE c == Description(e, words, N, mem)
  <1>1. DOMAIN words = 1..Len(words)
    BY DEF OrderOK, IsSeq
  <1>2. /\ DOMAIN c.counts = 1..Len(words) /\ c.docs = N
        /\ \A i \in 1..Len(words) :
             c.counts[i] = IF e[words[i]].lwcnt >= 2
                           THEN <<e[words[i]].lwcnt, e[words[i]].lfcnt>>
                           ELSE <<e[words[i]].lwcnt>>
    BY <1>1 DEF Description
  <1> HIDE DEF c
  <1>3. CASE \E i \in 1..Len(words) : words[i] = w
    <2> DEFINE i == CHOOSE i \in 1..Len(words) : words[i] = w
               code == c.counts[i]
    <2>1. i \in 1..Len(words) /\ words[i] = w
      BY <1>3
    <2>2. Lookup(words, c, w)
            = [wcnt |-> code[1], fcnt |-> IF code[1] >= 2 THEN code[2] ELSE code[1]]
      BY <1>2, <1>3 DEF Lookup
    <2> HIDE DEF i
    <2>3. code = IF e[w].lwcnt >= 2 THEN <<e[w].lwcnt, e[w].lfcnt>> ELSE <<e[w].lwcnt>>
      BY <1>2, <2>1
    <2>4. /\ e[w].lwcnt \in Nat /\ e[w].lfcnt \in Nat /\ e[w].lfcnt <= e[w].lwcnt
          /\ e[w].lfcnt = 0 => e[w].lwcnt = 0
      BY DEF LocalOK
    <2> HIDE DEF code
    <2>5. /\ code[1] = e[w].lwcnt
          /\ (IF code[1] >= 2 THEN code[2] ELSE code[1]) = e[w].lfcnt
      BY <2>3, <2>4
    <2> QED
      BY <1>2, <2>2, <2>5 DEF c
  <1>4. CASE ~\E i \in 1..Len(words) : words[i] = w
    <2>1. e[w].lfcnt = 0 /\ e[w].lwcnt = 0
      BY <1>4 DEF LocalOK
    <2> QED
      BY <1>2, <1>4, <2>1 DEF Lookup, c
  <1> QED
    BY <1>3, <1>4
----------------------------------------------------------------------------
(* Pass 1.                                                                 *)

\* What a step of pass 1 keeps: the totals and the order of the words so far.
Grown ==
  /\ Len(text) \in Nat /\ Len(text)' \in Nat /\ Len(text) <= Len(text)'
  /\ \A i \in 0..Len(text) : \A w \in Words :
       F(i, w)' = F(i, w) /\ W(i, w)' = W(i, w)
  /\ OrderOK(first_occr)' /\ Len(first_occr) \in Nat
  /\ Len(first_occr)' \in Nat /\ Len(first_occr) <= Len(first_occr)'
  /\ \A i \in 1..Len(first_occr) : first_occr'[i] = first_occr[i]

LEMMA DescriptionKept ==
  ASSUME CountsOK, ChunksOK, Grown,
         NEW k \in 1..Len(cuts), Describes(k),
         chunk_file'[k] = chunk_file[k], Cut(k)' = Cut(k), Cut(k - 1)' = Cut(k - 1)
  PROVE  Describes(k)'
  <1>1. k \in Nat /\ Cut(k) \in 0..Len(text) /\ Cut(k - 1) \in 0..Len(text)
    BY DEF ChunksOK, IsSeq
  <1>2. PICK m \in 0..Len(first_occr) : DOMAIN chunk_file[k].counts = 1..m
    BY DEF Describes
  <1>3. m \in 0..Len(first_occr)' /\ DOMAIN chunk_file'[k].counts = 1..m
    BY <1>2 DEF Grown
  <1>4. ASSUME NEW w \in Words
        PROVE  CountsIn(chunk_file[k], w)' = CountsIn(chunk_file[k], w)
    <2>1. /\ \A i \in DOMAIN chunk_file[k].counts : first_occr[i] = first_occr'[i]
          /\ \A i, j \in DOMAIN chunk_file[k].counts :
               first_occr[i] = first_occr[j] => i = j
      <3>1. \A i \in DOMAIN chunk_file[k].counts : i \in 1..Len(first_occr)
        BY <1>2 DEF Grown
      <3> QED
        BY <3>1 DEF Grown, CountsOK, OrderOK
    <2>2. Lookup(first_occr, chunk_file[k], w) = Lookup(first_occr', chunk_file[k], w)
      BY <2>1, LookupStable
    <2> QED
      BY <2>2 DEF Lookup, CountsIn
  <1>5. \A w \in Words : /\ F(Cut(k), w)' = F(Cut(k), w)
                         /\ W(Cut(k), w)' = W(Cut(k), w)
                         /\ F(Cut(k - 1), w)' = F(Cut(k - 1), w)
                         /\ W(Cut(k - 1), w)' = W(Cut(k - 1), w)
    BY <1>1 DEF Grown
  <1> QED
    BY <1>3, <1>4, <1>5 DEF Describes

LEMMA ChunksKept ==
  ASSUME CountsOK, ChunksOK, Grown, chunk_file' = chunk_file, cuts' = cuts
  PROVE  ChunksOK' /\ Cut(Len(cuts))' = Cut(Len(cuts))
  <1>1. \A k : Cut(k)' = Cut(k)
    BY DEF Cut
  <1>2. /\ IsSeq(chunk_file)' /\ IsSeq(cuts)' /\ (Len(cuts) = Len(chunk_file))'
        /\ Cut(Len(cuts))' = Cut(Len(cuts))
    BY <1>1 DEF ChunksOK, IsSeq
  <1>3. \A k \in 0..Len(cuts) : Cut(k)' \in 0..Len(text)'
    BY <1>1 DEF ChunksOK, Grown
  <1>4. ASSUME NEW k \in 1..Len(cuts) PROVE Describes(k)'
    BY <1>1, DescriptionKept DEF ChunksOK
  <1> QED
    BY <1>2, <1>3, <1>4 DEF ChunksOK

\* dump_dict, with e and N as they are after the document.
LEMMA ChunkAdded ==
  ASSUME TotalsOK', CountsOK, ChunksOK, Grown,
         \A w \in Words : F(Len(text), w)' > 0 =>
           \E i \in 1..Len(first_occr)' : first_occr'[i] = w,
         NEW n, n = Len(text)',
         NEW e, NEW N \in 1..n, NEW mem, CountedSince(e, N)',
         Cut(Len(cuts)) = n - N,
         chunk_file' = Append(chunk_file, Description(e, first_occr', N, mem)),
         cuts' = Append(cuts, n)
  PROVE  ChunksOK' /\ Cut(Len(cuts))' = Len(text)'
  <1> DEFINE c == Description(e, first_occr', N, mem)
  <1>0. PICK K : K = Len(cuts) + 1
    OBVIOUS
  <1>1. /\ Len(cuts) \in Nat /\ Len(cuts)' = K /\ Len(chunk_file)' = K
        /\ IsSeq(cuts)' /\ IsSeq(chunk_file)'
        /\ chunk_file'[K] = c /\ cuts'[K] = n
        /\ \A k \in 1..Len(cuts) : chunk_file'[k] = chunk_file[k] /\ cuts'[k] = cuts[k]
    BY <1>0, AppendIsSeq DEF ChunksOK
  <1>2. n \in Nat /\ Len(text) \in Nat /\ Len(text) <= n
    BY DEF Grown
  <1>3. \A k \in 0..Len(cuts) : Cut(k)' = Cut(k)
    BY <1>1 DEF Cut
  <1>4. Cut(K)' = n /\ Cut(K - 1)' = n - N
    BY <1>0, <1>1, <1>3 DEF Cut
  <1>5. \A k \in 0..K : Cut(k)' \in 0..n
    BY <1>0, <1>1, <1>2, <1>3, <1>4 DEF ChunksOK
  <1>6. ASSUME NEW k \in 1..Len(cuts) PROVE Describes(k)'
    <2>1. k \in 0..Len(cuts) /\ k - 1 \in 0..Len(cuts)
      BY <1>1
    <2> QED
      BY <1>1, <1>3, <2>1, DescriptionKept DEF ChunksOK
  <1>7. Describes(K)'
    <2>1. ASSUME NEW w \in Words
          PROVE  /\ e[w].lfcnt <= e[w].lwcnt
                 /\ e[w].lfcnt = 0 => e[w].lwcnt = 0
                 /\ e[w].lfcnt > 0 => F(n, w)' > 0
                 /\ e[w].lfcnt = F(n, w)' - F(n - N, w)'
                 /\ e[w].lwcnt = W(n, w)' - W(n - N, w)'
      <3>1. n \in 0..n /\ n - N \in 0..n /\ n - N <= n
        BY <1>2
      <3>2. Gains(n - N, n, w)'
        BY <3>1 DEF TotalsOK
      <3>3. /\ F(n, w)' \in Nat /\ W(n, w)' \in Nat
            /\ F(n - N, w)' \in Nat /\ W(n - N, w)' \in Nat
        BY <3>1 DEF TotalsOK
      <3>4. /\ e[w].lfcnt = F(n, w)' - F(n - N, w)'
            /\ e[w].lwcnt = W(n, w)' - W(n - N, w)'
        BY DEF CountedSince
      <3> QED
        BY <3>2, <3>3, <3>4 DEF Gains
    <2>2. OrderOK(first_occr')
      BY DEF Grown
    <2>p. LocalOK(e, first_occr')
      BY <2>1 DEF LocalOK, CountedSince
    <2>3. ASSUME NEW w \in Words
          PROVE  /\ DOMAIN c.counts = 1..Len(first_occr') /\ c.docs = N
                 /\ Lookup(first_occr', c, w)
                      = [wcnt |-> e[w].lwcnt, fcnt |-> e[w].lfcnt]
      BY <2>2, <2>p, LookupDescription
    <2> HIDE DEF c
    <2>4. ASSUME NEW w \in Words
          PROVE  CountsIn(chunk_file[K], w)'
                   = [wcnt |-> W(n, w)' - W(n - N, w)', fcnt |-> F(n, w)' - F(n - N, w)']
      <3>1. CountsIn(chunk_file[K], w)' = Lookup(first_occr', c, w)
        BY <1>1 DEF CountsIn, Lookup
      <3> QED
        BY <2>1, <2>3, <3>1
    <2>5. DOMAIN c.counts = 1..Len(first_occr') /\ c.docs = N
      <3>1. DOMAIN first_occr' = 1..Len(first_occr')
        BY <2>2 DEF OrderOK, IsSeq
      <3> QED
        BY <3>1 DEF c, Description
    <2>6. (Cut(K - 1) < Cut(K))' /\ (chunk_file[K].docs = Cut(K) - Cut(K - 1))'
      BY <1>1, <1>2, <1>4, <2>5
    <2>7. \E m \in 0..Len(first_occr)' : DOMAIN chunk_file'[K].counts = 1..m
      BY <1>1, <2>5 DEF Grown
    <2> QED
      BY <1>4, <2>4, <2>6, <2>7 DEF Describes
  <1>8. \A k \in 1..K : Describes(k)'
    BY <1>0, <1>1, <1>6, <1>7
  <1> QED
    BY <1>0, <1>1, <1>4, <1>5, <1>8 DEF ChunksOK

\* The totals after one more document.
LEMMA TotalsStep ==
  ASSUME TotalsOK, NEW d \in [Words -> Nat], \A w \in Words : d[w] < Shl(MaxLog),
         Len(text) < MaxDocs, NEW n, n = Len(text) + 1, NEW r,
         text' = Append(text, d), totals' = Append(totals, r),
         \A w \in Words : /\ r[w].f = F(Len(text), w) + IF d[w] > 0 THEN 1 ELSE 0
                          /\ r[w].w = W(Len(text), w) + d[w]
  PROVE  /\ TotalsOK' /\ Len(text) \in Nat /\ Len(text)' = n
         /\ \A i \in 0..(n - 1) : \A w \in Words :
              F(i, w)' = F(i, w) /\ W(i, w)' = W(i, w)
         /\ \A w \in Words : /\ F(n, w)' = r[w].f /\ W(n, w)' = r[w].w
  <1>1. /\ Len(text) \in Nat /\ n \in Nat \ {0} /\ n - 1 = Len(text)
        /\ IsSeq(text)' /\ Len(text)' = n /\ text'[n] = d
        /\ \A i \in 1..(n - 1) : text'[i] = text[i]
    BY AppendIsSeq DEF TotalsOK
  <1>2. /\ IsSeq(totals)' /\ Len(totals)' = n /\ totals'[n] = r
        /\ \A i \in 1..(n - 1) : totals'[i] = totals[i]
    BY <1>1, AppendIsSeq DEF TotalsOK
  <1>3. \A i \in 0..(n - 1) : \A w \in Words :
          F(i, w)' = F(i, w) /\ W(i, w)' = W(i, w)
    BY <1>1, <1>2 DEF F, W
  <1>4. \A w \in Words : F(n, w)' = r[w].f /\ W(n, w)' = r[w].w
    BY <1>1, <1>2 DEF F, W
  <1>5. \A i \in 0..(n - 1) : \A w \in Words : F(i, w) \in Nat /\ W(i, w) \in Nat
    BY <1>1 DEF TotalsOK
  <1>6. \A w \in Words : d[w] \in Nat
    OBVIOUS
  <1>7. \A w \in Words :
          /\ F(n, w)' = F(n - 1, w) + IF d[w] > 0 THEN 1 ELSE 0
          /\ W(n, w)' = W(n - 1, w) + d[w]
          /\ F(n, w)' \in Nat /\ W(n, w)' \in Nat
    BY <1>1, <1>4, <1>5, <1>6
  <1>8. \A i \in 0..n : \A w \in Words : F(i, w)' \in Nat /\ W(i, w)' \in Nat
    <2>1. ASSUME NEW i \in 0..(n - 1), NEW w \in Words
          PROVE  F(i, w)' \in Nat /\ W(i, w)' \in Nat
      BY <1>3, <1>5
    <2>2. ASSUME NEW i \in 0..n, i \notin 0..(n - 1) PROVE i = n
      BY <1>1, <2>2
    <2> QED
      BY ONLY <1>7, <2>1, <2>2
  <1>9. ASSUME NEW i \in 0..(n - 1), NEW w \in Words
        PROVE  /\ F(i + 1, w)' = F(i, w)' + IF text'[i + 1][w] > 0 THEN 1 ELSE 0
               /\ W(i + 1, w)' = W(i, w)' + text'[i + 1][w]
    <2>1. CASE i = n - 1
      BY <1>1, <1>3, <1>7, <2>1
    <2>2. CASE i # n - 1
      <3>1. /\ i \in 0..(Len(text) - 1) /\ i + 1 \in 0..(n - 1) /\ i + 1 \in 1..(n - 1)
        BY <1>1, <2>2
      <3>2. /\ F(i + 1, w) = F(i, w) + IF text[i + 1][w] > 0 THEN 1 ELSE 0
            /\ W(i + 1, w) = W(i, w) + text[i + 1][w]
        BY <3>1 DEF TotalsOK
      <3> QED
        BY <1>1, <1>3, <3>1, <3>2
    <2> QED
      BY <2>1, <2>2
  <1>10. ASSUME NEW i \in 0..n, NEW j \in 0..n, NEW w \in Words, i <= j
         PROVE  Gains(i, j, w)'
    <2>1. CASE j < n
      <3>1. i \in 0..(n - 1) /\ j \in 0..(n - 1)
        BY <1>1, <1>10, <2>1
      <3>2. Gains(i, j, w)
        BY <1>1, <1>10, <3>1 DEF TotalsOK
      <3>3. /\ F(i, w)' = F(i, w) /\ W(i, w)' = W(i, w)
            /\ F(j, w)' = F(j, w) /\ W(j, w)' = W(j, w)
        BY <1>3, <3>1
      <3> QED
        BY <3>2, <3>3 DEF Gains
    <2>2. CASE i = n
      <3>1. i = j
        BY <1>1, <1>10, <2>2
      <3>2. F(i, w)' \in Nat /\ W(i, w)' \in Nat
        BY <1>8
      <3>3. F(j, w)' = F(i, w)' /\ W(j, w)' = W(i, w)'
        BY <3>1, Zenon
      <3> QED
        BY <1>1, <3>1, <3>2, <3>3 DEF Gains
    <2>3. CASE i < n /\ j = n
      <3>0. i \in 0..(n - 1) /\ n - 1 \in 0..(n - 1) /\ i <= n - 1
        BY <1>1, <2>3
      <3>1. i \in 0..(n - 1) /\ n - 1 \in 0..(n - 1) /\ Gains(i, n - 1, w)
        BY <1>1, <3>0 DEF TotalsOK
      <3>2. /\ F(i, w)' = F(i, w) /\ W(i, w)' = W(i, w)
            /\ F(n, w)' = F(n - 1, w) + IF d[w] > 0 THEN 1 ELSE 0
            /\ W(n, w)' = W(n - 1, w) + d[w]
            /\ F(i, w) \in Nat /\ W(i, w) \in Nat /\ d[w] \in Nat
            /\ F(n - 1, w) \in Nat /\ W(n - 1, w) \in Nat
        BY <1>3, <1>5, <1>6, <1>7, <3>1
      <3>3. /\ F(i, w) <= F(n - 1, w) /\ F(n - 1, w) - F(i, w) <= (n - 1) - i
            /\ F(n - 1, w) - F(i, w) <= W(n - 1, w) - W(i, w)
            /\ F(i, w) = F(n - 1, w) => W(i, w) = W(n - 1, w)
        BY <3>1 DEF Gains
      <3>4. i \in Nat /\ n \in Nat /\ (n - 1) - i + 1 = n - i
        BY <1>1
      <3>5. /\ F(i, w)' <= F(n, w)' /\ F(n, w)' - F(i, w)' <= n - i
            /\ F(n, w)' - F(i, w)' <= W(n, w)' - W(i, w)'
            /\ F(i, w)' = F(n, w)' => W(i, w)' = W(n, w)'
        <4>1. CASE d[w] > 0
          BY ONLY <3>2, <3>3, <3>4, <4>1
        <4>2. CASE d[w] = 0
          BY ONLY <3>2, <3>3, <3>4, <4>2
        <4> QED
          BY <3>2, <4>1, <4>2
      <3> QED
        BY <2>3, <3>5 DEF Gains, F, W
    <2> QED
      BY <1>1, <2>1, <2>2, <2>3
  <1>11. /\ \A i \in 1..n : text'[i] \in [Words -> Nat]
         /\ \A i \in 1..n : \A w \in Words : text'[i][w] < Shl(MaxLog)
         /\ n <= MaxDocs
    <2>1. MaxDocs \in Nat
      BY MaxDocsAssumption, ShlType DEF MaxLog
    <2> QED
      BY <1>1, <2>1 DEF TotalsOK
  <1>12. TotalsOK'
    BY <1>1, <1>2, <1>8, <1>9, <1>10, <1>11 DEF TotalsOK
  <1> QED
    BY <1>1, <1>3, <1>4, <1>12

\* The order of the words after one more document.
LEMMA OrderStep ==
  ASSUME OrderOK(first_occr), NEW d \in [Words -> Nat],
         NEW fresh \in FirstOccurrences(d), first_occr' = first_occr \o fresh
  PROVE  /\ OrderOK(first_occr)' /\ Len(first_occr) \in Nat
         /\ Len(first_occr)' \in Nat /\ Len(first_occr) <= Len(first_occr)'
         /\ \A i \in 1..Len(first_occr) : first_occr'[i] = first_occr[i]
         /\ \A w \in Words : d[w] > 0 =>
              \E i \in 1..Len(first_occr)' : first_occr'[i] = w
         /\ \A i \in 1..Len(first_occr)' : i \in 1..Len(first_occr) \/ d[first_occr'[i]] > 0
  <1> DEFINE S == WordsOf(d) \ Known
             m == Cardinality(S)
  <1>0. PICK K : K = Len(first_occr)
    OBVIOUS
  <1>1. /\ fresh \in [1..m -> S]
        /\ \A i, j \in 1..m : fresh[i] = fresh[j] => i = j
        /\ \A w \in S : \E i \in 1..m : fresh[i] = w
    BY DEF FirstOccurrences, Bijection, Injection, Surjection, IsInjective
  <1>2. S \subseteq Words /\ IsFiniteSet(S)
    BY WordsAssumption, FS_Subset DEF WordsOf
  <1>3. m \in Nat
    BY <1>2, FS_CardinalityType
  <1> HIDE DEF m
  <1>4. fresh \in Seq(S) /\ Len(fresh) = m
    BY <1>1, <1>3
  <1>5. DOMAIN first_occr = 1..K /\ K \in Nat
    BY <1>0 DEF OrderOK, IsSeq
  <1>6. S = {w \in WordsOf(d) : \A i \in 1..K : first_occr[i] # w}
    BY <1>5 DEF Known, Range
  <1> HIDE DEF S
  <1>7. IsSeq(fresh)
    BY <1>4 DEF IsSeq
  <1>8. /\ IsSeq(first_occr') /\ Len(first_occr') = K + m
        /\ \A i \in 1..K : first_occr'[i] = first_occr[i]
        /\ \A i \in 1..m : first_occr'[K + i] = fresh[i]
    <2>1. IsSeq(first_occr)
      BY DEF OrderOK
    <2>2. /\ IsSeq(first_occr \o fresh)
          /\ Len(first_occr \o fresh) = Len(first_occr) + Len(fresh)
          /\ \A i \in 1..Len(first_occr) : (first_occr \o fresh)[i] = first_occr[i]
          /\ \A i \in 1..Len(fresh) :
               (first_occr \o fresh)[Len(first_occr) + i] = fresh[i]
      BY ONLY <1>7, <2>1, ConcatIsSeq
    <2>3. Len(fresh) = m
      BY <1>4
    <2> QED
      BY ONLY <1>0, <2>2, <2>3, first_occr' = first_occr \o fresh
  <1>9. ASSUME NEW i \in 1..(K + m)
        PROVE  \/ i \in 1..K /\ first_occr'[i] = first_occr[i]
               \/ /\ i - K \in 1..m /\ first_occr'[i] = fresh[i - K]
                  /\ first_occr'[i] \in S
    <2>1. CASE i <= K
      BY <1>5, <1>8, <2>1
    <2>2. CASE i > K
      <3>1. i - K \in 1..m /\ K + (i - K) = i
        BY <1>3, <1>5, <2>2
      <3> QED
        BY <1>1, <1>8, <3>1
    <2>3. i <= K \/ i > K
      BY <1>3, <1>5
    <2> QED
      BY <2>1, <2>2, <2>3, Zenon
  <1>o. /\ \A i \in 1..K : first_occr[i] \in Words
        /\ \A i, j \in 1..K : first_occr[i] = first_occr[j] => i = j
    BY <1>0 DEF OrderOK
  <1>10. \A i \in 1..(K + m) : first_occr'[i] \in Words
    BY ONLY <1>2, <1>9, <1>o
  <1>11. ASSUME NEW i \in 1..(K + m), NEW j \in 1..(K + m),
                first_occr'[i] = first_occr'[j]
         PROVE  i = j
    <2>1. CASE i \in 1..K /\ j \in 1..K
      BY ONLY <1>8, <1>11, <1>o, <2>1
    <2>2. CASE i \in 1..K /\ j \notin 1..K
      BY <1>6, <1>8, <1>9, <1>11, <2>2
    <2>3. CASE i \notin 1..K /\ j \in 1..K
      BY <1>6, <1>8, <1>9, <1>11, <2>3
    <2>4. CASE i \notin 1..K /\ j \notin 1..K
      <3>1. /\ i - K \in 1..m /\ j - K \in 1..m
            /\ fresh[i - K] = fresh[j - K]
        BY <1>9, <1>11, <2>4
      <3>2. i - K = j - K
        BY <1>1, <3>1
      <3> QED
        BY <1>3, <1>5, <3>2
    <2> QED
      BY <2>1, <2>2, <2>3, <2>4
  <1>12. ASSUME NEW w \in Words, d[w] > 0
         PROVE  \E i \in 1..(K + m) : first_occr'[i] = w
    <2>1. CASE w \in S
      <3>1. PICK i \in 1..m : fresh[i] = w
        BY <1>1, <2>1
      <3>2. K + i \in 1..(K + m) /\ first_occr'[K + i] = w
        BY <1>3, <1>5, <1>8, <3>1
      <3> QED
        BY <3>2
    <2>2. CASE w \notin S
      <3>1. PICK i \in 1..K : first_occr[i] = w
        BY <1>6, <1>12, <2>2 DEF WordsOf
      <3>2. i \in 1..(K + m) /\ first_occr'[i] = w
        BY <1>3, <1>5, <1>8, <3>1
      <3> QED
        BY <3>2
    <2> QED
      BY <2>1, <2>2
  <1>13. OrderOK(first_occr')
    BY <1>8, <1>10, <1>11 DEF OrderOK
  <1>14. K + m \in Nat /\ K <= K + m
    BY <1>3, <1>5
  <1>15. \A i \in 1..(K + m) : i \in 1..K \/ d[first_occr'[i]] > 0
    BY <1>6, <1>9 DEF WordsOf
  <1> QED
    BY <1>0, <1>5, <1>8, <1>12, <1>13, <1>14, <1>15

LEMMA LocalReset ==
  ASSUME NEW h \in [wcnt : Nat, fcnt : Nat, lwcnt : Nat, lfcnt : Nat],
         NEW x, x = [h EXCEPT !.lwcnt = 0, !.lfcnt = 0]
  PROVE  /\ x \in [wcnt : Nat, fcnt : Nat, lwcnt : Nat, lfcnt : Nat]
         /\ x.wcnt = h.wcnt /\ x.fcnt = h.fcnt /\ x.lwcnt = 0 /\ x.lfcnt = 0
  <1>1. x \in [wcnt : Nat, fcnt : Nat, lwcnt : Nat, lfcnt : Nat]
    OBVIOUS
  <1>2. x.wcnt = h.wcnt /\ x.fcnt = h.fcnt /\ x.lwcnt = 0 /\ x.lfcnt = 0
    OBVIOUS
  <1> QED
    BY <1>1, <1>2

\* A document of pass 1 is the n-th of the collection and the N-th of its chunk;
\* e are the counts after it.
DocCounted(d, n, N, e) ==
  /\ TotalsOK' /\ Grown /\ Len(text)' = n /\ n \in Nat \ {0} /\ n - 1 = Len(text)
  /\ OrderOK(first_occr)' /\ InvfLevel' = InvfLevel
  /\ N \in 1..n /\ n - N \in 0..(n - 1) /\ n - N = Len(text) - lcallnum /\ n - 0 = n
  /\ e \in [Words -> [wcnt : Nat, fcnt : Nat, lwcnt : Nat, lfcnt : Nat]]
  /\ \A w \in Words : e[w].lfcnt = ent[w].lfcnt + IF d[w] > 0 THEN 1 ELSE 0
  /\ \A w \in Words : e[w].fcnt = F(n, w)' /\ e[w].wcnt = W(n, w)'
  /\ \A w \in Words : /\ e[w].lfcnt = F(n, w)' - F(n - N, w)'
                       /\ e[w].lwcnt = W(n, w)' - W(n - N, w)'
  /\ \A w \in Words : F(n, w)' > 0 => \E i \in 1..Len(first_occr)' : first_occr'[i] = w
  /\ \A i \in 1..Len(first_occr)' : i \in 1..Len(first_occr) \/ d[first_occr'[i]] > 0
  /\ d \in [Words -> Nat] /\ \A w \in Words : F(n, w)' = F(n - 1, w) + IF d[w] > 0 THEN 1 ELSE 0
  /\ CountedSince(e, N)'

\* The counts are those of the collection.
LEMMA Doc1Counted ==
  ASSUME TotalsOK, CountsOK, NEW d \in Documents,
         NEW fresh \in FirstOccurrences(d), ProcessDoc1(d, fresh)
  PROVE  \E n, N, e : /\ n = Len(text) + 1 /\ N = lcallnum + 1 /\ e = Counted(d)
                      /\ DocCounted(d, n, N, e)
  <1>0. PICK n, N : n = Len(text) + 1 /\ N = lcallnum + 1
    OBVIOUS
  <1>e. PICK e : e = Counted(d)
    OBVIOUS
  <1>r. PICK r : r = [w \in Words |-> [f |-> e[w].fcnt, w |-> e[w].wcnt]]
    OBVIOUS
  <1>1. /\ text' = Append(text, d) /\ totals' = Append(totals, r)
        /\ Len(text) < MaxDocs /\ first_occr' = first_occr \o fresh
        /\ InvfLevel' = InvfLevel
    BY <1>e, <1>r DEF ProcessDoc1, options
  <1>2. d \in [Words -> Nat]
    BY DocumentsAssumption
  <1>d. \A w \in Words : d[w] < Shl(MaxLog)
    BY CountsAssumption
  <1>3. /\ e \in [Words -> [wcnt : Nat, fcnt : Nat, lwcnt : Nat, lfcnt : Nat]]
        /\ \A w \in Words :
             /\ e[w].fcnt = ent[w].fcnt + IF d[w] > 0 THEN 1 ELSE 0
             /\ e[w].wcnt = ent[w].wcnt + d[w]
             /\ e[w].lfcnt = ent[w].lfcnt + IF d[w] > 0 THEN 1 ELSE 0
             /\ e[w].lwcnt = ent[w].lwcnt + d[w]
    <2>1. ent \in [Words -> [wcnt : Nat, fcnt : Nat, lwcnt : Nat, lfcnt : Nat]]
      BY DEF CountsOK, CountedSince
    <2>2. e = [w \in Words |->
                 IF d[w] = 0 THEN ent[w]
                 ELSE [wcnt  |-> ent[w].wcnt + d[w],  fcnt  |-> ent[w].fcnt + 1,
                       lwcnt |-> ent[w].lwcnt + d[w], lfcnt |-> ent[w].lfcnt + 1]]
      BY <1>e DEF Counted
    <2>3. ASSUME NEW w \in Words
          PROVE  /\ e[w] \in [wcnt : Nat, fcnt : Nat, lwcnt : Nat, lfcnt : Nat]
                 /\ e[w].fcnt = ent[w].fcnt + IF d[w] > 0 THEN 1 ELSE 0
                 /\ e[w].wcnt = ent[w].wcnt + d[w]
                 /\ e[w].lfcnt = ent[w].lfcnt + IF d[w] > 0 THEN 1 ELSE 0
                 /\ e[w].lwcnt = ent[w].lwcnt + d[w]
      <3>1. /\ ent[w].wcnt \in Nat /\ ent[w].fcnt \in Nat
            /\ ent[w].lwcnt \in Nat /\ ent[w].lfcnt \in Nat /\ d[w] \in Nat
            /\ ent[w] \in [wcnt : Nat, fcnt : Nat, lwcnt : Nat, lfcnt : Nat]
        BY <1>2, <2>1
      <3>2. CASE d[w] = 0
        BY ONLY <2>2, <3>1, <3>2, w \in Words
      <3>3. CASE d[w] > 0
        <4>1. e[w] = [wcnt  |-> ent[w].wcnt + d[w],  fcnt  |-> ent[w].fcnt + 1,
                      lwcnt |-> ent[w].lwcnt + d[w], lfcnt |-> ent[w].lfcnt + 1]
          BY <2>2, <3>1, <3>3
        <4> QED
          BY ONLY <3>1, <3>3, <4>1
      <3> QED
        BY <3>1, <3>2, <3>3
    <2> QED
      BY <2>2, <2>3
  <1>4. \A w \in Words : /\ r[w].f = F(Len(text), w) + IF d[w] > 0 THEN 1 ELSE 0
                         /\ r[w].w = W(Len(text), w) + d[w]
    BY <1>3, <1>r DEF CountsOK, CountedSince
  <1>5. /\ TotalsOK' /\ Len(text) \in Nat /\ Len(text)' = n
        /\ \A i \in 0..(n - 1) : \A w \in Words :
             F(i, w)' = F(i, w) /\ W(i, w)' = W(i, w)
        /\ \A w \in Words : /\ F(n, w)' = r[w].f /\ W(n, w)' = r[w].w
    BY ONLY TotalsOK, <1>0, <1>1, <1>2, <1>d, <1>4, TotalsStep, SMTT(60)
  <1>6. /\ OrderOK(first_occr)' /\ Len(first_occr) \in Nat
        /\ Len(first_occr)' \in Nat /\ Len(first_occr) <= Len(first_occr)'
        /\ \A i \in 1..Len(first_occr) : first_occr'[i] = first_occr[i]
        /\ \A w \in Words : d[w] > 0 =>
             \E i \in 1..Len(first_occr)' : first_occr'[i] = w
    BY <1>1, <1>2, OrderStep DEF CountsOK
  <1>7. n - 1 = Len(text) /\ n \in Nat \ {0} /\ lcallnum \in 0..Len(text)
    BY <1>0, <1>5 DEF CountsOK
  <1>t. /\ Len(text) \in 0..Len(text) /\ Len(text) - lcallnum \in 0..Len(text)
        /\ \A i \in 0..Len(text) : \A w \in Words : F(i, w) \in Nat /\ W(i, w) \in Nat
    <2>1. Len(text) \in 0..Len(text) /\ Len(text) - lcallnum \in 0..Len(text)
      BY <1>7
    <2>2. \A i \in 0..Len(text) : \A w \in Words : F(i, w) \in Nat /\ W(i, w) \in Nat
      BY DEF TotalsOK
    <2> QED
      BY <2>1, <2>2
  <1>8. Grown
    BY <1>5, <1>6, <1>7 DEF Grown
  <1>9. ASSUME NEW w \in Words, F(n, w)' > 0
        PROVE  \E i \in 1..Len(first_occr)' : first_occr'[i] = w
    <2>1. CASE d[w] > 0
      BY <1>6, <2>1
    <2>2. CASE d[w] = 0
      <3>1. F(Len(text), w) \in Nat
        BY <1>t
      <3>2. F(Len(text), w) > 0
        BY <1>4, <1>5, <1>9, <2>2, <3>1
      <3>3. PICK i \in 1..Len(first_occr) : first_occr[i] = w
        BY <3>2 DEF CountsOK
      <3> QED
        BY <1>6, <3>3
    <2>3. d[w] \in Nat
      BY <1>2
    <2> QED
      BY <2>1, <2>2, <2>3
  <1>10. /\ N \in 1..n /\ n - N \in 0..(n - 1) /\ n - N = Len(text) - lcallnum
         /\ n - 0 = n
    BY <1>0, <1>7
  <1>q. \A w \in Words : F(n, w)' = e[w].fcnt /\ W(n, w)' = e[w].wcnt
    BY <1>5, <1>r
  <1>c. ASSUME NEW w \in Words
        PROVE  /\ e[w].fcnt = F(n, w)' /\ e[w].wcnt = W(n, w)'
               /\ e[w].lfcnt = F(n, w)' - F(n - N, w)'
               /\ e[w].lwcnt = W(n, w)' - W(n - N, w)'
    <2>1. /\ ent[w].lfcnt = F(Len(text), w) - F(Len(text) - lcallnum, w)
          /\ ent[w].lwcnt = W(Len(text), w) - W(Len(text) - lcallnum, w)
      BY DEF CountsOK, CountedSince
    <2>2. /\ F(n - N, w)' = F(Len(text) - lcallnum, w)
          /\ W(n - N, w)' = W(Len(text) - lcallnum, w)
      BY <1>5, <1>10
    <2>3. /\ F(n, w)' = F(Len(text), w) + IF d[w] > 0 THEN 1 ELSE 0
          /\ W(n, w)' = W(Len(text), w) + d[w]
          /\ F(n, w)' = e[w].fcnt /\ W(n, w)' = e[w].wcnt
      BY <1>4, <1>5, <1>q
    <2>4. /\ F(Len(text), w) \in Nat /\ F(Len(text) - lcallnum, w) \in Nat
          /\ W(Len(text), w) \in Nat /\ W(Len(text) - lcallnum, w) \in Nat
          /\ d[w] \in Nat
      BY <1>2, <1>t
    <2> QED
      BY <1>3, <2>1, <2>2, <2>3, <2>4
  <1>11. CountedSince(e, N)'
    BY <1>3, <1>5, <1>c DEF CountedSince
  <1>12. DocCounted(d, n, N, e)
    <2>1. /\ \A w \in Words : e[w].lfcnt = ent[w].lfcnt + IF d[w] > 0 THEN 1 ELSE 0
          /\ e \in [Words -> [wcnt : Nat, fcnt : Nat, lwcnt : Nat, lfcnt : Nat]]
      BY <1>3
    <2>2. \A w \in Words : e[w].fcnt = F(n, w)' /\ e[w].wcnt = W(n, w)'
      BY <1>q
    <2>3. \A w \in Words : /\ e[w].lfcnt = F(n, w)' - F(n - N, w)'
                           /\ e[w].lwcnt = W(n, w)' - W(n - N, w)'
      BY <1>c
    <2>4. \A w \in Words : F(n, w)' > 0 =>
            \E i \in 1..Len(first_occr)' : first_occr'[i] = w
      BY <1>9
    <2>5. TotalsOK' /\ Len(text)' = n /\ OrderOK(first_occr)' /\ InvfLevel' = InvfLevel
      BY <1>1, <1>5, <1>6
    <2>6. \A i \in 1..Len(first_occr)' : i \in 1..Len(first_occr) \/ d[first_occr'[i]] > 0
      BY <1>1, <1>2, OrderStep DEF CountsOK
    <2>7. \A w \in Words : F(n, w)' = F(n - 1, w) + IF d[w] > 0 THEN 1 ELSE 0
      BY <1>4, <1>5, <1>7
    <2> QED
      BY ONLY <1>2, <1>7, <1>8, <1>10, <1>11, <2>1, <2>2, <2>3, <2>4, <2>5, <2>6, <2>7
      DEF DocCounted
  <1> QED
    BY <1>0, <1>e, <1>12

\* A document of pass 1, whether it closes the chunk or not.
LEMMA Pass1Step ==
  ASSUME TotalsOK, CountsOK, ChunksOK, NEW d \in Documents,
         NEW fresh \in FirstOccurrences(d), ProcessDoc1(d, fresh)
  PROVE  TotalsOK' /\ CountsOK' /\ ChunksOK'
  <1>0. PICK n, N, e : /\ n = Len(text) + 1 /\ N = lcallnum + 1 /\ e = Counted(d)
                       /\ DocCounted(d, n, N, e)
    BY Doc1Counted
  <1>1. InvfLevel' = InvfLevel
    BY <1>0 DEF DocCounted
  <1>3. e \in [Words -> [wcnt : Nat, fcnt : Nat, lwcnt : Nat, lfcnt : Nat]]
    BY <1>0 DEF DocCounted
  <1>5. TotalsOK' /\ Len(text)' = n
    BY <1>0 DEF DocCounted
  <1>6. OrderOK(first_occr)'
    BY <1>0 DEF DocCounted
  <1>7. n \in Nat \ {0}
    BY <1>0 DEF DocCounted
  <1>8. Grown
    BY <1>0 DEF DocCounted
  <1>9. \A w \in Words : F(n, w)' > 0 => \E i \in 1..Len(first_occr)' : first_occr'[i] = w
    BY <1>0 DEF DocCounted
  <1>10. /\ N \in 1..n /\ n - N \in 0..(n - 1) /\ n - N = Len(text) - lcallnum
         /\ n - 0 = n
    BY <1>0 DEF DocCounted
  <1>q. \A w \in Words : F(n, w)' = e[w].fcnt /\ W(n, w)' = e[w].wcnt
    BY <1>0 DEF DocCounted
  <1>11. CountedSince(e, N)'
    BY <1>0 DEF DocCounted
  <1>12. Cut(Len(cuts)) = n - N
    BY <1>10 DEF CountsOK
  <1>13. CASE \E mem : dump_dict(e, first_occr', N, mem)
    <2>1. PICK mem : dump_dict(e, first_occr', N, mem)
      BY <1>13
    <2>2. /\ chunk_file' = Append(chunk_file, Description(e, first_occr', N, mem))
          /\ cuts' = Append(cuts, n) /\ lcallnum' = 0
          /\ ent' = [w \in Words |-> [e[w] EXCEPT !.lwcnt = 0, !.lfcnt = 0]]
      BY <1>5, <2>1 DEF dump_dict
    <2>3. ChunksOK' /\ Cut(Len(cuts))' = n
      BY <1>5, <1>8, <1>9, <1>10, <1>11, <1>12, <2>2, ChunkAdded
    <2>4. CountedSince(ent, lcallnum)'
      <3>1. ASSUME NEW w \in Words
            PROVE  /\ ent'[w].fcnt = F(n, w)' /\ ent'[w].wcnt = W(n, w)'
                   /\ ent'[w].lfcnt = 0 /\ ent'[w].lwcnt = 0
                   /\ ent'[w] \in [wcnt : Nat, fcnt : Nat, lwcnt : Nat, lfcnt : Nat]
        <4>1. ent'[w] = [e[w] EXCEPT !.lwcnt = 0, !.lfcnt = 0]
          BY <2>2
        <4>2. e[w] \in [wcnt : Nat, fcnt : Nat, lwcnt : Nat, lfcnt : Nat]
          BY <1>3
        <4>3. /\ ent'[w].fcnt = e[w].fcnt /\ ent'[w].wcnt = e[w].wcnt
              /\ ent'[w].lfcnt = 0 /\ ent'[w].lwcnt = 0
              /\ ent'[w] \in [wcnt : Nat, fcnt : Nat, lwcnt : Nat, lfcnt : Nat]
          BY ONLY <4>1, <4>2, LocalReset
        <4> QED
          BY ONLY <1>q, <4>3, w \in Words
      <3>2. \A w \in Words : F(n, w)' \in Nat /\ W(n, w)' \in Nat
        BY <1>3, <1>q
      <3>3. ent' \in [Words -> [wcnt : Nat, fcnt : Nat, lwcnt : Nat, lfcnt : Nat]]
        BY <2>2, <3>1
      <3>4. Len(text)' = n /\ Len(text)' - lcallnum' = n
        BY <1>5, <1>10, <2>2
      <3>5. \A w \in Words : F(n, w)' - F(n, w)' = 0 /\ W(n, w)' - W(n, w)' = 0
        BY <3>2
      <3> QED
        BY ONLY <3>1, <3>3, <3>4, <3>5 DEF CountedSince
    <2>5. /\ lcallnum' \in 0..Len(text)'
          /\ Cut(Len(cuts))' = Len(text)' - lcallnum'
      <3>1. Len(text)' = n /\ lcallnum' = 0 /\ Cut(Len(cuts))' = n
        BY <1>5, <2>2, <2>3
      <3> QED
        BY ONLY <1>7, <3>1
    <2> QED
      BY <1>1, <1>5, <1>6, <1>9, <2>3, <2>4, <2>5 DEF CountsOK
  <1>14. CASE /\ ent' = e /\ lcallnum' = N
              /\ chunk_file' = chunk_file /\ cuts' = cuts
    <2>1. ChunksOK' /\ Cut(Len(cuts))' = Cut(Len(cuts))
      BY <1>8, <1>14, ChunksKept
    <2>2. CountedSince(ent, lcallnum)'
      BY <1>11, <1>14 DEF CountedSince
    <2>3. lcallnum' \in 0..Len(text)'
      BY <1>5, <1>10, <1>14
    <2> QED
      BY <1>1, <1>5, <1>6, <1>9, <1>12, <1>14, <2>1, <2>2, <2>3 DEF CountsOK
  <1>15. \/ \E mem : dump_dict(e, first_occr', N, mem)
         \/ /\ ent' = e /\ lcallnum' = N
            /\ chunk_file' = chunk_file /\ cuts' = cuts
    BY <1>0, ZenonT(60) DEF ProcessDoc1
  <1> QED
    BY <1>5, <1>13, <1>14, <1>15

\* The end of pass 1 closes the last chunk.
LEMMA Done1Step ==
  ASSUME TotalsOK, CountsOK, ChunksOK, Done1
  PROVE  TotalsOK' /\ CountsOK' /\ ChunksOK'
  <1>0. PICK n, N, e : n = Len(text) /\ N = lcallnum /\ e = ent
    OBVIOUS
  <1>1. /\ text' = text /\ totals' = totals /\ first_occr' = first_occr
        /\ InvfLevel' = InvfLevel
    BY DEF Done1, options
  <1>2. /\ TotalsOK' /\ \A i, w : F(i, w)' = F(i, w) /\ W(i, w)' = W(i, w)
        /\ Len(text)' = n /\ n \in Nat /\ lcallnum \in 0..n
    BY <1>0, <1>1 DEF TotalsOK, F, W, Gains, IsSeq, CountsOK
  <1>3. OrderOK(first_occr)' /\ Len(first_occr) \in Nat
    BY <1>1 DEF CountsOK, OrderOK, IsSeq
  <1>4. Grown
    BY <1>0, <1>1, <1>2, <1>3 DEF Grown
  <1>5. \A w \in Words : F(Len(text), w)' > 0 =>
          \E i \in 1..Len(first_occr)' : first_occr'[i] = w
    BY <1>0, <1>1, <1>2 DEF CountsOK
  <1>6. CountedSince(e, N)'
    BY <1>0, <1>1, <1>2 DEF CountsOK, CountedSince
  <1>7. CASE lcallnum > 0
    <2>1. PICK mem : dump_dict(e, first_occr', N, mem)
      BY <1>0, <1>1, <1>7 DEF Done1
    <2>2. /\ chunk_file' = Append(chunk_file, Description(e, first_occr', N, mem))
          /\ cuts' = Append(cuts, n) /\ lcallnum' = 0
          /\ ent' = [w \in Words |-> [e[w] EXCEPT !.lwcnt = 0, !.lfcnt = 0]]
      BY <1>2, <2>1 DEF dump_dict
    <2>3. N \in 1..n /\ Cut(Len(cuts)) = n - N
      BY <1>0, <1>2, <1>7 DEF CountsOK
    <2>4. ChunksOK' /\ Cut(Len(cuts))' = n
      BY <1>2, <1>4, <1>5, <1>6, <2>2, <2>3, ChunkAdded
    <2>5. CountedSince(ent, lcallnum)'
      <3>1. e \in [Words -> [wcnt : Nat, fcnt : Nat, lwcnt : Nat, lfcnt : Nat]]
        BY <1>6 DEF CountedSince
      <3>2. ASSUME NEW w \in Words
            PROVE  /\ ent'[w].fcnt = F(n, w)' /\ ent'[w].wcnt = W(n, w)'
                   /\ ent'[w].lfcnt = 0 /\ ent'[w].lwcnt = 0
                   /\ ent'[w] \in [wcnt : Nat, fcnt : Nat, lwcnt : Nat, lfcnt : Nat]
                   /\ F(n, w)' \in Nat /\ W(n, w)' \in Nat
        <4>1. ent'[w] = [e[w] EXCEPT !.lwcnt = 0, !.lfcnt = 0]
          BY <2>2
        <4>2. e[w] \in [wcnt : Nat, fcnt : Nat, lwcnt : Nat, lfcnt : Nat]
          BY <3>1
        <4>3. /\ ent'[w].fcnt = e[w].fcnt /\ ent'[w].wcnt = e[w].wcnt
              /\ ent'[w].lfcnt = 0 /\ ent'[w].lwcnt = 0
              /\ ent'[w] \in [wcnt : Nat, fcnt : Nat, lwcnt : Nat, lfcnt : Nat]
          BY ONLY <4>1, <4>2, LocalReset
        <4>4. e[w].fcnt = F(n, w)' /\ e[w].wcnt = W(n, w)'
          BY <1>2, <1>6 DEF CountedSince
        <4> QED
          BY ONLY <4>2, <4>3, <4>4
      <3>3. ent' \in [Words -> [wcnt : Nat, fcnt : Nat, lwcnt : Nat, lfcnt : Nat]]
        BY <2>2, <3>2
      <3>4. Len(text)' = n /\ Len(text)' - lcallnum' = n
        <4>1. Len(text)' = n /\ lcallnum' = 0 /\ n \in Nat
          BY <1>2, <2>2
        <4> QED
          BY ONLY <4>1
      <3>5. \A w \in Words : F(n, w)' - F(n, w)' = 0 /\ W(n, w)' - W(n, w)' = 0
        BY <3>2
      <3> QED
        BY ONLY <3>2, <3>3, <3>4, <3>5 DEF CountedSince
    <2>6. /\ lcallnum' \in 0..Len(text)'
          /\ Cut(Len(cuts))' = Len(text)' - lcallnum'
      <3>1. /\ Len(text)' = n /\ lcallnum' = 0 /\ n \in Nat
            /\ Cut(Len(cuts))' = n
        BY <1>2, <2>2, <2>4
      <3> QED
        BY ONLY <3>1
    <2> QED
      BY <1>1, <1>2, <1>3, <1>5, <2>4, <2>5, <2>6 DEF CountsOK
  <1>8. CASE lcallnum = 0
    <2>1. UNCHANGED <<chunk_file, cuts, ent, lcallnum>>
      BY <1>8 DEF Done1
    <2>2. ChunksOK' /\ Cut(Len(cuts))' = Cut(Len(cuts))
      BY <1>4, <2>1, ChunksKept
    <2> QED
      BY <1>1, <1>2, <1>3, <1>5, <2>1, <2>2 DEF CountsOK, CountedSince
  <1> QED
    BY <1>2, <1>7, <1>8

\* Pass 2 leaves all of this alone.
LEMMA Pass1Kept ==
  ASSUME TotalsOK, CountsOK, ChunksOK, UNCHANGED <<InvfLevel, pass1>>
  PROVE  /\ TotalsOK' /\ CountsOK' /\ ChunksOK'
         /\ \A k : Cut(k)' = Cut(k) /\ DocsOfChunk(k)' = DocsOfChunk(k)
         /\ \A i, w : F(i, w)' = F(i, w) /\ W(i, w)' = W(i, w)
  <1>1. UNCHANGED <<InvfLevel, text, totals, cuts, ent, first_occr, lcallnum, chunk_file>>
    BY DEF pass1
  <1>2. /\ \A k : Cut(k)' = Cut(k) /\ DocsOfChunk(k)' = DocsOfChunk(k)
        /\ \A i, w : F(i, w)' = F(i, w) /\ W(i, w)' = W(i, w)
    BY <1>1 DEF Cut, DocsOfChunk, F, W
  <1>3. TotalsOK'
    BY <1>1, <1>2 DEF TotalsOK, Gains, IsSeq
  <1>4. CountsOK'
    BY <1>1, <1>2 DEF CountsOK, CountedSince, OrderOK, IsSeq
  <1>5. ChunksOK'
    <2>1. /\ IsSeq(chunk_file)' /\ IsSeq(cuts)' /\ (Len(cuts) = Len(chunk_file))'
          /\ (\A k \in 0..Len(cuts) : Cut(k) \in 0..Len(text))'
      BY <1>1, <1>2 DEF ChunksOK, IsSeq
    <2>2. ASSUME NEW k \in 1..Len(cuts) PROVE Describes(k)'
      <3>1. Describes(k)
        BY DEF ChunksOK
      <3>2. \A w : CountsIn(chunk_file[k], w)' = CountsIn(chunk_file[k], w)
        BY <1>1 DEF CountsIn
      <3> QED
        BY <1>1, <1>2, <3>1, <3>2 DEF Describes
    <2> QED
      BY <1>1, <2>1, <2>2 DEF ChunksOK
  <1> QED
    BY <1>2, <1>3, <1>4, <1>5
----------------------------------------------------------------------------
(* Pass 2.                                                                 *)

\* The counts of a chunk and its parameter, as pass 2 finds them.
LEMMA ChunkFacts ==
  ASSUME TotalsOK, ChunksOK, NEW k \in 1..Len(cuts), NEW w \in Words,
         NEW N, N = Cut(k) - Cut(k - 1), NEW p, p = F(Cut(k), w) - F(Cut(k - 1), w)
  PROVE  /\ Cut(k) \in 0..Len(text) /\ Cut(k - 1) \in 0..Len(text)
         /\ N \in 1..(Shl(MaxLog) - 1) /\ p \in 0..N /\ chunk_file[k].docs = N
         /\ CountsIn(chunk_file[k], w).fcnt = p
         /\ CountsIn(chunk_file[k], w).wcnt = W(Cut(k), w) - W(Cut(k - 1), w)
         /\ p > 0 => /\ BblockInitW(N, p) \in Operand
                     /\ Shl(FloorLog2(BblockInitW(N, p))) = BblockInitW(N, p)
  <1>1. Describes(k)
    BY DEF ChunksOK
  <1>2. k - 1 \in 0..Len(cuts) /\ k \in 0..Len(cuts)
    BY DEF ChunksOK, IsSeq
  <1>3. Cut(k) \in 0..Len(text) /\ Cut(k - 1) \in 0..Len(text) /\ Len(text) \in Nat
    BY <1>2 DEF ChunksOK, TotalsOK, IsSeq
  <1>4. Shl(MaxLog) \in Nat /\ MaxDocs \in Nat /\ MaxDocs <= Shl(MaxLog) - 1
    BY MaxDocsAssumption, ShlType DEF MaxLog
  <1>5. Len(text) <= MaxDocs
    BY DEF TotalsOK
  <1>6. Cut(k - 1) < Cut(k) /\ N \in 1..(Shl(MaxLog) - 1)
    BY <1>1, <1>3, <1>4, <1>5 DEF Describes
  <1>7. Gains(Cut(k - 1), Cut(k), w)
    BY <1>3, <1>6 DEF TotalsOK
  <1>8. F(Cut(k), w) \in Nat /\ F(Cut(k - 1), w) \in Nat
    BY <1>3 DEF TotalsOK
  <1>9. p \in 0..N
    BY <1>6, <1>7, <1>8 DEF Gains
  <1>10. /\ chunk_file[k].docs = N /\ CountsIn(chunk_file[k], w).fcnt = p
         /\ CountsIn(chunk_file[k], w).wcnt = W(Cut(k), w) - W(Cut(k - 1), w)
    <2>1. /\ chunk_file[k].docs = N
          /\ CountsIn(chunk_file[k], w) = [wcnt |-> W(Cut(k), w) - W(Cut(k - 1), w),
                                           fcnt |-> F(Cut(k), w) - F(Cut(k - 1), w)]
      BY <1>1, Zenon DEF Describes
    <2> QED
      BY <2>1
  <1>11. p > 0 => /\ BblockInitW(N, p) \in Operand
                  /\ Shl(FloorLog2(BblockInitW(N, p))) = BblockInitW(N, p)
    BY <1>6, <1>9, BblockInitWRange
  <1> QED
    BY <1>3, <1>6, <1>9, <1>10, <1>11

\* LoadCounts starts at the cut where the chunk read before has ended.
LEMMA LoadStep ==
  ASSUME IInv, LoadCounts
  PROVE  IInv'
  <1> USE DEF IInv
  <1>1. /\ TotalsOK' /\ CountsOK' /\ ChunksOK'
        /\ \A k : Cut(k)' = Cut(k) /\ DocsOfChunk(k)' = DocsOfChunk(k)
        /\ \A i, w : F(i, w)' = F(i, w) /\ W(i, w)' = W(i, w)
    BY Pass1Kept DEF LoadCounts, options
  <1>2. /\ stage = "pass2" /\ docs_left = 0 /\ callnum < Len(text)
        /\ callnum' = callnum /\ text' = text /\ chunk_file' = chunk_file
        /\ InvfLevel' = InvfLevel
    BY DEF LoadCounts, options, pass1
  <1>3. Cut(at) = callnum /\ next_docs_left = DocsOfChunk(at) /\ callnum \in Nat
        /\ at \in 0..Len(chunk_file)
    BY <1>2 DEF ReadOK, ChunksOK, TotalsOK, IsSeq
  <1>4. CASE /\ next_docs_left = 0 /\ stage' = "failed"
             /\ UNCHANGED <<at, docs_left, wr>>
    <2>1. ReadOK'
      BY <1>1, <1>2, <1>4 DEF ReadOK
    <2>2. CodedOK'
      BY <1>1, <1>2, <1>4 DEF CodedOK, Coded
    <2> QED
      BY <1>1, <2>1, <2>2
  <1>5. CASE /\ next_docs_left > 0 /\ at' = at + 1
             /\ docs_left' = next_docs_left /\ next_docs_left' = DocsOfChunk(at + 1)
             /\ stage' \in {"pass2", "failed"}
             /\ \A w \in Words : wr'[w] =
                  [start |-> RegionStart(chunk_file[at + 1], w), used |-> 0,
                   codes |-> <<>>, last |-> callnum,
                   b |-> IF CountsIn(chunk_file[at + 1], w).fcnt = 0 THEN 1
                         ELSE Shl(FloorLog2(BblockInitW(next_docs_left,
                                          CountsIn(chunk_file[at + 1], w).fcnt)))]
    <2>0. PICK k : k = at + 1
      OBVIOUS
    <2>1. at < Len(chunk_file) /\ k \in 1..Len(cuts) /\ k - 1 = at
      BY <1>3, <1>5, <2>0 DEF DocsOfChunk, ChunksOK, IsSeq
    <2>2. next_docs_left = Cut(k) - callnum
      BY <1>3, <2>0, <2>1 DEF DocsOfChunk, ChunksOK, Describes
    <2>3. ReadOK'
      <3>1. Cut(k) \in Nat /\ Len(cuts) = Len(chunk_file) /\ Len(cuts) \in Nat
        BY <2>1 DEF ChunksOK, IsSeq
      <3>2. at' = k /\ k \in 0..Len(chunk_file) /\ k > 0
        BY <1>5, <2>0, <2>1, <3>1
      <3>3. (callnum \in 0..Len(text))'
        BY <1>2 DEF ReadOK
      <3>4. docs_left' = Cut(k)' - callnum' /\ docs_left' >= 0
        BY <1>1, <1>2, <1>3, <1>5, <2>2, <3>1
      <3>5. Cut(k - 1)' <= callnum'
        BY <1>1, <1>2, <1>3, <2>1
      <3>6. next_docs_left' = DocsOfChunk(k)'
        BY <1>1, <1>5, <2>0
      <3> QED
        BY <1>2, <1>5, <3>2, <3>3, <3>4, <3>5, <3>6 DEF ReadOK
    <2>4. ASSUME NEW w \in Words
          PROVE  Coded(w)'
      <3>1. PICK N, p : N = Cut(k) - Cut(k - 1) /\ p = F(Cut(k), w) - F(Cut(k - 1), w)
        OBVIOUS
      <3>2. /\ CountsIn(chunk_file[k], w).fcnt = p /\ p \in Nat
            /\ p > 0 => Shl(FloorLog2(BblockInitW(N, p))) = BblockInitW(N, p)
        BY <2>1, <3>1, ChunkFacts
      <3>3. N = next_docs_left /\ Cut(k - 1) = callnum
        BY <1>3, <2>1, <2>2, <3>1
      <3>4. /\ wr'[w].used = 0 /\ wr'[w].last = callnum
            /\ wr'[w].b = IF p = 0 THEN 1 ELSE BblockInitW(N, p)
        <4>1. wr'[w] = [start |-> RegionStart(chunk_file[k], w), used |-> 0,
                        codes |-> <<>>, last |-> callnum,
                        b |-> IF p = 0 THEN 1
                              ELSE Shl(FloorLog2(BblockInitW(N, p)))]
          BY <1>5, <2>0, <3>2, <3>3, Zenon
        <4>2. wr'[w].b = IF p = 0 THEN 1 ELSE Shl(FloorLog2(BblockInitW(N, p)))
          BY <4>1
        <4>3. wr'[w].b = IF p = 0 THEN 1 ELSE BblockInitW(N, p)
          BY ONLY <3>2, <4>2
        <4> QED
          BY <4>1, <4>3
      <3>5. F(callnum, w) - F(callnum, w) = 0
        BY <1>3 DEF TotalsOK, ReadOK
      <3>6. /\ at' = k /\ Cut(k)' = Cut(k) /\ Cut(k - 1)' = callnum
            /\ F(Cut(k), w)' = F(Cut(k), w) /\ F(callnum, w)' = F(callnum, w)
        <4>1. at' = k /\ Cut(k)' = Cut(k) /\ Cut(k - 1)' = Cut(k - 1)
          BY <1>1, <1>5, <2>0
        <4>2. \A i : F(i, w)' = F(i, w)
          BY <1>1, Zenon
        <4> QED
          BY <1>2, <3>3, <4>1, <4>2
      <3> QED
        BY <1>2, <1>3, <3>1, <3>3, <3>4, <3>5, <3>6 DEF Coded
    <2> QED
      BY <1>1, <2>3, <2>4 DEF CodedOK
  <1>6. \/ /\ next_docs_left = 0 /\ stage' = "failed"
           /\ UNCHANGED <<at, docs_left, wr>>
        \/ /\ next_docs_left > 0 /\ at' = at + 1
           /\ docs_left' = next_docs_left /\ next_docs_left' = DocsOfChunk(at + 1)
           /\ stage' \in {"pass2", "failed"}
           /\ \A w \in Words : wr'[w] =
                [start |-> RegionStart(chunk_file[at + 1], w), used |-> 0,
                 codes |-> <<>>, last |-> callnum,
                 b |-> IF CountsIn(chunk_file[at + 1], w).fcnt = 0 THEN 1
                       ELSE Shl(FloorLog2(BblockInitW(next_docs_left,
                                        CountsIn(chunk_file[at + 1], w).fcnt)))]
    BY <1>2 DEF LoadCounts
  <1> QED
    BY <1>4, <1>5, <1>6

\* A document of pass 2.
LEMMA ProcessDoc2Step ==
  ASSUME IInv, ProcessDoc2
  PROVE  IInv'
  <1>0. PICK n, c, k : n = callnum + 1 /\ c = callnum /\ k = at
    OBVIOUS
  <1>1. /\ TotalsOK' /\ CountsOK' /\ ChunksOK'
        /\ \A i : Cut(i)' = Cut(i) /\ DocsOfChunk(i)' = DocsOfChunk(i)
        /\ \A i, w : F(i, w)' = F(i, w) /\ W(i, w)' = W(i, w)
    BY Pass1Kept DEF IInv, ProcessDoc2, options
  <1>2. /\ stage = "pass2" /\ docs_left > 0 /\ c < Len(text)
        /\ callnum' = n /\ text' = text /\ chunk_file' = chunk_file
        /\ InvfLevel' = InvfLevel /\ at' = k /\ next_docs_left' = next_docs_left
        /\ docs_left' = docs_left - 1 /\ stage' \in {"pass2", "merge"}
    BY <1>0 DEF ProcessDoc2, options, pass1
  <1>3. /\ c \in Nat /\ n = c + 1 /\ k \in 0..Len(chunk_file) /\ Len(text) \in Nat
        /\ docs_left = Cut(k) - c /\ Cut(0) = 0
        /\ Len(cuts) = Len(chunk_file) /\ Len(cuts) \in Nat
    BY <1>0 DEF IInv, ReadOK, ChunksOK, TotalsOK, IsSeq, Cut
  <1>4. k \in 1..Len(cuts)
    BY <1>2, <1>3
  <1>5. PICK s, e : s = Cut(k - 1) /\ e = Cut(k)
    OBVIOUS
  <1>6. s \in 0..Len(text) /\ e \in 0..Len(text) /\ s <= c /\ n <= e
    <2>1. k - 1 \in 0..Len(cuts) /\ k \in 0..Len(cuts) /\ k > 0
      BY <1>3, <1>4
    <2>2. s \in 0..Len(text) /\ e \in 0..Len(text)
      BY <1>5, <2>1 DEF IInv, ChunksOK
    <2>3. s <= c
      BY <1>0, <1>5, <2>1 DEF IInv, ReadOK
    <2> QED
      BY <1>2, <1>3, <1>5, <2>2, <2>3
  <1>7. ReadOK'
    <2>1. at' = k /\ k \in 0..Len(chunk_file)' /\ k # 0 /\ k > 0
      BY <1>2, <1>3, <1>4
    <2>2. n \in 0..Len(text)' /\ docs_left' = Cut(k)' - n /\ docs_left' >= 0
      BY <1>1, <1>2, <1>3, <1>5, <1>6
    <2>3. Cut(k - 1)' <= n
      BY <1>1, <1>3, <1>5, <1>6
    <2>4. next_docs_left' = DocsOfChunk(k)'
      BY <1>0, <1>1, <1>2 DEF IInv, ReadOK
    <2> QED
      BY <1>2, <2>1, <2>2, <2>3, <2>4 DEF ReadOK
  <1>8. text[n] \in [Words -> Nat]
    BY <1>2, <1>3 DEF IInv, TotalsOK
  <1>w. ASSUME NEW w \in Words
        PROVE  /\ text[n][w] > 0 =>
                    /\ wr'[w].last = n /\ wr'[w].b = wr[w].b
                    /\ wr'[w].used = wr[w].used + BblockLength(n - wr[w].last, wr[w].b)
                                       + IF InvfLevel >= 2 THEN text[n][w] ELSE 0
               /\ ~(text[n][w] > 0) => wr'[w] = wr[w]
    <2>1. wr'[w] =
            IF text[callnum + 1][w] > 0
            THEN [start |-> wr[w].start, last |-> callnum + 1, b |-> wr[w].b,
                  used |-> wr[w].used
                             + BblockLength(callnum + 1 - wr[w].last, wr[w].b)
                             + IF InvfLevel >= 2 THEN text[callnum + 1][w] ELSE 0,
                  codes |-> Append(wr[w].codes,
                              [gap |-> BblockEncode(callnum + 1 - wr[w].last, wr[w].b),
                               tf |-> IF InvfLevel >= 2 THEN text[callnum + 1][w]
                                      ELSE 0])]
            ELSE wr[w]
      BY DEF ProcessDoc2
    <2>2. text[callnum + 1][w] > 0 =>
            /\ wr'[w].last = callnum + 1 /\ wr'[w].b = wr[w].b
            /\ wr'[w].used = wr[w].used
                               + BblockLength(callnum + 1 - wr[w].last, wr[w].b)
                               + IF InvfLevel >= 2 THEN text[callnum + 1][w] ELSE 0
      BY <2>1
    <2>3. ~(text[callnum + 1][w] > 0) => wr'[w] = wr[w]
      BY ONLY <2>1, Zenon
    <2>4. n = callnum + 1 /\ callnum + (1 - wr[w].last) = n - wr[w].last
      <3>1. wr[w].last \in s..c
        BY <1>0, <1>4, <1>5 DEF IInv, CodedOK, Coded
      <3> QED
        BY <1>0, <1>3, <1>6, <3>1
    <2>5. text[n][w] > 0 =>
            /\ wr'[w].last = n /\ wr'[w].b = wr[w].b
            /\ wr'[w].used = wr[w].used + BblockLength(n - wr[w].last, wr[w].b)
                               + IF InvfLevel >= 2 THEN text[n][w] ELSE 0
      BY ONLY <2>2, <2>4, Zenon
    <2>6. ~(text[n][w] > 0) => wr'[w] = wr[w]
      BY ONLY <2>3, <2>4, Zenon
    <2> QED
      BY ONLY <2>5, <2>6, Zenon
  <1>9. ASSUME NEW w \in Words
        PROVE  Coded(w)'
    <2>1. PICK a, z, f, g, h, u, v, x :
            /\ a = F(s, w) /\ z = F(c, w) /\ f = F(n, w) /\ g = F(e, w)
            /\ h = W(s, w) /\ u = W(c, w) /\ v = W(n, w) /\ x = text[n][w]
      OBVIOUS
    <2>2. /\ a \in Nat /\ z \in Nat /\ f \in Nat /\ g \in Nat
          /\ h \in Nat /\ u \in Nat /\ v \in Nat /\ x \in Nat
      <3>1. /\ s \in 0..Len(text) /\ c \in 0..Len(text)
            /\ n \in 0..Len(text) /\ e \in 0..Len(text)
        BY <1>2, <1>3, <1>6
      <3>2. \A i \in 0..Len(text) : F(i, w) \in Nat /\ W(i, w) \in Nat
        BY DEF IInv, TotalsOK
      <3> QED
        BY <1>8, <2>1, <3>1, <3>2
    <2>3. f = z + (IF x > 0 THEN 1 ELSE 0) /\ v = u + x
      <3>1. c \in 0..(Len(text) - 1)
        BY <1>2, <1>3
      <3> QED
        BY <1>3, <2>1, <3>1 DEF IInv, TotalsOK
    <2>4. a <= z /\ (a = z => h = u) /\ h <= u /\ f <= g /\ g - a <= e - s
      <3>1. Gains(s, c, w) /\ Gains(n, e, w) /\ Gains(s, e, w)
        <4>1. /\ c \in 0..Len(text) /\ n \in 0..Len(text)
              /\ s <= c /\ n <= e /\ s <= e
          BY <1>2, <1>3, <1>6
        <4> QED
          BY <1>6, <4>1 DEF IInv, TotalsOK
      <3> QED
        BY <2>1, <2>2, <3>1 DEF Gains
    <2>5. PICK b, used, last, tf :
            /\ b = wr[w].b /\ used = wr[w].used /\ last = wr[w].last
            /\ tf = IF InvfLevel >= 2 THEN u - h ELSE 0
      OBVIOUS
    <2>6. /\ b = IF g - a = 0 THEN 1 ELSE BblockInitW(e - s, g - a)
          /\ last \in s..c /\ used \in Nat
          /\ z - a = 0 => used = 0 /\ last = s
          /\ z - a > 0 => used <= Used(z - a, last - s, b) + tf
      <3>1. Coded(w)
        BY <1>0, <1>4 DEF IInv, CodedOK
      <3> QED
        BY <1>0, <1>5, <2>1, <2>5, <3>1 DEF Coded
    <2>7. /\ at' = k /\ callnum' = n /\ Cut(k - 1)' = s /\ Cut(k)' = e
          /\ F(s, w)' = a /\ F(e, w)' = g /\ F(n, w)' = f
          /\ W(s, w)' = h /\ W(n, w)' = v
      BY <1>1, <1>2, <1>5, <2>1
    <2>8. CASE x = 0
      <3>1. wr'[w] = wr[w]
        <4>1. ~(text[n][w] > 0)
          BY <2>1, <2>2, <2>8
        <4> QED
          BY <1>w, <4>1
      <3>2. f = z /\ v = u /\ last \in s..n
        BY <1>3, <1>6, <2>2, <2>3, <2>6, <2>8
      <3> QED
        BY <1>2, <2>5, <2>6, <2>7, <3>1, <3>2 DEF Coded
    <2>9. CASE x > 0
      <3>1. PICK t : t = IF InvfLevel >= 2 THEN x ELSE 0
        OBVIOUS
      <3>2. /\ wr'[w].used = used + BblockLength(n - last, b) + t
            /\ wr'[w].last = n /\ wr'[w].b = b
        BY <1>w, <2>1, <2>5, <2>9, <3>1
      <3>3. b \in Operand
        <4>1. g - a \in 1..(e - s)
          BY <1>3, <1>6, <2>2, <2>3, <2>4, <2>9
        <4>2. e - s \in 1..(Shl(MaxLog) - 1)
          <5>1. Shl(MaxLog) \in Nat /\ MaxDocs \in Nat /\ MaxDocs <= Shl(MaxLog) - 1
            BY MaxDocsAssumption, ShlType DEF MaxLog
          <5>2. Len(text) <= MaxDocs
            BY DEF IInv, TotalsOK
          <5> QED
            BY <1>3, <1>6, <5>1, <5>2
        <4>3. BblockInitW(e - s, g - a) \in Operand
          BY <4>1, <4>2, BblockInitWRange
        <4>4. g - a # 0
          BY <1>6, <4>1
        <4> QED
          BY <2>6, <4>3, <4>4
      <3>4. tf \in Nat /\ t \in Nat /\ (z - a = 0 => tf = 0)
        BY <2>2, <2>4, <2>5, <3>1
      <3>5. /\ z - a \in Nat /\ last - s \in Nat /\ n - last \in Nat \ {0}
            /\ f - a = (z - a) + 1 /\ n - s = (last - s) + (n - last)
            /\ (z - a = 0 => last - s = 0) /\ n \in s..n /\ f - a > 0
        BY <1>3, <1>6, <2>2, <2>3, <2>4, <2>6, <2>9
      <3>6. /\ used + BblockLength(n - last, b) + t \in Nat
            /\ used + BblockLength(n - last, b) + t
                 <= Used(f - a, n - s, b) + (tf + t)
        <4>1. PICK k0, n0, x0, k1, n1 :
                /\ k0 = z - a /\ n0 = last - s /\ x0 = n - last
                /\ k1 = f - a /\ n1 = n - s
          OBVIOUS
        <4>2. /\ k0 \in Nat /\ n0 \in Nat /\ x0 \in Nat \ {0}
              /\ k1 = k0 + 1 /\ n1 = n0 + x0
              /\ k0 = 0 => used = 0 /\ n0 = 0 /\ tf = 0
              /\ k0 > 0 => used <= Used(k0, n0, b) + tf
          BY ONLY <2>6, <3>4, <3>5, <4>1
        <4>3. /\ used + BblockLength(x0, b) + t \in Nat
              /\ used + BblockLength(x0, b) + t <= Used(k1, n1, b) + (tf + t)
          <5>1. /\ BblockLength(x0, b) \in Nat /\ BblockLength(x0, b) <= Share(x0, b)
                /\ Share(x0, b) \in Int
            BY ONLY <3>3, <4>2, BblockLengthBound, ShareType
          <5>2. /\ Used(k0, n0, b) \in Int
                /\ Used(k0, n0, b) + Share(x0, b) <= Used(k1, n1, b)
            BY ONLY <3>3, <4>2, UsedType, UsedStep
          <5>3. used <= Used(k0, n0, b) + tf
            <6>1. Used(0, 0, b) = 0
              BY ONLY <3>3, UsedZero
            <6> QED
              BY ONLY <4>2, <6>1
          <5>4. k1 \in Nat /\ n1 \in Nat
            BY ONLY <4>2
          <5>5. Used(k1, n1, b) \in Int
            BY ONLY <3>3, <5>4, UsedType
          <5> QED
            BY ONLY <2>6, <3>4, <5>1, <5>2, <5>3, <5>5
        <4> QED
          BY ONLY <4>1, <4>3
      <3>7. tf + t = IF InvfLevel >= 2 THEN v - h ELSE 0
        BY <2>2, <2>3, <2>5, <3>1
      <3>8. f - a # 0
        BY <2>2, <3>5
      <3> QED
        BY <1>2, <2>6, <2>7, <3>2, <3>5, <3>6, <3>7, <3>8 DEF Coded
    <2> QED
      BY <2>2, <2>8, <2>9
  <1> QED
    BY <1>1, <1>7, <1>9 DEF IInv, CodedOK

LEMMA InitIInv == Init => IInv
  <1> SUFFICES ASSUME Init PROVE IInv
    OBVIOUS
  <1>1. /\ text = <<>> /\ totals = <<>> /\ cuts = <<>> /\ chunk_file = <<>>
        /\ first_occr = <<>> /\ at = 0 /\ callnum = 0 /\ docs_left = 0 /\ lcallnum = 0
        /\ next_docs_left = 0 /\ stage = "pass1" /\ InvfLevel \in {1, 2, 3}
        /\ ent = [w \in Words |-> [wcnt |-> 0, fcnt |-> 0, lwcnt |-> 0, lfcnt |-> 0]]
    BY DEF Init, NoCounts
  <1>2. IsSeq(<<>>) /\ Len(<<>>) = 0
    BY EmptyIsSeq
  <1>3. \A w : F(0, w) = 0 /\ W(0, w) = 0
    BY DEF F, W
  <1>4. TotalsOK
    <2>1. MaxDocs \in Nat \ {0}
      BY MaxDocsAssumption, ShlType DEF MaxLog
    <2> QED
      BY <1>1, <1>2, <1>3, <2>1 DEF TotalsOK, Gains
  <1>5. CountsOK
    BY <1>1, <1>2, <1>3 DEF CountsOK, OrderOK, CountedSince, Cut
  <1>6. ChunksOK /\ ReadOK /\ CodedOK
    BY <1>1, <1>2 DEF ChunksOK, ReadOK, CodedOK, Cut
  <1> QED
    BY <1>4, <1>5, <1>6 DEF IInv

LEMMA StepIInv == IInv /\ [Next]_vars => IInv'
  <1> SUFFICES ASSUME IInv, [Next]_vars PROVE IInv'
    OBVIOUS
  <1>1. CASE Pass1 \/ Done1
    <2>1. TotalsOK' /\ CountsOK' /\ ChunksOK'
      BY <1>1, Pass1Step, Done1Step DEF IInv, Pass1
    <2>2. /\ stage = "pass1" /\ stage' \in {"pass1", "built", "failed"}
          /\ UNCHANGED <<at, callnum, docs_left, next_docs_left>>
      BY <1>1, ZenonT(60) DEF Pass1, ProcessDoc1, Done1, memory
    <2>3. at = 0 /\ callnum = 0 /\ docs_left = 0
      <3>1. at = 0 /\ docs_left = Cut(0) - callnum /\ docs_left >= 0 /\ callnum \in Nat
        BY <2>2 DEF IInv, ReadOK, TotalsOK, IsSeq
      <3> QED
        BY <3>1 DEF Cut
    <2>4. 0 \in 0..Len(text)' /\ 0 \in 0..Len(chunk_file)'
      BY <2>1 DEF TotalsOK, ChunksOK, IsSeq
    <2>5. ReadOK' /\ CodedOK'
      BY <2>2, <2>3, <2>4 DEF ReadOK, CodedOK, Cut
    <2> QED
      BY <2>1, <2>5 DEF IInv
  <1>2. CASE LoadCounts
    BY <1>2, LoadStep
  <1>3. CASE ProcessDoc2
    BY <1>3, ProcessDoc2Step
  <1>4. CASE init_ivf_2 \/ DumpChunk \/ DiskMerge \/ done_ivf_2 \/ UNCHANGED vars
    <2>1. UNCHANGED <<InvfLevel, pass1, at, callnum, docs_left, wr>>
      BY <1>4 DEF init_ivf_2, DumpChunk, DiskMerge, done_ivf_2, vars, options, memory
    <2>2. /\ TotalsOK' /\ CountsOK' /\ ChunksOK'
          /\ \A k : Cut(k)' = Cut(k) /\ DocsOfChunk(k)' = DocsOfChunk(k)
          /\ \A i, w : F(i, w)' = F(i, w) /\ W(i, w)' = W(i, w)
      BY <2>1, Pass1Kept DEF IInv
    <2>3. UNCHANGED <<text, chunk_file>>
      BY <2>1 DEF pass1
    <2>4. CodedOK'
      BY <2>1, <2>2 DEF IInv, CodedOK, Coded
    <2>5. /\ stage' \in {"pass2", "merge"} => next_docs_left' = DocsOfChunk(at)
          /\ stage' \in {"pass1", "built"} => at = 0
      BY <1>4 DEF IInv, ReadOK, init_ivf_2, DumpChunk, DiskMerge, done_ivf_2, vars,
                  memory
    <2>6. ReadOK'
      BY <2>1, <2>2, <2>3, <2>5 DEF IInv, ReadOK
    <2> QED
      BY <2>2, <2>4, <2>6 DEF IInv
  <1> QED
    BY <1>1, <1>2, <1>3, <1>4 DEF Next, Pass2

\* The chunk is coded from counts that describe it, and what its postings have
\* used is at most the bound of an entry that stops here.
LEMMA IInvNoOverrun == IInv => NoOverrun
  <1> SUFFICES ASSUME IInv, at > 0, NEW w \in Words
               PROVE  wr[w].used <= Region(chunk_file[at], w)
    BY DEF NoOverrun
  <1>1. at \in 1..Len(cuts) /\ Len(text) \in Nat /\ callnum \in 0..Len(text)
    BY DEF IInv, ReadOK, ChunksOK, TotalsOK, IsSeq
  <1>2. PICK k, s, e, c, N, p, q :
          /\ k = at /\ s = Cut(k - 1) /\ e = Cut(k) /\ c = callnum
          /\ N = Cut(k) - Cut(k - 1) /\ p = F(Cut(k), w) - F(Cut(k - 1), w)
          /\ q = W(Cut(k), w) - W(Cut(k - 1), w)
    OBVIOUS
  <1>3. /\ e \in 0..Len(text) /\ s \in 0..Len(text)
        /\ N \in 1..(Shl(MaxLog) - 1) /\ p \in 0..N /\ chunk_file[k].docs = N
        /\ CountsIn(chunk_file[k], w).fcnt = p /\ CountsIn(chunk_file[k], w).wcnt = q
        /\ p > 0 => BblockInitW(N, p) \in Operand
    BY <1>1, <1>2, ChunkFacts DEF IInv
  <1>4. s <= c /\ c <= e /\ c \in Nat /\ N = e - s
    <2>1. e - c = docs_left /\ docs_left >= 0 /\ s <= c
      BY <1>2 DEF IInv, ReadOK
    <2> QED
      BY <1>1, <1>2, <1>3, <2>1
  <1>5. PICK a, z, g, h, u, v :
          /\ a = F(s, w) /\ z = F(c, w) /\ g = F(e, w)
          /\ h = W(s, w) /\ u = W(c, w) /\ v = W(e, w)
    OBVIOUS
  <1>6. /\ a \in Nat /\ z \in Nat /\ g \in Nat /\ h \in Nat /\ u \in Nat /\ v \in Nat
        /\ p = g - a /\ q = v - h
    <2>1. \A i \in 0..Len(text) : F(i, w) \in Nat /\ W(i, w) \in Nat
      BY DEF IInv, TotalsOK
    <2> QED
      BY <1>1, <1>2, <1>3, <1>5, <2>1
  <1>7. /\ a <= z /\ h <= u /\ z <= g /\ u <= v /\ g - z <= e - c
        /\ g - a <= v - h /\ (a = g => h = v)
    <2>1. c \in 0..Len(text) /\ s <= e
      BY <1>1, <1>2, <1>3, <1>4
    <2>2. Gains(s, c, w) /\ Gains(c, e, w) /\ Gains(s, e, w)
      BY <1>3, <1>4, <2>1 DEF IInv, TotalsOK
    <2> QED
      BY <1>5, <1>6, <2>2 DEF Gains
  <1>8. PICK b, used, last, tf :
          /\ b = wr[w].b /\ used = wr[w].used /\ last = wr[w].last
          /\ tf = IF InvfLevel >= 2 THEN u - h ELSE 0
    OBVIOUS
  <1>9. /\ b = IF p = 0 THEN 1 ELSE BblockInitW(N, p)
        /\ last \in s..c /\ used \in Nat
        /\ z - a = 0 => used = 0 /\ last = s
        /\ z - a > 0 => used <= Used(z - a, last - s, b) + tf
    <2>1. Coded(w)
      BY DEF IInv, CodedOK
    <2> QED
      BY <1>2, <1>4, <1>5, <1>6, <1>8, <2>1 DEF Coded
  <1>10. Region(chunk_file[k], w) =
           IF q = 0 THEN 0
           ELSE (IF p = 0 THEN 0 ELSE BblockBoundB(N, p, BblockInitW(N, p)))
                + IF InvfLevel >= 2 THEN q ELSE 0
    BY <1>3 DEF Region, RegionLength, BblockBound
  <1>11. CASE p = 0
    <2>1. q = 0 /\ used = 0
      BY <1>6, <1>7, <1>9, <1>11
    <2> QED
      BY <1>2, <1>8, <1>10, <2>1
  <1>12. CASE p > 0
    <2>1. q # 0 /\ b \in Operand /\ b = BblockInitW(N, p)
      BY <1>3, <1>6, <1>7, <1>9, <1>12, SMTT(60)
    <2>2. tf \in Nat /\ tf <= IF InvfLevel >= 2 THEN q ELSE 0
      BY <1>6, <1>7, <1>8
    <2>3. PICK k0, n0 : k0 = z - a /\ n0 = last - s
      OBVIOUS
    <2>4. k0 \in 0..p /\ n0 \in 0..N /\ p - k0 <= N - n0
      BY <1>3, <1>4, <1>6, <1>7, <1>9, <2>3
    <2>5. /\ Used(k0, n0, b) <= BblockBoundB(N, p, b) /\ Used(k0, n0, b) \in Int
          /\ BblockBoundB(N, p, b) \in Int
      <3>1. N \in Nat /\ p \in Nat /\ k0 \in Nat /\ n0 \in Nat
        BY <1>3, <2>4
      <3> QED
        BY <2>1, <2>4, <3>1, UsedWhole, UsedType, BoundType
    <2>6. used <= Used(k0, n0, b) + tf
      <3>1. CASE k0 = 0
        <4>1. n0 = 0 /\ used = 0
          BY <1>4, <1>9, <2>3, <3>1
        <4> QED
          BY <2>1, <2>2, <3>1, <4>1, UsedZero
      <3>2. CASE k0 > 0
        BY <1>9, <2>3, <3>2
      <3> QED
        BY <2>4, <3>1, <3>2
    <2>7. Region(chunk_file[k], w)
            = BblockBoundB(N, p, b) + IF InvfLevel >= 2 THEN q ELSE 0
      BY <1>3, <1>10, <1>12, <2>1
    <2>8. q \in Int
      BY <1>6
    <2> QED
      BY <1>2, <1>8, <1>9, <2>2, <2>5, <2>6, <2>7, <2>8
  <1> QED
    BY <1>3, <1>11, <1>12

\* Whatever the collection, the vocabulary, the memory limit and the places
\* where pass 1 cuts it into chunks, process_doc of pass 2 (ivf.pass2.c:767)
\* never writes beyond the region that LoadCounts laid out for a word.
THEOREM NoOverrunAlways == Spec => []NoOverrun
  <1>1. Init => IInv
    BY InitIInv
  <1>2. IInv /\ [Next]_vars => IInv'
    BY StepIInv
  <1>3. IInv => NoOverrun
    BY IInvNoOverrun
  <1> QED
    BY <1>1, <1>2, <1>3, PTL DEF Spec
----------------------------------------------------------------------------
(* The chunks of pass 1 cover the collection.                              *)

\* After pass 1 no document is left outside the chunks.
EndOK == stage # "pass1" => lcallnum = 0

LEMMA StepEndOK == IInv /\ EndOK /\ [Next]_vars => EndOK'
  <1> SUFFICES ASSUME IInv, EndOK, [Next]_vars PROVE EndOK'
    OBVIOUS
  <1>1. CASE Pass1
    BY <1>1 DEF Pass1, ProcessDoc1, EndOK
  <1>2. CASE Done1
    BY <1>2 DEF Done1, dump_dict, EndOK
  <1>3. CASE Pass2 \/ UNCHANGED vars
    BY <1>3 DEF Pass2, init_ivf_2, LoadCounts, ProcessDoc2, DumpChunk, DiskMerge,
                done_ivf_2, vars, pass1, EndOK
  <1> QED
    BY <1>1, <1>2, <1>3 DEF Next

LEMMA EndNextChunk == IInv /\ EndOK => NextChunkKnown
  <1> SUFFICES ASSUME IInv, EndOK, stage = "pass2", docs_left = 0,
                      callnum < Len(text)
               PROVE  next_docs_left > 0
    BY DEF NextChunkKnown
  <1>1. PICK k, K : k = at + 1 /\ K = Len(cuts)
    OBVIOUS
  <1>2. /\ at \in 0..K /\ K \in Nat /\ Len(chunk_file) = K /\ Len(text) \in Nat
        /\ callnum \in Nat /\ next_docs_left = DocsOfChunk(at)
    BY <1>1 DEF IInv, ReadOK, ChunksOK, TotalsOK, IsSeq
  <1>3. Cut(K) = Len(text)
    BY <1>1, <1>2 DEF IInv, CountsOK, EndOK
  <1>4. Cut(at) = callnum
    <2>1. Cut(at) \in Nat
      BY <1>1, <1>2 DEF IInv, ChunksOK
    <2>2. docs_left = Cut(at) - callnum
      BY DEF IInv, ReadOK
    <2> QED
      BY <1>2, <2>1, <2>2
  <1>5. at # K
    BY <1>2, <1>3, <1>4
  <1>6. at < K /\ k \in 1..K /\ k - 1 = at
    BY <1>1, <1>2, <1>5
  <1>7. Describes(k)
    BY <1>1, <1>6 DEF IInv, ChunksOK
  <1>8. next_docs_left = Cut(k) - Cut(at) /\ Cut(at) < Cut(k)
    BY <1>1, <1>2, <1>6, <1>7 DEF DocsOfChunk, Describes
  <1>9. Cut(k) \in Nat /\ Cut(at) \in Nat
    BY <1>1, <1>2, <1>6 DEF IInv, ChunksOK
  <1> QED
    BY <1>8, <1>9

\* Pass 2 never runs out of chunk descriptions before it runs out of documents,
\* so LoadCounts never stops at "docs in the current chunk is 0".
THEOREM ChunksSuffice == Spec => []NextChunkKnown
  <1>1. Init => IInv /\ EndOK
    BY InitIInv DEF Init, EndOK
  <1>2. IInv /\ EndOK /\ [Next]_vars => IInv' /\ EndOK'
    BY StepIInv, StepEndOK
  <1>3. IInv /\ EndOK => NextChunkKnown
    BY EndNextChunk
  <1> QED
    BY <1>1, <1>2, <1>3, PTL DEF Spec
=============================================================================
