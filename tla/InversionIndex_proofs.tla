----------------------- MODULE InversionIndex_proofs -----------------------
(***************************************************************************)
(* The two passes build the inverted file of the collection, for every     *)
(* collection, vocabulary, buffer size and ChunkLimit: Inversion           *)
(* implements InvertedIndex, types included.                               *)
(*                                                                         *)
(* The argument, on top of the counts and cuts of Inversion_proofs: pass 1 *)
(* describes every chunk with the memory its regions take (DescribedOK);   *)
(* while pass 2 runs, the buffer holds the codes of the documents of the   *)
(* chunk read so far (BufferOK), what is kept of the chunks on the scratch *)
(* file leads to the codes of theirs (HeldOK, ScratchOK), and every entry  *)
(* on disk codes the collection up to the first of them (EntryOK).         *)
(*                                                                         *)
(* First, what the codes of a word stand for: the i-th document that holds *)
(* a word (Nth), the codes of the documents between two places of the      *)
(* collection (Codes), how pass 2 adds one and how a merge turns the codes *)
(* of a chunk into a continuation of the entry on disk.                    *)
(***************************************************************************)
EXTENDS Inversion_proofs

\* The i-th document that holds w; 0 before the first.
Nth(w, i) ==
  IF i = 0 THEN 0
  ELSE CHOOSE n \in 1..Len(text) : text[n][w] > 0 /\ F(n, w) = i

\* The last document that holds w after document s and up to document n.
LastDoc(w, s, n) == IF F(n, w) > F(s, w) THEN Nth(w, F(n, w)) ELSE s

\* The i-th posting of w, in an entry that starts after document s.
Code(w, s, i, b) ==
  [gap |-> BblockEncode(Nth(w, i) - (IF i - 1 > F(s, w) THEN Nth(w, i - 1) ELSE s), b),
   tf  |-> IF InvfLevel >= 2 THEN text[Nth(w, i)][w] ELSE 0]

\* The codes of w for the documents after s and up to n.
Codes(w, s, n, b) == [i \in 1..(F(n, w) - F(s, w)) |-> Code(w, s, F(s, w) + i, b)]

\* The parameter pass 2 codes the gaps of w with in the k-th chunk.
ChunkParam(k, w) ==
  LET p == F(Cut(k), w) - F(Cut(k - 1), w)
  IN IF p = 0 THEN 1 ELSE BblockInitW(Cut(k) - Cut(k - 1), p)

ChunkCodes(k, w) == Codes(w, Cut(k - 1), Cut(k), ChunkParam(k, w))

\* The k-th chunk, coded.
ChunkImage(k) ==
  {[start |-> RegionStart(chunk_file[k], w), codes |-> ChunkCodes(k, w)] :
     w \in {v \in Words : F(Cut(k), v) > F(Cut(k - 1), v)}}
----------------------------------------------------------------------------
(* The documents that hold a word.                                         *)

\* A document adds one to the running count of each of its words.
LEMMA CountGrows ==
  ASSUME TotalsOK, NEW w \in Words, NEW n \in 1..Len(text)
  PROVE  /\ Len(text) \in Nat /\ n - 1 \in 0..Len(text) /\ n \in 0..Len(text)
         /\ F(n, w) \in Nat /\ F(n - 1, w) \in Nat /\ text[n][w] \in Nat
         /\ F(n, w) = F(n - 1, w) + IF text[n][w] > 0 THEN 1 ELSE 0
  <1>1. Len(text) \in Nat
    BY DEF TotalsOK, IsSeq
  <1>2. PICK m : m = n - 1
    OBVIOUS
  <1>3. m \in 0..(Len(text) - 1) /\ n = m + 1 /\ m \in 0..Len(text) /\ n \in 0..Len(text)
    BY <1>1, <1>2
  <1>4. F(m + 1, w) = F(m, w) + IF text[m + 1][w] > 0 THEN 1 ELSE 0
    BY <1>3 DEF TotalsOK
  <1>5. F(n, w) \in Nat /\ F(m, w) \in Nat /\ text[n] \in [Words -> Nat]
    BY <1>3 DEF TotalsOK
  <1> QED
    BY <1>1, <1>2, <1>3, <1>4, <1>5

LEMMA CountMonotone ==
  ASSUME TotalsOK, NEW w \in Words, NEW i \in 0..Len(text), NEW j \in 0..Len(text),
         i <= j
  PROVE  F(i, w) \in Nat /\ F(j, w) \in Nat /\ F(i, w) <= F(j, w) /\ F(0, w) = 0
  <1>1. F(i, w) \in Nat /\ F(j, w) \in Nat /\ Gains(i, j, w)
    BY DEF TotalsOK
  <1> QED
    BY <1>1 DEF Gains, F

LEMMA NthExists ==
  ASSUME TotalsOK, NEW w \in Words, NEW n \in 0..Len(text), NEW i \in 1..F(n, w)
  PROVE  \E m \in 1..n : text[m][w] > 0 /\ F(m, w) = i
  <1>0. Len(text) \in Nat /\ n \in Nat
    BY DEF TotalsOK, IsSeq
  <1>1. F(n, w) \in Nat /\ i \in Nat /\ i > 0 /\ i <= F(n, w)
    BY CountMonotone
  <1> DEFINE T == {m \in 0..n : F(m, w) >= i}
  <1>2. T \subseteq Nat /\ n \in T
    BY <1>0, <1>1
  <1>3. PICK m \in T : \A k \in T : m <= k
    <2>1. T # {}
      BY <1>2
    <2> HIDE DEF T
    <2> QED
      BY <1>2, <2>1, LeastNat
  <1>4. m \in 0..n /\ F(m, w) >= i
    OBVIOUS
  <1>5. m # 0
    BY <1>1, <1>4 DEF F
  <1>6. m \in 1..Len(text) /\ m \in 1..n /\ m - 1 \in 0..n
    BY <1>0, <1>4, <1>5
  <1>7. /\ F(m, w) \in Nat /\ F(m - 1, w) \in Nat
        /\ F(m, w) = F(m - 1, w) + IF text[m][w] > 0 THEN 1 ELSE 0
    BY <1>6, CountGrows
  <1>8. ~(F(m - 1, w) >= i)
    <2>1. ~(m - 1 \in T)
      BY <1>0, <1>3, <1>4
    <2> QED
      BY <1>6, <2>1
  <1>9. text[m][w] > 0 /\ F(m, w) = i
    <2> HIDE DEF T
    <2> QED
      BY <1>1, <1>4, <1>7, <1>8
  <1> QED
    BY <1>6, <1>9

LEMMA NthUnique ==
  ASSUME TotalsOK, NEW w \in Words, NEW m \in 1..Len(text), NEW n \in 1..Len(text),
         text[m][w] > 0, text[n][w] > 0, F(m, w) = F(n, w)
  PROVE  m = n
  <1>0. Len(text) \in Nat
    BY DEF TotalsOK, IsSeq
  <1>1. ASSUME NEW a \in 1..Len(text), NEW b \in 1..Len(text), a < b, text[b][w] > 0
        PROVE  F(a, w) # F(b, w)
    <2>1. /\ F(b, w) = F(b - 1, w) + 1 /\ F(b - 1, w) \in Nat /\ b - 1 \in 0..Len(text)
      BY <1>1, CountGrows
    <2>2. a \in 0..Len(text) /\ a <= b - 1
      BY <1>0, <1>1
    <2>3. F(a, w) \in Nat /\ F(a, w) <= F(b - 1, w)
      BY <2>1, <2>2, CountMonotone
    <2> QED
      BY <2>1, <2>3
  <1> QED
    BY <1>0, <1>1

LEMMA NthSpec ==
  ASSUME TotalsOK, NEW w \in Words, NEW n \in 0..Len(text), NEW i \in 1..F(n, w)
  PROVE  /\ Nth(w, i) \in 1..n /\ Nth(w, i) \in 1..Len(text)
         /\ text[Nth(w, i)][w] > 0 /\ F(Nth(w, i), w) = i
  <1>0. Len(text) \in Nat
    BY DEF TotalsOK, IsSeq
  <1>1. PICK m \in 1..n : text[m][w] > 0 /\ F(m, w) = i
    BY NthExists
  <1>2. m \in 1..Len(text)
    BY <1>0
  <1>3. i # 0
    OBVIOUS
  <1>4. /\ Nth(w, i) \in 1..Len(text) /\ text[Nth(w, i)][w] > 0 /\ F(Nth(w, i), w) = i
    BY <1>1, <1>2, <1>3 DEF Nth
  <1>5. Nth(w, i) = m
    BY <1>1, <1>2, <1>4, NthUnique
  <1> QED
    BY <1>4, <1>5

LEMMA NthOf ==
  ASSUME TotalsOK, NEW w \in Words, NEW n \in 1..Len(text), text[n][w] > 0
  PROVE  Nth(w, F(n, w)) = n /\ F(n, w) \in Nat \ {0}
  <1>1. F(n, w) \in Nat \ {0} /\ n \in 0..Len(text)
    BY CountGrows
  <1>2. F(n, w) \in 1..F(n, w)
    BY <1>1
  <1>3. PICK i : i = F(n, w)
    OBVIOUS
  <1>4. /\ Nth(w, i) \in 1..Len(text) /\ text[Nth(w, i)][w] > 0 /\ F(Nth(w, i), w) = i
    BY <1>1, <1>2, <1>3, NthSpec
  <1> QED
    BY <1>1, <1>3, <1>4, NthUnique

\* Postings beyond those of the first n documents come later.
LEMMA NthAfter ==
  ASSUME TotalsOK, NEW w \in Words, NEW n \in 0..Len(text),
         NEW i \in 1..F(Len(text), w), i > F(n, w)
  PROVE  Nth(w, i) \in Nat /\ Nth(w, i) > n /\ Nth(w, i) <= Len(text)
  <1>0. Len(text) \in Nat /\ Len(text) \in 0..Len(text)
    BY DEF TotalsOK, IsSeq
  <1>1. Nth(w, i) \in 1..Len(text) /\ F(Nth(w, i), w) = i
    BY <1>0, NthSpec
  <1>2. ASSUME Nth(w, i) <= n PROVE FALSE
    <2>1. Nth(w, i) \in 0..Len(text)
      BY <1>0, <1>1
    <2>2. F(Nth(w, i), w) <= F(n, w) /\ F(Nth(w, i), w) \in Nat /\ F(n, w) \in Nat
      BY <1>2, <2>1, CountMonotone
    <2> QED
      BY <1>1, <2>2
  <1> QED
    BY <1>0, <1>1, <1>2
----------------------------------------------------------------------------
(* Sequences given as functions.                                           *)

LEMMA FunctionIsSeq ==
  ASSUME NEW k \in Nat, NEW f, f = [i \in 1..k |-> f[i]]
  PROVE  IsSeq(f) /\ Len(f) = k /\ DOMAIN f = 1..k
  <1>1. f \in [1..k -> {f[i] : i \in 1..k}]
    OBVIOUS
  <1>2. f \in Seq({f[i] : i \in 1..k})
    BY <1>1
  <1>3. DOMAIN f = 1..k /\ Len(f) = k
    BY <1>1, <1>2
  <1> QED
    BY <1>2, <1>3 DEF IsSeq

LEMMA SameSeq ==
  ASSUME NEW s, IsSeq(s), NEW t, IsSeq(t), Len(s) = Len(t),
         \A i \in 1..Len(s) : s[i] = t[i]
  PROVE  s = t
  <1>1. PICK S : s \in Seq(S)
    BY DEF IsSeq
  <1>2. PICK T : t \in Seq(T)
    BY DEF IsSeq
  <1>3. s \in Seq(S \cup T) /\ t \in Seq(S \cup T)
    BY <1>1, <1>2, SeqMonotonic
  <1> QED
    BY <1>3, SeqEqual
----------------------------------------------------------------------------
(* Codes.                                                                  *)

LEMMA CodesAreSeq ==
  ASSUME TotalsOK, NEW w \in Words, NEW s \in 0..Len(text), NEW n \in 0..Len(text),
         s <= n, NEW b
  PROVE  /\ IsSeq(Codes(w, s, n, b)) /\ Len(Codes(w, s, n, b)) = F(n, w) - F(s, w)
         /\ DOMAIN Codes(w, s, n, b) = 1..(F(n, w) - F(s, w))
         /\ \A i \in 1..(F(n, w) - F(s, w)) :
              Codes(w, s, n, b)[i] = Code(w, s, F(s, w) + i, b)
  <1>1. PICK k : k = F(n, w) - F(s, w)
    OBVIOUS
  <1>2. k \in Nat
    <2>1. F(s, w) \in Nat /\ F(n, w) \in Nat /\ F(s, w) <= F(n, w)
      BY CountMonotone
    <2> QED
      BY <1>1, <2>1
  <1>3. PICK f : f = Codes(w, s, n, b)
    OBVIOUS
  <1>4. f = [i \in 1..k |-> Code(w, s, F(s, w) + i, b)]
    BY <1>1, <1>3 DEF Codes
  <1>5. f = [i \in 1..k |-> f[i]]
    BY <1>4
  <1>6. IsSeq(f) /\ Len(f) = k /\ DOMAIN f = 1..k
    BY <1>2, <1>5, FunctionIsSeq
  <1> QED
    BY <1>1, <1>3, <1>4, <1>6

LEMMA NoCodes ==
  ASSUME TotalsOK, NEW w \in Words, NEW s \in 0..Len(text), NEW n \in 0..Len(text),
         s <= n, F(n, w) = F(s, w), NEW b
  PROVE  Codes(w, s, n, b) = <<>> /\ LastDoc(w, s, n) = s
  <1>1. F(n, w) \in Nat /\ F(s, w) \in Nat
    BY CountMonotone
  <1>2. IsSeq(Codes(w, s, n, b)) /\ Len(Codes(w, s, n, b)) = 0
    BY <1>1, CodesAreSeq
  <1>3. Codes(w, s, n, b) = <<>>
    BY <1>2, EmptyIsSeq, SameSeq
  <1> QED
    BY <1>1, <1>3 DEF LastDoc

\* A document without the word adds no code.
LEMMA CodesKept ==
  ASSUME NEW w, NEW s, NEW m, NEW n, F(m, w) = F(n, w), NEW b
  PROVE  Codes(w, s, n, b) = Codes(w, s, m, b) /\ LastDoc(w, s, n) = LastDoc(w, s, m)
  BY DEF Codes, LastDoc

\* A document with the word adds one: its distance to the document before.
LEMMA CodesStep ==
  ASSUME TotalsOK, NEW w \in Words, NEW s \in 0..Len(text), NEW m \in 0..Len(text),
         s <= m, NEW n \in 1..Len(text), n = m + 1, text[n][w] > 0, NEW b
  PROVE  /\ LastDoc(w, s, n) = n
         /\ Codes(w, s, n, b)
              = Append(Codes(w, s, m, b),
                       [gap |-> BblockEncode(n - LastDoc(w, s, m), b),
                        tf  |-> IF InvfLevel >= 2 THEN text[n][w] ELSE 0])
  <1>1. PICK a, z, k : a = F(s, w) /\ z = F(m, w) /\ k = F(n, w) - F(s, w)
    OBVIOUS
  <1>2. /\ a \in Nat /\ z \in Nat /\ a <= z /\ F(n, w) = z + 1 /\ k = z - a + 1
        /\ k \in Nat /\ Len(text) \in Nat /\ n \in 0..Len(text) /\ s <= n
    <2>1. F(s, w) \in Nat /\ F(m, w) \in Nat /\ F(s, w) <= F(m, w)
      BY CountMonotone
    <2>2. /\ F(n, w) = F(n - 1, w) + 1 /\ Len(text) \in Nat /\ n - 1 = m
          /\ n \in 0..Len(text)
      BY CountGrows
    <2> QED
      BY <1>1, <2>1, <2>2
  <1>3. Nth(w, z + 1) = n
    BY <1>2, NthOf
  <1>4. LastDoc(w, s, n) = n
    BY <1>1, <1>2, <1>3 DEF LastDoc
  <1>5. PICK c : c = [gap |-> BblockEncode(n - LastDoc(w, s, m), b),
                      tf  |-> IF InvfLevel >= 2 THEN text[n][w] ELSE 0]
    OBVIOUS
  <1>6. Code(w, s, a + k, b) = c
    <2>1. a + k = z + 1 /\ (a + k) - 1 = z
      BY <1>2
    <2>2. LastDoc(w, s, m) = IF z > a THEN Nth(w, z) ELSE s
      BY <1>1 DEF LastDoc
    <2> QED
      BY <1>1, <1>3, <1>5, <2>1, <2>2 DEF Code
  <1>7. PICK old, new : old = Codes(w, s, m, b) /\ new = Codes(w, s, n, b)
    OBVIOUS
  <1>8. /\ IsSeq(old) /\ Len(old) = k - 1
        /\ \A i \in 1..(k - 1) : old[i] = Code(w, s, a + i, b)
    <2>1. F(m, w) - F(s, w) = k - 1
      BY <1>1, <1>2
    <2> QED
      BY <1>1, <1>7, <2>1, CodesAreSeq
  <1>9. IsSeq(new) /\ Len(new) = k /\ \A i \in 1..k : new[i] = Code(w, s, a + i, b)
    BY <1>1, <1>2, <1>7, CodesAreSeq
  <1>10. /\ IsSeq(Append(old, c)) /\ Len(Append(old, c)) = k
         /\ \A i \in 1..(k - 1) : Append(old, c)[i] = old[i]
         /\ Append(old, c)[k] = c
    <2>1. /\ IsSeq(Append(old, c)) /\ Len(Append(old, c)) = Len(old) + 1
          /\ \A i \in 1..Len(old) : Append(old, c)[i] = old[i]
          /\ Append(old, c)[Len(old) + 1] = c
      BY <1>8, AppendIsSeq
    <2>2. Len(old) = k - 1 /\ Len(old) + 1 = k
      BY <1>2, <1>8
    <2> QED
      BY <2>1, <2>2
  <1>11. \A i \in 1..k : new[i] = Append(old, c)[i]
    BY <1>2, <1>6, <1>8, <1>9, <1>10
  <1>12. new = Append(old, c)
    BY <1>9, <1>10, <1>11, SameSeq
  <1> QED
    BY <1>4, <1>5, <1>7, <1>12
----------------------------------------------------------------------------
(* A merge.                                                                *)

LEMMA NthStep ==
  ASSUME TotalsOK, NEW w \in Words, NEW i \in 1..F(Len(text), w)
  PROVE  Nth(w, i) \in Nat /\ Nth(w, i - 1) \in Nat /\ Nth(w, i - 1) < Nth(w, i)
  <1>1. Len(text) \in Nat /\ Len(text) \in 0..Len(text)
    BY DEF TotalsOK, IsSeq
  <1>2. F(Len(text), w) \in Nat
    BY <1>1, CountMonotone
  <1>3. Nth(w, i) \in 1..Len(text)
    BY <1>1, NthSpec
  <1>4. CASE i = 1
    BY <1>1, <1>3, <1>4 DEF Nth
  <1>5. CASE i # 1
    <2>1. PICK h : h = i - 1
      OBVIOUS
    <2>2. h \in 1..F(Len(text), w) /\ i > h
      BY <1>2, <1>5, <2>1
    <2>3. Nth(w, h) \in 1..Len(text) /\ F(Nth(w, h), w) = h
      BY <1>1, <2>2, NthSpec
    <2>4. PICK n : n = Nth(w, h)
      OBVIOUS
    <2>5. n \in 0..Len(text) /\ i > F(n, w)
      BY <1>1, <2>2, <2>3, <2>4
    <2>6. Nth(w, i) > n
      BY <2>5, NthAfter
    <2> QED
      BY <1>1, <1>3, <2>1, <2>3, <2>4, <2>6
  <1> QED
    BY <1>4, <1>5

LEMMA LastDocIsNth ==
  ASSUME TotalsOK, NEW w \in Words, NEW n \in 0..Len(text)
  PROVE  LastDoc(w, 0, n) = Nth(w, F(n, w))
  <1>1. F(n, w) \in Nat /\ F(0, w) = 0
    <2>1. 0 \in 0..Len(text) /\ 0 <= n
      BY DEF TotalsOK, IsSeq
    <2> QED
      BY <2>1, CountMonotone
  <1> QED
    BY <1>1 DEF LastDoc, Nth

\* The first-gap correction of a merge turns the gaps of a chunk, which count
\* from the chunk's first document, into distances between documents.
LEMMA GapsInEntry ==
  ASSUME TotalsOK, NEW w \in Words,
         NEW S \in 0..Len(text), NEW E \in 0..Len(text), S <= E,
         NEW a, a = F(S, w), NEW p, p = F(E, w) - F(S, w), NEW b \in Operand,
         NEW i \in 1..p
  PROVE  /\ a + i \in 1..F(Len(text), w) /\ a + i \in Nat /\ (a + i) - 1 \in Nat
         /\ BblockDecode(Code(w, S, a + i, b).gap, b)
              + (IF i = 1 THEN S - LastDoc(w, 0, S) ELSE 0)
            = Nth(w, a + i) - Nth(w, (a + i) - 1)
         /\ Nth(w, a + i) - Nth(w, (a + i) - 1) \in Nat \ {0}
         /\ Nth(w, a + i) \in Int /\ Nth(w, (a + i) - 1) \in Int
         /\ Code(w, S, a + i, b).tf
              = IF InvfLevel >= 2 THEN text[Nth(w, a + i)][w] ELSE 0
  <1>1. /\ Len(text) \in Nat /\ Len(text) \in 0..Len(text) /\ E <= Len(text)
        /\ S \in Nat
    BY DEF TotalsOK, IsSeq
  <1>2. /\ a \in Nat /\ F(E, w) \in Nat /\ F(Len(text), w) \in Nat
        /\ F(E, w) <= F(Len(text), w)
    BY <1>1, CountMonotone
  <1>3. PICK h : h = a + i
    OBVIOUS
  <1>4. h \in 1..F(Len(text), w) /\ h - 1 \in Nat /\ h \in Nat /\ h > a
    BY <1>2, <1>3
  <1>5. /\ Nth(w, h) \in Nat /\ Nth(w, h - 1) \in Nat /\ Nth(w, h - 1) < Nth(w, h)
    BY <1>4, NthStep
  <1>6. Nth(w, h) > S
    BY <1>4, NthAfter
  <1>7. PICK y : y = Nth(w, h) - (IF h - 1 > a THEN Nth(w, h - 1) ELSE S)
    OBVIOUS
  <1>8. y \in Nat \ {0}
    BY <1>1, <1>5, <1>6, <1>7
  <1>9. BblockDecode(Code(w, S, h, b).gap, b) = y
    <2>1. Code(w, S, h, b).gap = BblockEncode(y, b)
      BY <1>7 DEF Code
    <2> QED
      BY <1>8, <2>1, BblockRoundTrip
  <1>10. y + (IF i = 1 THEN S - LastDoc(w, 0, S) ELSE 0) = Nth(w, h) - Nth(w, h - 1)
    <2>1. CASE i = 1
      <3>1. h - 1 = a /\ ~(h - 1 > a)
        BY <1>2, <1>3, <2>1
      <3>2. LastDoc(w, 0, S) = Nth(w, h - 1)
        BY <3>1, LastDocIsNth
      <3> QED
        BY <1>1, <1>5, <1>7, <2>1, <3>1, <3>2
    <2>2. CASE i # 1
      <3>1. h - 1 > a
        BY <1>2, <1>3, <2>2
      <3> QED
        BY <1>5, <1>7, <2>2, <3>1
    <2> QED
      BY <2>1, <2>2
  <1>11. Code(w, S, h, b).tf = IF InvfLevel >= 2 THEN text[Nth(w, h)][w] ELSE 0
    BY DEF Code
  <1> QED
    BY <1>3, <1>4, <1>5, <1>9, <1>10, <1>11

----------------------------------------------------------------------------
(* The bits of an entry on disk.                                           *)

\* The distance from the posting before.
Gap(w, i) == Nth(w, i) - Nth(w, i - 1)

\* The bits of the i-th count.
CountLength(w, i) == IF InvfLevel >= 2 THEN GammaLength(text[Nth(w, i)][w]) ELSE 0

\* The bits of the first m gaps and of the first m counts.
GapBits(w, m, b) == SumFunctionOnSet([i \in 1..m |-> BblockLength(Gap(w, i), b)], 1..m)
CountBits(w, m) == SumFunctionOnSet([i \in 1..m |-> CountLength(w, i)], 1..m)

\* Every posting takes some bits, and a gap its share at most.
LEMMA PostingLengths ==
  ASSUME TotalsOK, NEW w \in Words, NEW i \in 1..F(Len(text), w), NEW b \in Operand
  PROVE  /\ Gap(w, i) \in Nat \ {0} /\ BblockLength(Gap(w, i), b) \in Nat
         /\ BblockLength(Gap(w, i), b) <= Share(Gap(w, i), b)
         /\ CountLength(w, i) \in Nat
  <1>1. Gap(w, i) \in Nat \ {0}
    BY NthStep DEF Gap
  <1>2. CountLength(w, i) \in Nat
    <2>1. Len(text) \in Nat /\ Len(text) \in 0..Len(text)
      BY DEF TotalsOK, IsSeq
    <2>2. PICK n, x : n = Nth(w, i) /\ x = text[n][w]
      OBVIOUS
    <2>3. n \in 1..Len(text) /\ x > 0
      BY <2>1, <2>2, NthSpec
    <2>4. x \in Nat /\ x < Shl(MaxLog)
      BY <2>2, <2>3 DEF TotalsOK
    <2>5. Shl(MaxLog) \in Nat
      BY ShlType DEF MaxLog
    <2>6. x \in Operand
      BY <2>3, <2>4, <2>5 DEF Operand
    <2>7. FloorLog2(x) \in Nat
      <3>1. FloorLog2(x) \in 0..MaxLog
        BY <2>6, FloorLogSpec
      <3> QED
        <4>1. MaxLog \in Nat
          BY DEF MaxLog
        <4> QED
          BY ONLY <3>1, <4>1
    <2>8. GammaLength(x) \in Nat
      BY <2>7 DEF GammaLength
    <2> QED
      BY <2>2, <2>8 DEF CountLength
  <1>3. PICK x : x = Gap(w, i)
    OBVIOUS
  <1>4. BblockLength(x, b) \in Nat /\ BblockLength(x, b) <= Share(x, b)
    BY <1>1, <1>3, BblockLengthBound
  <1> QED
    BY <1>1, <1>2, <1>3, <1>4

LEMMA BitsType ==
  ASSUME TotalsOK, NEW w \in Words, NEW m \in 0..F(Len(text), w), NEW b \in Operand
  PROVE  GapBits(w, m, b) \in Nat /\ CountBits(w, m) \in Nat
         /\ F(Len(text), w) \in Nat /\ m \in Nat
  <1>1. F(Len(text), w) \in Nat /\ m \in Nat /\ 0 \in Int
    <2>1. Len(text) \in Nat /\ Len(text) \in 0..Len(text)
      BY DEF TotalsOK, IsSeq
    <2> QED
      BY <2>1, CountMonotone
  <1>2. IsFiniteSet(1..m)
    BY <1>1, FS_Interval
  <1>3. PICK f, g : /\ f = [i \in 1..m |-> BblockLength(Gap(w, i), b)]
                    /\ g = [i \in 1..m |-> CountLength(w, i)]
    OBVIOUS
  <1>4. ASSUME NEW i \in 1..m PROVE f[i] \in Nat /\ g[i] \in Nat
    <2>1. i \in 1..F(Len(text), w)
      BY <1>1
    <2> QED
      BY <1>3, <2>1, PostingLengths
  <1>5. SumFunctionOnSet(f, 1..m) \in Nat /\ SumFunctionOnSet(g, 1..m) \in Nat
    BY <1>2, <1>4, SumNat
  <1> QED
    BY <1>1, <1>3, <1>5 DEF GapBits, CountBits

LEMMA NoBits ==
  ASSUME NEW w, NEW b
  PROVE  GapBits(w, 0, b) = 0 /\ CountBits(w, 0) = 0
  <1>1. 1..0 = {}
    OBVIOUS
  <1>2. SumFunctionOnSet([i \in 1..0 |-> BblockLength(Gap(w, i), b)], {}) = 0
        /\ SumFunctionOnSet([i \in 1..0 |-> CountLength(w, i)], {}) = 0
    BY SumEmpty
  <1> QED
    BY ONLY <1>1, <1>2, Zenon DEF GapBits, CountBits

LEMMA BitsStep ==
  ASSUME TotalsOK, NEW w \in Words, NEW b \in Operand,
         NEW n \in 1..F(Len(text), w), NEW m, m = n - 1
  PROVE  /\ m \in 0..F(Len(text), w)
         /\ GapBits(w, n, b) = GapBits(w, m, b) + BblockLength(Gap(w, n), b)
         /\ CountBits(w, n) = CountBits(w, m) + CountLength(w, n)
  <1>1. F(Len(text), w) \in Nat /\ m \in Nat /\ n = m + 1 /\ m \in 0..F(Len(text), w)
    <2>1. Len(text) \in Nat /\ Len(text) \in 0..Len(text)
      BY DEF TotalsOK, IsSeq
    <2>2. F(Len(text), w) \in Nat
      BY <2>1, CountMonotone
    <2> QED
      BY <2>2
  <1>2. PICK f, g, h, k : /\ f = [i \in 1..m |-> BblockLength(Gap(w, i), b)]
                          /\ g = [i \in 1..n |-> BblockLength(Gap(w, i), b)]
                          /\ h = [i \in 1..m |-> CountLength(w, i)]
                          /\ k = [i \in 1..n |-> CountLength(w, i)]
    OBVIOUS
  <1>3. ASSUME NEW i \in 1..n
        PROVE  BblockLength(Gap(w, i), b) \in Int /\ CountLength(w, i) \in Int
    <2>1. i \in 1..F(Len(text), w)
      BY <1>1
    <2> QED
      BY <2>1, PostingLengths
  <1>4. /\ \A i \in 1..m : f[i] \in Int /\ g[i] = f[i] /\ h[i] \in Int /\ k[i] = h[i]
        /\ g[n] = BblockLength(Gap(w, n), b) /\ k[n] = CountLength(w, n)
        /\ g[n] \in Int /\ k[n] \in Int
    <2>1. n \in 1..n /\ \A i \in 1..m : i \in 1..n
      BY <1>1
    <2> QED
      BY <1>2, <1>3, <2>1
  <1>5. SumFunctionOnSet(g, 1..n) = SumFunctionOnSet(f, 1..m) + g[n]
    <2>1. m \in Nat /\ n = m + 1 /\ g[n] \in Int
      BY <1>1, <1>4
    <2>2. \A i \in 1..m : f[i] \in Int /\ g[i] = f[i]
      BY <1>4
    <2> QED
      BY ONLY <2>1, <2>2, SumNext
  <1>6. SumFunctionOnSet(k, 1..n) = SumFunctionOnSet(h, 1..m) + k[n]
    <2>1. m \in Nat /\ n = m + 1 /\ k[n] \in Int
      BY <1>1, <1>4
    <2>2. \A i \in 1..m : h[i] \in Int /\ k[i] = h[i]
      BY <1>4
    <2> QED
      BY ONLY <2>1, <2>2, SumNext
  <1> QED
    BY ONLY <1>1, <1>2, <1>4, <1>5, <1>6, Zenon DEF GapBits, CountBits

\* The gaps up to a document take no more than the bound of an entry over the
\* documents up to there ...
LEMMA GapBitsUsed ==
  ASSUME TotalsOK, NEW w \in Words, NEW m \in 0..F(Len(text), w), NEW b \in Operand
  PROVE  GapBits(w, m, b) <= Used(m, Nth(w, m), b)
  <1> DEFINE G == {n \in Nat : n <= F(Len(text), w) =>
                                 GapBits(w, n, b) <= Used(n, Nth(w, n), b)}
  <1>1. 0 \in G
    <2>1. GapBits(w, 0, b) = 0 /\ Used(0, 0, b) = 0 /\ Nth(w, 0) = 0
      BY NoBits, UsedZero DEF Nth
    <2> QED
      BY <2>1
  <1>2. ASSUME NEW i \in Nat, i \in G PROVE i + 1 \in G
    <2>1. PICK n : n = i + 1
      OBVIOUS
    <2>2. SUFFICES ASSUME n <= F(Len(text), w) PROVE GapBits(w, n, b) <= Used(n, Nth(w, n), b)
      BY <2>1
    <2>3. /\ F(Len(text), w) \in Nat /\ n \in 1..F(Len(text), w) /\ n - 1 = i
          /\ n \in 0..F(Len(text), w) /\ i \in 0..F(Len(text), w) /\ n \in Nat
      <3>1. F(Len(text), w) \in Nat
        BY BitsType
      <3> QED
        BY <2>1, <2>2, <3>1
    <2>4. PICK x, y, z : x = Gap(w, n) /\ y = Nth(w, i) /\ z = Nth(w, n)
      OBVIOUS
    <2>5. /\ y \in Nat /\ z \in Nat /\ x \in Nat \ {0} /\ z = y + x
          /\ BblockLength(x, b) \in Nat /\ BblockLength(x, b) <= Share(x, b)
      <3>1. /\ x \in Nat \ {0} /\ BblockLength(x, b) \in Nat
            /\ BblockLength(x, b) <= Share(x, b)
        BY <2>3, <2>4, PostingLengths
      <3>2. z \in Nat /\ y \in Nat /\ x = z - y
        BY <2>3, <2>4, NthStep DEF Gap
      <3> QED
        BY <3>1, <3>2
    <2>6. GapBits(w, n, b) = GapBits(w, i, b) + BblockLength(x, b)
      BY <2>3, <2>4, BitsStep
    <2>7. GapBits(w, i, b) <= Used(i, y, b) /\ GapBits(w, i, b) \in Nat
      <3>1. i <= F(Len(text), w)
        BY <2>3
      <3> QED
        BY <1>2, <2>3, <2>4, <3>1, BitsType
    <2>8. Used(i, y, b) + Share(x, b) <= Used(n, z, b)
      BY <2>1, <2>5, UsedStep
    <2>9. Used(i, y, b) \in Int /\ Used(n, z, b) \in Int /\ Share(x, b) \in Int
      BY <2>3, <2>5, UsedType, ShareType
    <2> QED
      BY ONLY <2>4, <2>5, <2>6, <2>7, <2>8, <2>9, SMTT(60)
  <1>3. Nat \subseteq G
    <2> HIDE DEF G
    <2> QED
      BY <1>1, <1>2, NatInductionOnSet
  <1>4. m \in G /\ m <= F(Len(text), w)
    BY <1>3, BitsType
  <1> QED
    BY <1>4

\* ... and so do not exceed the bound of the whole entry.
LEMMA GapBitsFit ==
  ASSUME TotalsOK, NEW w \in Words, NEW m \in 0..F(Len(text), w), NEW b \in Operand
  PROVE  GapBits(w, m, b) <= BblockBoundB(Len(text), F(Len(text), w), b)
         /\ BblockBoundB(Len(text), F(Len(text), w), b) \in Int
  <1>1. PICK L, p, n : L = Len(text) /\ p = F(Len(text), w) /\ n = Nth(w, m)
    OBVIOUS
  <1>2. L \in Nat /\ L \in 0..L /\ p \in Nat /\ m \in Nat /\ m \in 0..p
    <2>1. L \in Nat
      BY <1>1 DEF TotalsOK, IsSeq
    <2> QED
      BY <1>1, <2>1, BitsType
  <1>3. n \in 0..L /\ F(n, w) = m
    <2>1. CASE m = 0
      BY <1>1, <1>2, <2>1 DEF Nth, F
    <2>2. CASE m # 0
      <3>1. m \in 1..F(L, w)
        BY <1>1, <1>2, <2>2
      <3> QED
        BY <1>1, <1>2, <3>1, NthSpec
    <2> QED
      BY <2>1, <2>2
  <1>4. p - m <= L - n
    <2>1. n <= L
      BY <1>2, <1>3
    <2>2. Gains(n, L, w)
      BY <1>1, <1>2, <1>3, <2>1 DEF TotalsOK
    <2> QED
      BY <1>1, <1>3, <2>2 DEF Gains
  <1>5. Used(m, n, b) <= BblockBoundB(L, p, b)
    BY <1>2, <1>3, <1>4, UsedWhole
  <1>6. GapBits(w, m, b) <= Used(m, n, b)
    BY <1>1, GapBitsUsed
  <1>7. GapBits(w, m, b) \in Nat /\ Used(m, n, b) \in Int /\ BblockBoundB(L, p, b) \in Int
    <2>1. n \in Nat
      BY <1>2, <1>3
    <2> QED
      BY <1>2, <2>1, BitsType, UsedType, BoundType
  <1> QED
    BY ONLY <1>1, <1>5, <1>6, <1>7

\* Part of the counts takes no more than all of them.
LEMMA CountBitsGrow ==
  ASSUME TotalsOK, NEW w \in Words, NEW m \in 0..F(Len(text), w)
  PROVE  CountBits(w, m) <= CountBits(w, F(Len(text), w))
  <1>0. PICK b : b \in Operand
    <2>1. Shl(0) \in Operand
      BY ThreshOfPower DEF MaxLog
    <2> QED
      BY <2>1
  <1>1. PICK p : p = F(Len(text), w)
    OBVIOUS
  <1>2. p \in Nat /\ m \in Nat /\ m <= p
    BY <1>0, <1>1, BitsType
  <1>3. PICK f, g : /\ f = [i \in 1..p |-> CountLength(w, i)]
                    /\ g = [i \in 1..m |-> CountLength(w, i)]
    OBVIOUS
  <1>4. \A i \in 1..p : f[i] \in Nat
    BY <1>0, <1>1, <1>3, PostingLengths
  <1>5. IsFiniteSet(1..p) /\ IsFiniteSet(1..m) /\ 1..m \in SUBSET (1..p)
    BY <1>2, FS_Interval
  <1>6. SumFunctionOnSet(f, 1..m) <= SumFunctionOnSet(f, 1..p)
    BY <1>4, <1>5, SumSubset
  <1>7. SumFunctionOnSet(f, 1..m) = SumFunctionOnSet(g, 1..m)
    <2>1. \A i \in 1..m : f[i] \in Int /\ g[i] = f[i]
      BY <1>2, <1>3, <1>4
    <2> QED
      BY <1>5, <2>1, SumSame
  <1> QED
    BY ONLY <1>1, <1>3, <1>6, <1>7, Zenon DEF CountBits

\* s is the entry of w for the first n documents.
EntryUpTo(s, w, n) ==
  /\ s = [Disk_Last |-> s.Disk_Last, used |-> s.used, codes |-> s.codes, B |-> s.B]
  /\ s.codes = Codes(w, 0, n, s.B)
  /\ s.Disk_Last = LastDoc(w, 0, n)
  /\ s.used = GapBits(w, F(n, w), s.B) + CountBits(w, F(n, w))

\* The codes of the p postings after the first a.
NextCodes(w, a, p, b) ==
  [i \in 1..p |-> [gap |-> BblockEncode(Nth(w, a + i) - Nth(w, (a + i) - 1), b),
                   tf  |-> IF InvfLevel >= 2 THEN text[Nth(w, a + i)][w] ELSE 0]]

\* Codes from one document to another, and on to a third.
LEMMA CodesJoin ==
  ASSUME TotalsOK, NEW w \in Words, NEW b,
         NEW S \in 0..Len(text), NEW E \in 0..Len(text), S <= E
  PROVE  Codes(w, 0, E, b)
           = Codes(w, 0, S, b) \o NextCodes(w, F(S, w), F(E, w) - F(S, w), b)
  <1>0. PICK a, p, more : /\ a = F(S, w) /\ p = F(E, w) - F(S, w)
                          /\ more = NextCodes(w, a, p, b)
    OBVIOUS
  <1>1. 0 \in 0..Len(text) /\ 0 <= S /\ 0 <= E
    BY DEF TotalsOK, IsSeq
  <1>2. a \in Nat /\ p \in Nat /\ F(0, w) = 0 /\ F(E, w) = a + p /\ F(S, w) = a
    <2>1. F(S, w) \in Nat /\ F(E, w) \in Nat /\ F(S, w) <= F(E, w) /\ F(0, w) = 0
      BY CountMonotone
    <2> QED
      BY <1>0, <2>1
  <1>3. PICK old, new : old = Codes(w, 0, S, b) /\ new = Codes(w, 0, E, b)
    OBVIOUS
  <1>4. /\ IsSeq(old) /\ Len(old) = a
        /\ \A i \in 1..a : old[i] = Code(w, 0, i, b)
    <2>1. F(S, w) - F(0, w) = a /\ \A i \in 1..a : F(0, w) + i = i
      BY <1>2
    <2>2. /\ IsSeq(old) /\ Len(old) = F(S, w) - F(0, w)
          /\ \A i \in 1..(F(S, w) - F(0, w)) : old[i] = Code(w, 0, F(0, w) + i, b)
      BY <1>1, <1>3, CodesAreSeq
    <2> QED
      BY <2>1, <2>2
  <1>5. /\ IsSeq(new) /\ Len(new) = a + p
        /\ \A i \in 1..(a + p) : new[i] = Code(w, 0, i, b)
    <2>1. F(E, w) - F(0, w) = a + p /\ \A i \in 1..(a + p) : F(0, w) + i = i
      BY <1>2
    <2>2. /\ IsSeq(new) /\ Len(new) = F(E, w) - F(0, w)
          /\ \A i \in 1..(F(E, w) - F(0, w)) : new[i] = Code(w, 0, F(0, w) + i, b)
      BY <1>1, <1>3, CodesAreSeq
    <2> QED
      BY <2>1, <2>2
  <1>6. IsSeq(more) /\ Len(more) = p
    <2>1. more = [i \in 1..p |-> more[i]]
      BY <1>0 DEF NextCodes
    <2> QED
      BY <1>2, <2>1, FunctionIsSeq
  <1>7. PICK u :
          /\ u = old \o more /\ IsSeq(u) /\ Len(u) = a + p
          /\ \A i \in 1..a : u[i] = old[i]
          /\ \A i \in 1..p : u[a + i] = more[i]
    <2>1. IsSeq(old) /\ IsSeq(more) /\ Len(old) = a /\ Len(more) = p
      BY <1>4, <1>6
    <2>2. /\ IsSeq(old \o more) /\ Len(old \o more) = Len(old) + Len(more)
          /\ \A i \in 1..Len(old) : (old \o more)[i] = old[i]
          /\ \A i \in 1..Len(more) : (old \o more)[Len(old) + i] = more[i]
      <3>1. IsSeq(old) /\ IsSeq(more)
        BY <2>1
      <3> QED
        BY ONLY <3>1, ConcatIsSeq
    <2>3. /\ IsSeq(old \o more) /\ Len(old \o more) = a + p
          /\ \A i \in 1..a : (old \o more)[i] = old[i]
          /\ \A i \in 1..p : (old \o more)[a + i] = more[i]
      <3>1. PICK la, lm : la = Len(old) /\ lm = Len(more)
        OBVIOUS
      <3>2. la = a /\ lm = p
        BY ONLY <2>1, <3>1
      <3> QED
        BY ONLY <2>2, <3>1, <3>2, Zenon
    <2> QED
      BY ONLY <2>3, Zenon
  <1>8. ASSUME NEW i \in 1..p PROVE Code(w, 0, a + i, b) = more[i]
    <2>1. PICK h : h = a + i
      OBVIOUS
    <2>2. h \in Nat \ {0} /\ h - 1 \in Nat /\ F(0, w) = 0
      BY <1>2, <2>1
    <2>3. (IF h - 1 > F(0, w) THEN Nth(w, h - 1) ELSE 0) = Nth(w, h - 1)
      BY <2>2 DEF Nth
    <2>4. Code(w, 0, h, b) =
            [gap |-> BblockEncode(Nth(w, h) - Nth(w, h - 1), b),
             tf  |-> IF InvfLevel >= 2 THEN text[Nth(w, h)][w] ELSE 0]
      BY <2>3 DEF Code
    <2>5. more[i] = [gap |-> BblockEncode(Nth(w, h) - Nth(w, h - 1), b),
                     tf  |-> IF InvfLevel >= 2 THEN text[Nth(w, h)][w] ELSE 0]
      BY <1>0, <2>1 DEF NextCodes
    <2> QED
      BY <2>1, <2>4, <2>5
  <1>9. ASSUME NEW i \in 1..Len(new) PROVE new[i] = u[i]
    <2>1. i \in 1..(a + p)
      BY <1>5
    <2>2. CASE i <= a
      <3>1. i \in 1..a
        BY <1>2, <2>1, <2>2
      <3> QED
        BY <1>4, <1>5, <1>7, <2>1, <3>1
    <2>3. CASE i > a
      <3>1. PICK h : h = i - a
        OBVIOUS
      <3>2. h \in 1..p /\ i = a + h
        BY <1>2, <2>1, <2>3, <3>1
      <3>3. new[i] = more[h]
        BY <1>5, <1>8, <2>1, <3>2
      <3> QED
        BY <1>7, <3>2, <3>3
    <2> QED
      BY <1>2, <2>1, <2>2, <2>3
  <1>10. new = u
    BY <1>5, <1>7, <1>9, SameSeq
  <1> QED
    BY ONLY <1>0, <1>3, <1>7, <1>10, Zenon

\* What chunk_data keeps of the k-th chunk, as far as w is concerned.
HeldFor(j, k, w) ==
  /\ chunk_data[j].start_doc = Cut(k - 1)
  /\ chunk_data[j].N = Cut(k) - Cut(k - 1)
  /\ chunk_data[j].params[w].p = F(Cut(k), w) - F(Cut(k - 1), w)
  /\ F(Cut(k), w) > F(Cut(k - 1), w) => CodesAt(j, ChunkPtr(j, w)) = ChunkCodes(k, w)

\* Extended, with what it reads of the chunk given.
ExtendedBy(s, p, b, in, lead) ==
  LET x == [k \in 1..p |-> BblockDecode(in[k].gap, b) + IF k = 1 THEN lead ELSE 0]
      bits == [k \in 1..p |-> BblockLength(x[k], s.B)
                                + IF InvfLevel >= 2 THEN GammaLength(in[k].tf) ELSE 0]
  IN IF p = 0 THEN s
     ELSE [s EXCEPT !.Disk_Last = @ + SumFunctionOnSet(x, 1..p),
                    !.used      = @ + SumFunctionOnSet(bits, 1..p),
                    !.codes     = @ \o [k \in 1..p |->
                                         [gap |-> BblockEncode(x[k], s.B),
                                          tf  |-> in[k].tf]]]

LEMMA ExtendedIs ==
  ASSUME NEW s, NEW j, NEW w
  PROVE  Extended(s, j, w) =
           ExtendedBy(s, chunk_data[j].params[w].p,
                      Shl(FloorLog2(BblockInitW(chunk_data[j].N,
                                                chunk_data[j].params[w].p))),
                      CodesAt(j, ChunkPtr(j, w)), Rebased(chunk_data[j].start_doc, s))
  BY DEF Extended, ExtendedBy

\* DiskMerge takes an entry from the end of one chunk to the end of the next.
LEMMA ExtendedStep ==
  ASSUME TotalsOK, ChunksOK, NEW w \in Words, NEW k \in 1..Len(cuts),
         NEW j, HeldFor(j, k, w), NEW s, s.B \in Operand, EntryUpTo(s, w, Cut(k - 1))
  PROVE  EntryUpTo(Extended(s, j, w), w, Cut(k)) /\ Extended(s, j, w).B = s.B
  <1>1. PICK S, E, N, p, a, B :
          /\ S = Cut(k - 1) /\ E = Cut(k) /\ N = Cut(k) - Cut(k - 1) /\ B = s.B
          /\ p = F(Cut(k), w) - F(Cut(k - 1), w) /\ a = F(Cut(k - 1), w)
    OBVIOUS
  <1>2. /\ E \in 0..Len(text) /\ S \in 0..Len(text) /\ N \in 1..(Shl(MaxLog) - 1)
        /\ p \in 0..N
        /\ p > 0 => /\ BblockInitW(N, p) \in Operand
                    /\ Shl(FloorLog2(BblockInitW(N, p))) = BblockInitW(N, p)
    BY <1>1, ChunkFacts
  <1>3. S <= E /\ p \in Nat
    <2>1. N \in Nat \ {0} /\ p \in Nat
      BY <1>2
    <2>2. S \in Nat /\ E \in Nat
      BY <1>2 DEF TotalsOK, IsSeq
    <2> QED
      BY <1>1, <2>1, <2>2
  <1>4. /\ s = [Disk_Last |-> s.Disk_Last, used |-> s.used, codes |-> s.codes, B |-> s.B]
        /\ s.codes = Codes(w, 0, S, B) /\ s.Disk_Last = LastDoc(w, 0, S)
        /\ s.used = GapBits(w, F(S, w), B) + CountBits(w, F(S, w)) /\ B \in Operand
    BY <1>1 DEF EntryUpTo
  <1>5. /\ chunk_data[j].start_doc = S /\ chunk_data[j].N = N
        /\ chunk_data[j].params[w].p = p
    BY <1>1 DEF HeldFor
  <1>6. a \in Nat /\ F(S, w) = a /\ F(E, w) = a + p
    <2>1. F(S, w) \in Nat /\ F(E, w) \in Nat
      BY <1>2, <1>3, CountMonotone
    <2> QED
      BY <1>1, <2>1
  <1>7. CASE p = 0
    <2>1. Extended(s, j, w) = s
      BY <1>5, <1>7 DEF Extended
    <2>2. F(E, w) = F(S, w)
      BY <1>6, <1>7
    <2>3. Codes(w, 0, E, B) = Codes(w, 0, S, B) /\ LastDoc(w, 0, E) = LastDoc(w, 0, S)
      BY <2>2, CodesKept
    <2> QED
      BY ONLY <1>1, <1>4, <2>1, <2>2, <2>3, Zenon DEF EntryUpTo
  <1>8. CASE p > 0
    <2>1. PICK b : b = BblockInitW(N, p)
      OBVIOUS
    <2>2. b \in Operand /\ Shl(FloorLog2(BblockInitW(N, p))) = b
      BY <1>2, <1>8, <2>1
    <2>3. PICK in : in = Codes(w, S, E, b)
      OBVIOUS
    <2>4. CodesAt(j, ChunkPtr(j, w)) = in
      <3>1. F(E, w) > F(S, w) /\ p # 0
        BY <1>3, <1>6, <1>8
      <3>2. ChunkParam(k, w) = b
        BY <1>1, <2>1, <3>1 DEF ChunkParam
      <3> QED
        BY <1>1, <2>3, <3>1, <3>2 DEF HeldFor, ChunkCodes
    <2>5. \A i \in 1..p : in[i] = Code(w, S, a + i, b)
      <3>1. \A i \in 1..(F(E, w) - F(S, w)) : in[i] = Code(w, S, F(S, w) + i, b)
        BY <1>2, <1>3, <2>3, CodesAreSeq
      <3>2. F(E, w) - F(S, w) = p /\ F(S, w) = a
        BY <1>3, <1>6
      <3> QED
        BY ONLY <3>1, <3>2
    <2>6. PICK x : x = [i \in 1..p |-> BblockDecode(in[i].gap, b)
                                      + IF i = 1 THEN S - LastDoc(w, 0, S) ELSE 0]
      OBVIOUS
    <2>7. ASSUME NEW i \in 1..p
          PROVE  /\ x[i] = Nth(w, a + i) - Nth(w, (a + i) - 1)
                 /\ Nth(w, a + i) \in Int /\ Nth(w, (a + i) - 1) \in Int
                 /\ in[i].tf = IF InvfLevel >= 2 THEN text[Nth(w, a + i)][w] ELSE 0
      <3>1. /\ BblockDecode(Code(w, S, a + i, b).gap, b)
                 + (IF i = 1 THEN S - LastDoc(w, 0, S) ELSE 0)
               = Nth(w, a + i) - Nth(w, (a + i) - 1)
            /\ Nth(w, a + i) \in Int /\ Nth(w, (a + i) - 1) \in Int
            /\ Code(w, S, a + i, b).tf
                 = IF InvfLevel >= 2 THEN text[Nth(w, a + i)][w] ELSE 0
        BY <1>1, <1>2, <1>3, <2>2, GapsInEntry, SMTT(60)
      <3>2. in[i] = Code(w, S, a + i, b)
        BY <2>5
      <3>3. x[i] = BblockDecode(in[i].gap, b)
                     + IF i = 1 THEN S - LastDoc(w, 0, S) ELSE 0
        BY <2>6
      <3> QED
        BY <3>1, <3>2, <3>3
    <2>8. PICK more : more = [i \in 1..p |-> [gap |-> BblockEncode(x[i], B),
                                             tf  |-> in[i].tf]]
      OBVIOUS
    <2>9. PICK bits : bits = [i \in 1..p |->
                               BblockLength(x[i], B)
                                 + IF InvfLevel >= 2 THEN GammaLength(in[i].tf) ELSE 0]
      OBVIOUS
    <2>10. Extended(s, j, w) =
             [s EXCEPT !.Disk_Last = @ + SumFunctionOnSet(x, 1..p),
                       !.used      = @ + SumFunctionOnSet(bits, 1..p),
                       !.codes     = @ \o more]
      <3>1. p # 0
        BY <1>8
      <3> QED
        <4>1. Extended(s, j, w) = ExtendedBy(s, p, b, in, S - LastDoc(w, 0, S))
          BY ONLY <1>4, <1>5, <2>2, <2>4, ExtendedIs, Zenon DEF Rebased
        <4>2. s.B = B
          BY <1>1
        <4>3. ExtendedBy(s, p, b, in, S - LastDoc(w, 0, S)) =
                [s EXCEPT !.Disk_Last = @ + SumFunctionOnSet(x, 1..p),
                          !.used      = @ + SumFunctionOnSet(bits, 1..p),
                          !.codes     = @ \o more]
          BY ONLY <2>6, <2>8, <2>9, <3>1, <4>2, Zenon DEF ExtendedBy
        <4> QED
          BY ONLY <4>1, <4>3, Zenon
    <2>11. PICK t : /\ t = Extended(s, j, w)
                    /\ t.Disk_Last = s.Disk_Last + SumFunctionOnSet(x, 1..p)
                    /\ t.used = s.used + SumFunctionOnSet(bits, 1..p)
                    /\ t.codes = s.codes \o more /\ t.B = s.B
                    /\ t = [Disk_Last |-> t.Disk_Last, used |-> t.used,
                            codes |-> t.codes, B |-> t.B]
      <3>1. PICK dl, us, co, sb : /\ dl = s.Disk_Last /\ us = s.used
                                  /\ co = s.codes /\ sb = s.B
        OBVIOUS
      <3>2. s = [Disk_Last |-> dl, used |-> us, codes |-> co, B |-> sb]
        BY ONLY <1>4, <3>1
      <3> QED
        BY ONLY <2>10, <3>1, <3>2
    <2>12. t.codes = Codes(w, 0, E, B)
      <3>1. more = NextCodes(w, a, p, B)
        BY <2>7, <2>8 DEF NextCodes
      <3>3. Codes(w, 0, E, B) = Codes(w, 0, S, B) \o more
        <4>1. p = F(E, w) - F(S, w) /\ a = F(S, w)
          BY <1>3, <1>6
        <4>2. Codes(w, 0, E, B)
                = Codes(w, 0, S, B) \o NextCodes(w, F(S, w), F(E, w) - F(S, w), B)
          BY <1>2, <1>3, CodesJoin
        <4> QED
          BY ONLY <3>1, <4>1, <4>2, Zenon
      <3> QED
        BY ONLY <1>4, <2>11, <3>3
    <2>13. t.Disk_Last = LastDoc(w, 0, E)
      <3>1. PICK g : g = [i \in 0..p |-> Nth(w, a + i)]
        OBVIOUS
      <3>2. \A i \in 1..p : x[i] = g[i] - g[i - 1]
        <4>1. ASSUME NEW i \in 1..p PROVE x[i] = g[i] - g[i - 1]
          <5>1. i \in 0..p /\ i - 1 \in 0..p /\ a + (i - 1) = (a + i) - 1
            BY ONLY <1>3, <1>6, i \in 1..p
          <5>2. g[i] = Nth(w, a + i) /\ g[i - 1] = Nth(w, (a + i) - 1)
            BY <3>1, <5>1
          <5> QED
            BY <2>7, <5>2
        <4> QED
          BY <4>1
      <3>3. \A i \in 0..p : g[i] \in Int
        <4>1. ASSUME NEW i \in 0..p PROVE g[i] \in Int
          <5>1. g[i] = Nth(w, a + i)
            BY <3>1
          <5>2. CASE i = 0
            <6>1. 1 \in 1..p /\ (a + 1) - 1 = a + i
              BY <1>3, <1>6, <1>8, <5>2
            <6>2. Nth(w, (a + 1) - 1) \in Int
              BY <2>7, <6>1
            <6> QED
              BY <5>1, <6>1, <6>2
          <5>3. CASE i # 0
            <6>1. i \in 1..p
              BY <5>3
            <6> QED
              BY <2>7, <5>1, <6>1
          <5> QED
            BY <5>2, <5>3
        <4> QED
          BY <4>1
      <3>4. SumFunctionOnSet(x, 1..p) = g[p] - g[0]
        BY <1>3, <3>2, <3>3, SumTelescopes
      <3>5. 0 \in 0..p /\ p \in 0..p /\ g[0] \in Int /\ g[p] \in Int
        BY <1>3, <3>3
      <3>6. g[p] = Nth(w, a + p) /\ g[0] = Nth(w, a)
        BY <1>6, <3>1, <3>5
      <3>7. s.Disk_Last = g[0] /\ LastDoc(w, 0, E) = g[p]
        BY <1>2, <1>4, <1>6, <3>6, LastDocIsNth
      <3> QED
        BY <2>11, <3>4, <3>5, <3>7
    <2>14. t.used = GapBits(w, F(E, w), B) + CountBits(w, F(E, w))
      <3>1. PICK g : g = [i \in 0..p |-> GapBits(w, a + i, B) + CountBits(w, a + i)]
        OBVIOUS
      <3>2. ASSUME NEW i \in 0..p PROVE a + i \in 0..F(Len(text), w)
        <4>1. F(E, w) <= F(Len(text), w) /\ F(Len(text), w) \in Nat
          <5>1. Len(text) \in 0..Len(text) /\ E <= Len(text)
            BY <1>2 DEF TotalsOK, IsSeq
          <5> QED
            BY <1>2, <5>1, CountMonotone
        <4> QED
          BY ONLY <1>3, <1>6, <3>2, <4>1
      <3>3. \A i \in 0..p : g[i] \in Int
        <4>1. ASSUME NEW i \in 0..p PROVE g[i] \in Int
          <5>1. GapBits(w, a + i, B) \in Nat /\ CountBits(w, a + i) \in Nat
            BY <1>4, <3>2, BitsType
          <5> QED
            BY <3>1, <5>1
        <4> QED
          BY <4>1
      <3>4. \A i \in 1..p : bits[i] = g[i] - g[i - 1]
        <4>1. ASSUME NEW i \in 1..p PROVE bits[i] = g[i] - g[i - 1]
          <5>1. PICK n, m : n = a + i /\ m = n - 1
            OBVIOUS
          <5>2. /\ i \in 0..p /\ i - 1 \in 0..p /\ a + (i - 1) = m /\ a + i = n
            BY ONLY <1>3, <1>6, <5>1, i \in 1..p
          <5>3. n \in 1..F(Len(text), w)
            <6>1. n \in 0..F(Len(text), w)
              BY <3>2, <5>2
            <6>2. n > 0
              BY <1>6, <5>1
            <6> QED
              BY ONLY <6>1, <6>2
          <5>4. /\ GapBits(w, n, B) = GapBits(w, m, B) + BblockLength(Gap(w, n), B)
                /\ CountBits(w, n) = CountBits(w, m) + CountLength(w, n)
                /\ m \in 0..F(Len(text), w)
            BY <1>4, <5>1, <5>3, BitsStep
          <5>5. /\ GapBits(w, m, B) \in Nat /\ CountBits(w, m) \in Nat
                /\ BblockLength(Gap(w, n), B) \in Nat /\ CountLength(w, n) \in Nat
            BY <1>4, <5>3, <5>4, BitsType, PostingLengths
          <5>6. /\ g[i] = GapBits(w, n, B) + CountBits(w, n)
                /\ g[i - 1] = GapBits(w, m, B) + CountBits(w, m)
            BY <3>1, <5>2
          <5>7. bits[i] = BblockLength(Gap(w, n), B) + CountLength(w, n)
            <6>1. x[i] = Gap(w, n)
                  /\ in[i].tf = IF InvfLevel >= 2 THEN text[Nth(w, n)][w] ELSE 0
              BY <2>7, <5>1 DEF Gap
            <6>2. bits[i] = BblockLength(x[i], B)
                              + IF InvfLevel >= 2 THEN GammaLength(in[i].tf) ELSE 0
              BY <2>9
            <6> QED
              BY <6>1, <6>2 DEF CountLength
          <5> QED
            BY ONLY <5>4, <5>5, <5>6, <5>7
        <4> QED
          BY <4>1
      <3>5. SumFunctionOnSet(bits, 1..p) = g[p] - g[0]
        BY <1>3, <3>3, <3>4, SumTelescopes
      <3>6. 0 \in 0..p /\ p \in 0..p /\ g[0] \in Int /\ g[p] \in Int
        BY <1>3, <3>3
      <3>7. g[p] = GapBits(w, F(E, w), B) + CountBits(w, F(E, w)) /\ s.used = g[0]
        <4>1. a + 0 = F(S, w) /\ a + p = F(E, w)
          BY <1>6
        <4> QED
          BY <1>4, <3>1, <3>6, <4>1
      <3> QED
        BY <2>11, <3>5, <3>6, <3>7
    <2> QED
      BY ONLY <1>1, <2>11, <2>12, <2>13, <2>14, Zenon DEF EntryUpTo
  <1> QED
    BY <1>3, <1>7, <1>8

\* One step of the recursion behind MergedEntry, and what solves it.
MergeBody(e, w, j) == IF j = 0 THEN isr[w] ELSE Extended(e[j - 1], j, w)

Merges(e, w, n) == e = [j \in 0..n |-> MergeBody(e, w, j)]

LEMMA MergesExists ==
  ASSUME NEW w, NEW n \in Nat
  PROVE  \E e : Merges(e, w, n)
  <1> DEFINE G == {m \in Nat : \E e : Merges(e, w, m)}
  <1>1. 0 \in G
    <2>1. PICK e : e = [j \in 0..0 |-> isr[w]]
      OBVIOUS
    <2>2. [j \in 0..0 |-> isr[w]] = [j \in 0..0 |-> MergeBody(e, w, j)]
      <3>1. \A j \in 0..0 : MergeBody(e, w, j) = isr[w]
        BY DEF MergeBody
      <3> QED
        BY <3>1
    <2>3. Merges(e, w, 0)
      BY ONLY <2>1, <2>2, Zenon DEF Merges
    <2> QED
      BY <2>3
  <1>2. ASSUME NEW m \in Nat, m \in G PROVE m + 1 \in G
    <2>1. PICK e : Merges(e, w, m)
      BY <1>2
    <2>2. PICK k : k = m + 1
      OBVIOUS
    <2>3. PICK g : g = [j \in 0..k |-> MergeBody(e, w, j)]
      OBVIOUS
    <2>4. ASSUME NEW j \in 0..k PROVE MergeBody(g, w, j) = MergeBody(e, w, j)
      <3>1. CASE j = 0
        BY <3>1 DEF MergeBody
      <3>2. CASE j # 0
        <4>1. PICK h : h = j - 1
          OBVIOUS
        <4>2. h \in 0..m /\ h \in 0..k
          BY <2>2, <3>2, <4>1
        <4>3. g[h] = MergeBody(e, w, h) /\ e[h] = MergeBody(e, w, h)
          BY <2>1, <2>3, <4>2 DEF Merges
        <4> QED
          BY <3>2, <4>1, <4>3 DEF MergeBody
      <3> QED
        BY <3>1, <3>2
    <2>5. [j \in 0..k |-> MergeBody(e, w, j)] = [j \in 0..k |-> MergeBody(g, w, j)]
      BY <2>4
    <2>6. Merges(g, w, k)
      BY ONLY <2>3, <2>5, Zenon DEF Merges
    <2> QED
      BY <2>2, <2>6
  <1>3. Nat \subseteq G
    <2> HIDE DEF G
    <2> QED
      BY <1>1, <1>2, NatInductionOnSet
  <1> QED
    BY <1>3

LEMMA MergesAgree ==
  ASSUME NEW w, NEW m \in Nat, NEW n \in Nat, m <= n,
         NEW e, Merges(e, w, m), NEW g, Merges(g, w, n)
  PROVE  e[m] = g[m]
  <1> DEFINE G == {j \in Nat : j <= m => e[j] = g[j]}
  <1>0. ASSUME NEW j \in 0..m
        PROVE  e[j] = MergeBody(e, w, j) /\ g[j] = MergeBody(g, w, j)
    <2>1. j \in 0..n
      OBVIOUS
    <2> QED
      BY <2>1 DEF Merges
  <1>1. 0 \in G
    <2>1. 0 \in 0..m
      OBVIOUS
    <2>2. e[0] = MergeBody(e, w, 0) /\ g[0] = MergeBody(g, w, 0)
      BY <1>0, <2>1
    <2>3. e[0] = isr[w] /\ g[0] = isr[w]
      BY <2>2 DEF MergeBody
    <2> QED
      BY <2>3
  <1>2. ASSUME NEW j \in Nat, j \in G PROVE j + 1 \in G
    <2>1. PICK k : k = j + 1
      OBVIOUS
    <2>2. ASSUME k <= m PROVE e[k] = g[k]
      <3>1. e[j] = g[j]
        <4>1. j <= m
          BY <2>1, <2>2
        <4> QED
          BY <1>2, <4>1
      <3>2. k \in 0..m /\ k # 0 /\ k - 1 = j
        BY <2>1, <2>2
      <3>3. e[k] = MergeBody(e, w, k) /\ g[k] = MergeBody(g, w, k)
        BY <1>0, <3>2
      <3> QED
        BY <3>1, <3>2, <3>3 DEF MergeBody
    <2> QED
      BY <2>1, <2>2
  <1>3. Nat \subseteq G
    <2> HIDE DEF G
    <2> QED
      BY <1>1, <1>2, NatInductionOnSet
  <1> QED
    BY <1>3

LEMMA MergedBy ==
  ASSUME NEW w, NEW n \in Nat, NEW m \in Nat, m <= n, NEW g, Merges(g, w, n)
  PROVE  MergedEntry(w, m) = g[m]
  <1>1. PICK e : e = CHOOSE h : Merges(h, w, m)
    OBVIOUS
  <1>2. Merges(e, w, m)
    BY <1>1, MergesExists
  <1>3. MergedEntry(w, m) = e[m]
    BY <1>1, Zenon DEF MergedEntry, Merges, MergeBody
  <1>4. e[m] = g[m]
    BY <1>2, MergesAgree
  <1> QED
    BY <1>3, <1>4

\* A merge extends the entry by one chunk after another.
LEMMA MergedUnfolded ==
  ASSUME NEW w, NEW n \in Nat
  PROVE  /\ MergedEntry(w, 0) = isr[w]
         /\ MergedEntry(w, n + 1) = Extended(MergedEntry(w, n), n + 1, w)
  <1>1. PICK k : k = n + 1
    OBVIOUS
  <1>2. k \in Nat /\ n <= k /\ 0 <= k /\ k - 1 = n /\ k # 0
    BY <1>1
  <1>3. PICK e : Merges(e, w, k)
    BY <1>2, MergesExists
  <1>4. /\ MergedEntry(w, 0) = e[0] /\ MergedEntry(w, n) = e[n]
        /\ MergedEntry(w, k) = e[k]
    BY <1>2, <1>3, MergedBy
  <1>5. e[0] = isr[w] /\ e[k] = Extended(e[n], k, w)
    <2>1. 0 \in 0..k /\ k \in 0..k
      BY <1>2
    <2>2. e[0] = MergeBody(e, w, 0) /\ e[k] = MergeBody(e, w, k)
      BY <1>3, <2>1 DEF Merges
    <2> QED
      BY <1>2, <2>2 DEF MergeBody
  <1> QED
    BY <1>1, <1>4, <1>5
----------------------------------------------------------------------------
(* What a reader gets out of an entry, and what InvertedIndex promises.    *)

\* The postings of w, by their places.
Listed(w) ==
  [k \in 1..F(Len(text), w) |->
     [doc |-> Nth(w, k), tf |-> IF InvfLevel >= 2 THEN text[Nth(w, k)][w] ELSE 0]]

\* Those in the documents after s and up to n.
ListedFrom(w, s, n) ==
  [k \in 1..(F(n, w) - F(s, w)) |->
     [doc |-> Nth(w, F(s, w) + k),
      tf  |-> IF InvfLevel >= 2 THEN text[Nth(w, F(s, w) + k)][w] ELSE 0]]

ReadBody(d, codes, s, B, k) ==
  IF k = 0 THEN s ELSE d[k - 1] + BblockDecode(codes[k].gap, B)

Reads(d, codes, s, B) == d = [k \in 0..Len(codes) |-> ReadBody(d, codes, s, B, k)]

\* The k-th document that holds w after document s, and s itself before the first.
NthFrom(w, s, k) == IF k = 0 THEN s ELSE Nth(w, F(s, w) + k)

\* Codes made from document s on give the postings behind it when read from there.
LEMMA CodesDecoded ==
  ASSUME TotalsOK, NEW w \in Words, NEW s \in 0..Len(text), NEW n \in 0..Len(text),
         s <= n, NEW B \in Operand
  PROVE  Decoded(Codes(w, s, n, B), s, B) = ListedFrom(w, s, n)
  <1>0. PICK codes, a, p : codes = Codes(w, s, n, B) /\ a = F(s, w) /\ p = F(n, w) - F(s, w)
    OBVIOUS
  <1>1. s \in Nat /\ n \in Nat /\ Len(text) \in Nat /\ Len(text) \in 0..Len(text)
    BY DEF TotalsOK, IsSeq
  <1>2. /\ a \in Nat /\ p \in Nat /\ F(n, w) = a + p /\ F(Len(text), w) \in Nat
        /\ a + p <= F(Len(text), w)
    <2>1. F(s, w) \in Nat /\ F(n, w) \in Nat /\ F(s, w) <= F(n, w)
      BY CountMonotone
    <2>2. F(Len(text), w) \in Nat /\ F(n, w) <= F(Len(text), w)
      <3>1. n <= Len(text)
        BY <1>1
      <3> QED
        BY <1>1, <3>1, CountMonotone
    <2> QED
      BY <1>0, <2>1, <2>2
  <1>3. /\ Len(codes) = p /\ DOMAIN codes = 1..p
        /\ \A k \in 1..p : codes[k] = Code(w, s, a + k, B)
    <2>1. /\ Len(Codes(w, s, n, B)) = F(n, w) - F(s, w)
          /\ DOMAIN Codes(w, s, n, B) = 1..(F(n, w) - F(s, w))
          /\ \A k \in 1..(F(n, w) - F(s, w)) :
               Codes(w, s, n, B)[k] = Code(w, s, F(s, w) + k, B)
      BY CodesAreSeq
    <2> QED
      BY <1>0, <2>1
  <1>4. ASSUME NEW k \in 1..p
        PROVE  /\ BblockDecode(codes[k].gap, B) = NthFrom(w, s, k) - NthFrom(w, s, k - 1)
               /\ codes[k].tf = IF InvfLevel >= 2 THEN text[Nth(w, a + k)][w] ELSE 0
               /\ NthFrom(w, s, k) \in Nat /\ NthFrom(w, s, k - 1) \in Nat
    <2>1. PICK i : i = a + k
      OBVIOUS
    <2>2. i \in 1..F(Len(text), w) /\ i > F(s, w) /\ i \in Nat /\ k \in Nat \ {0}
      BY <1>0, <1>2, <2>1
    <2>3. NthFrom(w, s, k) = Nth(w, i)
      BY <1>0, <2>1, <2>2 DEF NthFrom
    <2>4. NthFrom(w, s, k - 1) = IF i - 1 > F(s, w) THEN Nth(w, i - 1) ELSE s
      <3>1. CASE k = 1
        BY <1>0, <1>2, <2>1, <3>1 DEF NthFrom
      <3>2. CASE k # 1
        <4>1. k - 1 # 0 /\ i - 1 > a /\ a + (k - 1) = i - 1
          BY <1>2, <2>1, <2>2, <3>2
        <4> QED
          BY <1>0, <4>1 DEF NthFrom
      <3> QED
        BY <3>1, <3>2
    <2>5. /\ NthFrom(w, s, k) \in Nat /\ NthFrom(w, s, k - 1) \in Nat
          /\ NthFrom(w, s, k - 1) < NthFrom(w, s, k)
      <3>1. Nth(w, i) \in Nat /\ Nth(w, i - 1) \in Nat /\ Nth(w, i - 1) < Nth(w, i)
        BY <2>2, NthStep
      <3>2. Nth(w, i) > s
        BY <2>2, NthAfter
      <3> QED
        BY <1>1, <2>3, <2>4, <3>1, <3>2
    <2>6. PICK g : g = NthFrom(w, s, k) - NthFrom(w, s, k - 1)
      OBVIOUS
    <2>7. g \in Nat \ {0}
      BY <2>5, <2>6
    <2>8. /\ codes[k].gap = BblockEncode(g, B)
          /\ codes[k].tf = IF InvfLevel >= 2 THEN text[Nth(w, i)][w] ELSE 0
      <3>1. codes[k] = Code(w, s, i, B)
        BY <1>3, <2>1
      <3>2. g = Nth(w, i) - (IF i - 1 > F(s, w) THEN Nth(w, i - 1) ELSE s)
        BY <2>3, <2>4, <2>6
      <3> QED
        BY <3>1, <3>2 DEF Code
    <2> QED
      BY <2>1, <2>5, <2>6, <2>7, <2>8, BblockRoundTrip
  <1>5. PICK d : d = [k \in 0..p |-> NthFrom(w, s, k)]
    OBVIOUS
  <1>6. Reads(d, codes, s, B)
    <2>1. ASSUME NEW k \in 0..p PROVE ReadBody(d, codes, s, B, k) = NthFrom(w, s, k)
      <3>1. CASE k = 0
        BY <3>1 DEF ReadBody, NthFrom
      <3>2. CASE k # 0
        <4>1. k \in 1..p /\ k - 1 \in 0..p
          BY <1>2, <3>2
        <4>2. d[k - 1] = NthFrom(w, s, k - 1)
          BY <1>5, <4>1
        <4>3. /\ BblockDecode(codes[k].gap, B) = NthFrom(w, s, k) - NthFrom(w, s, k - 1)
              /\ NthFrom(w, s, k) \in Nat /\ NthFrom(w, s, k - 1) \in Nat
          BY <1>4, <4>1
        <4> QED
          BY <3>2, <4>2, <4>3 DEF ReadBody
      <3> QED
        BY <3>1, <3>2
    <2>2. [k \in 0..p |-> NthFrom(w, s, k)] = [k \in 0..p |-> ReadBody(d, codes, s, B, k)]
      BY <2>1
    <2> QED
      BY ONLY <1>3, <1>5, <2>2, Zenon DEF Reads
  <1>7. PICK e : e = CHOOSE h : Reads(h, codes, s, B)
    OBVIOUS
  <1>8. Reads(e, codes, s, B)
    BY <1>6, <1>7
  <1>9. ASSUME NEW k \in 0..p PROVE e[k] = NthFrom(w, s, k)
    <2> DEFINE G == {j \in Nat : j <= p => e[j] = NthFrom(w, s, j)}
    <2>0. ASSUME NEW j \in 0..p PROVE e[j] = ReadBody(e, codes, s, B, j)
      BY <1>3, <1>8 DEF Reads
    <2>1. 0 \in G
      <3>1. 0 \in 0..p
        BY <1>2
      <3>2. e[0] = s
        BY <2>0, <3>1 DEF ReadBody
      <3> QED
        BY <3>2 DEF NthFrom
    <2>2. ASSUME NEW j \in Nat, j \in G PROVE j + 1 \in G
      <3>1. PICK i : i = j + 1
        OBVIOUS
      <3>2. ASSUME i <= p PROVE e[i] = NthFrom(w, s, i)
        <4>1. e[j] = NthFrom(w, s, j)
          <5>1. j <= p
            BY <1>2, <3>1, <3>2
          <5> QED
            BY <2>2, <5>1
        <4>2. i \in 1..p /\ i \in 0..p /\ i # 0 /\ i - 1 = j
          BY <1>2, <3>1, <3>2
        <4>3. e[i] = e[j] + BblockDecode(codes[i].gap, B)
          BY <2>0, <4>2 DEF ReadBody
        <4>4. /\ BblockDecode(codes[i].gap, B) = NthFrom(w, s, i) - NthFrom(w, s, j)
              /\ NthFrom(w, s, i) \in Nat /\ NthFrom(w, s, j) \in Nat
          BY <1>4, <4>2
        <4> QED
          BY <4>1, <4>3, <4>4
      <3> QED
        BY <3>1, <3>2
    <2>3. Nat \subseteq G
      <3> HIDE DEF G
      <3> QED
        BY <2>1, <2>2, NatInductionOnSet
    <2> QED
      BY <1>2, <2>3
  <1>10. Decoded(codes, s, B) = [k \in DOMAIN codes |-> [doc |-> e[k], tf |-> codes[k].tf]]
    BY <1>7, Zenon DEF Decoded, Reads, ReadBody
  <1>11. ASSUME NEW k \in 1..p
         PROVE  [doc |-> e[k], tf |-> codes[k].tf]
                  = [doc |-> Nth(w, a + k),
                     tf  |-> IF InvfLevel >= 2 THEN text[Nth(w, a + k)][w] ELSE 0]
    <2>1. k \in 0..p /\ k # 0
      BY <1>2
    <2>2. e[k] = Nth(w, a + k)
      BY <1>0, <1>9, <2>1 DEF NthFrom
    <2> QED
      BY <1>4, <2>2
  <1>12. Decoded(codes, s, B) = [k \in 1..p |-> [doc |-> e[k], tf |-> codes[k].tf]]
    BY <1>3, <1>10
  <1>13. ListedFrom(w, s, n) =
            [k \in 1..p |->
               [doc |-> Nth(w, a + k),
                tf  |-> IF InvfLevel >= 2 THEN text[Nth(w, a + k)][w] ELSE 0]]
    BY <1>0 DEF ListedFrom
  <1> QED
    BY <1>0, <1>11, <1>12, <1>13

LEMMA EntryDecoded ==
  ASSUME TotalsOK, NEW w \in Words, isr[w].B \in Operand,
         isr[w].codes = Codes(w, 0, Len(text), isr[w].B)
  PROVE  Entry(w) = Listed(w) /\ Len(isr[w].codes) = F(Len(text), w)
  <1>1. Len(text) \in Nat /\ Len(text) \in 0..Len(text) /\ 0 \in 0..Len(text) /\ 0 <= Len(text)
    BY DEF TotalsOK, IsSeq
  <1>2. F(Len(text), w) \in Nat /\ F(0, w) = 0
    BY <1>1, CountMonotone
  <1>3. Entry(w) = ListedFrom(w, 0, Len(text))
    BY <1>1, CodesDecoded DEF Entry
  <1>4. ListedFrom(w, 0, Len(text)) = Listed(w)
    BY <1>2 DEF ListedFrom, Listed
  <1>5. Len(Codes(w, 0, Len(text), isr[w].B)) = F(Len(text), w) - F(0, w)
    BY <1>1, CodesAreSeq
  <1> QED
    BY <1>2, <1>3, <1>4, <1>5

\* They are all postings of these documents, in order.
LEMMA ListedLists ==
  ASSUME TotalsOK, NEW w \in Words, NEW s \in 0..Len(text), NEW n \in 0..Len(text),
         s <= n
  PROVE  Lists(ListedFrom(w, s, n), w, s, n)
  <1>0. PICK p, a, l : p = F(n, w) - F(s, w) /\ a = F(s, w) /\ l = ListedFrom(w, s, n)
    OBVIOUS
  <1> DEFINE Tf(m) == IF InvfLevel >= 2 THEN text[m][w] ELSE 0
  <1>1. s \in Nat /\ n \in Nat /\ Len(text) \in Nat /\ Len(text) \in 0..Len(text)
    BY DEF TotalsOK, IsSeq
  <1>2. /\ a \in Nat /\ p \in Nat /\ F(n, w) = a + p /\ F(Len(text), w) \in Nat
        /\ a + p <= F(Len(text), w)
    <2>1. F(s, w) \in Nat /\ F(n, w) \in Nat /\ F(s, w) <= F(n, w)
      BY CountMonotone
    <2>2. F(Len(text), w) \in Nat /\ F(n, w) <= F(Len(text), w)
      <3>1. n <= Len(text)
        BY <1>1
      <3> QED
        BY <1>1, <3>1, CountMonotone
    <2> QED
      BY <1>0, <2>1, <2>2
  <1>3. l = [k \in 1..p |-> [doc |-> Nth(w, a + k), tf |-> Tf(Nth(w, a + k))]]
    BY <1>0 DEF ListedFrom
  <1> HIDE DEF Tf
  <1>4. Len(l) = p /\ DOMAIN l = 1..p
    <2>1. l = [k \in 1..p |-> l[k]]
      BY <1>3
    <2> QED
      BY <1>2, <2>1, FunctionIsSeq
  <1>5. \A k \in 1..p : l[k].doc = Nth(w, a + k) /\ l[k] = [doc |-> Nth(w, a + k), tf |-> Tf(Nth(w, a + k))]
    BY <1>3
  <1>6. ASSUME NEW k \in 2..Len(l) PROVE l[k - 1].doc < l[k].doc
    <2>1. PICK i : i = a + k
      OBVIOUS
    <2>2. /\ i \in 1..F(Len(text), w) /\ k \in 1..p /\ k - 1 \in 1..p
          /\ a + (k - 1) = i - 1
      BY <1>2, <1>4, <2>1
    <2>3. Nth(w, i - 1) < Nth(w, i)
      BY <2>2, NthStep
    <2>4. l[k].doc = Nth(w, a + k) /\ l[k - 1].doc = Nth(w, a + (k - 1))
      BY <1>5, <2>2
    <2> QED
      BY <2>1, <2>2, <2>3, <2>4
  <1>7. PICK docs : docs = {m \in (s + 1)..n : text[m][w] > 0}
    OBVIOUS
  <1>8. ASSUME NEW k \in 1..p PROVE Nth(w, a + k) \in docs
    <2>1. PICK i : i = a + k
      OBVIOUS
    <2>2. i \in 1..F(n, w) /\ i \in 1..F(Len(text), w) /\ i > F(s, w)
      BY <1>0, <1>2, <2>1
    <2>3. Nth(w, i) \in 1..n /\ text[Nth(w, i)][w] > 0
      BY <2>2, NthSpec
    <2>4. Nth(w, i) > s
      BY <2>2, NthAfter
    <2> QED
      BY <1>1, <1>7, <2>1, <2>3, <2>4
  <1>9. ASSUME NEW m \in docs PROVE \E k \in 1..p : Nth(w, a + k) = m
    <2>1. m \in (s + 1)..n /\ text[m][w] > 0
      BY <1>7
    <2>2. m \in 1..Len(text) /\ m - 1 \in 0..Len(text) /\ m \in 0..Len(text) /\ s <= m - 1 /\ m <= n
      BY <1>1, <2>1
    <2>3. Nth(w, F(m, w)) = m /\ F(m, w) \in Nat \ {0}
      BY <2>1, <2>2, NthOf
    <2>4. PICK f, g : f = F(m, w) /\ g = F(m - 1, w)
      OBVIOUS
    <2>5. f = g + 1 /\ g \in Nat
      BY <2>1, <2>2, <2>4, CountGrows
    <2>6. a <= g
      <3>1. F(s, w) <= F(m - 1, w)
        BY <2>2, CountMonotone
      <3> QED
        BY ONLY <1>0, <2>4, <3>1
    <2>7. f <= a + p
      <3>1. F(m, w) <= F(n, w)
        BY <2>2, CountMonotone
      <3> QED
        BY ONLY <1>2, <2>4, <3>1
    <2>8. PICK k : k = f - a
      OBVIOUS
    <2>9. k \in 1..p /\ a + k = f
      BY ONLY <1>2, <2>5, <2>6, <2>7, <2>8
    <2> QED
      BY <2>3, <2>4, <2>9
  <1>10. Range(l) = {[doc |-> m, tf |-> Tf(m)] : m \in docs}
    <2>1. Range(l) = {l[k] : k \in 1..p}
      BY <1>4 DEF Range
    <2>2. ASSUME NEW k \in 1..p PROVE \E m \in docs : l[k] = [doc |-> m, tf |-> Tf(m)]
      BY <1>5, <1>8
    <2>3. ASSUME NEW m \in docs PROVE \E k \in 1..p : l[k] = [doc |-> m, tf |-> Tf(m)]
      BY <1>5, <1>9
    <2> QED
      BY <2>1, <2>2, <2>3
  <1>11. Range(l) = {[doc |-> m, tf |-> IF InvfLevel >= 2 THEN text[m][w] ELSE 0] :
                       m \in {m \in (s + 1)..n : text[m][w] > 0}}
    BY <1>7, <1>10 DEF Tf
  <1>12. Lists(l, w, s, n)
    BY ONLY <1>6, <1>11 DEF Lists
  <1> QED
    BY <1>0, <1>12

\* The running count counts documents.
LEMMA CountIsCardinality ==
  ASSUME TotalsOK, NEW w \in Words, NEW n \in 0..Len(text)
  PROVE  /\ IsFiniteSet({m \in 1..n : text[m][w] > 0})
         /\ Cardinality({m \in 1..n : text[m][w] > 0}) = F(n, w)
  <1> DEFINE H(k) == {m \in 1..k : text[m][w] > 0}
             G == {k \in Nat : k <= n => /\ IsFiniteSet(H(k))
                                         /\ Cardinality(H(k)) = F(k, w)}
  <1>0. Len(text) \in Nat /\ n \in Nat /\ n <= Len(text)
    BY DEF TotalsOK, IsSeq
  <1>1. 0 \in G
    <2>1. H(0) = {}
      OBVIOUS
    <2>2. F(0, w) = 0
      BY DEF F
    <2> QED
      BY <2>1, <2>2, FS_EmptySet
  <1>2. ASSUME NEW k \in Nat, k \in G PROVE k + 1 \in G
    <2>1. PICK i : i = k + 1
      OBVIOUS
    <2>2. ASSUME i <= n PROVE IsFiniteSet(H(i)) /\ Cardinality(H(i)) = F(i, w)
      <3>1. IsFiniteSet(H(k)) /\ Cardinality(H(k)) = F(k, w)
        <4>1. k <= n
          BY <1>0, <2>1, <2>2
        <4> QED
          BY <1>2, <4>1
      <3>2. i \in 1..Len(text) /\ i - 1 = k
        BY <1>0, <2>1, <2>2
      <3>3. /\ F(i, w) = F(k, w) + IF text[i][w] > 0 THEN 1 ELSE 0
            /\ F(k, w) \in Nat
        BY <3>2, CountGrows
      <3>4. CASE text[i][w] > 0
        <4>1. H(i) = H(k) \cup {i} /\ i \notin H(k)
          BY <2>1, <3>4
        <4> HIDE DEF H
        <4>2. /\ IsFiniteSet(H(k) \cup {i})
              /\ Cardinality(H(k) \cup {i}) = Cardinality(H(k)) + 1
          BY <3>1, <4>1, FS_AddElement
        <4>3. F(i, w) = F(k, w) + 1
          BY <3>3, <3>4
        <4> QED
          BY ONLY <3>1, <4>1, <4>2, <4>3, Zenon
      <3>5. CASE ~(text[i][w] > 0)
        <4>1. H(i) = H(k)
          BY <2>1, <3>5
        <4>2. F(i, w) = F(k, w)
          BY <3>3, <3>5
        <4> QED
          BY ONLY <3>1, <4>1, <4>2, Zenon
      <3> QED
        BY <3>4, <3>5
    <2> HIDE DEF H
    <2> QED
      BY <2>1, <2>2
  <1>3. Nat \subseteq G
    <2> HIDE DEF G
    <2> QED
      BY <1>1, <1>2, NatInductionOnSet
  <1>4. n \in G /\ n <= n
    BY <1>0, <1>3
  <1> QED
    BY <1>4

\* InvertedIndex counts as this module does.
LEMMA CardinalitySame ==
  ASSUME NEW S
  PROVE  Abstract!Cardinality(S) = Cardinality(S)
  BY Zenon DEF Abstract!Cardinality, Cardinality

LEMMA PostingsListed ==
  ASSUME TotalsOK, InvfLevel \in {1, 2, 3}, NEW w \in Words
  PROVE  Abstract!Postings(text, w) = Listed(w)
  <1> DEFINE holding == {n \in DOMAIN text : text[n][w] > 0}
             nth(i) == CHOOSE n \in holding :
                         Abstract!Cardinality({m \in holding : m <= n}) = i
  <1>1. /\ Len(text) \in Nat /\ Len(text) \in 0..Len(text)
        /\ DOMAIN text = 1..Len(text)
    BY DEF TotalsOK, IsSeq
  <1>2. Abstract!Cardinality(holding) = F(Len(text), w)
    <2>1. holding = {m \in 1..Len(text) : text[m][w] > 0}
      BY <1>1
    <2> HIDE DEF holding
    <2> QED
      BY <1>1, <2>1, CountIsCardinality, CardinalitySame
  <1>3. ASSUME NEW n \in holding
        PROVE  Abstract!Cardinality({m \in holding : m <= n}) = F(n, w)
    <2>1. n \in 0..Len(text) /\ n \in 1..Len(text)
      BY <1>1
    <2>2. {m \in holding : m <= n} = {m \in 1..n : text[m][w] > 0}
      BY <1>1, <2>1
    <2> HIDE DEF holding
    <2> QED
      BY <2>1, <2>2, CountIsCardinality, CardinalitySame
  <1>4. ASSUME NEW i \in 1..F(Len(text), w) PROVE nth(i) = Nth(w, i)
    <2>1. PICK k : k = Nth(w, i)
      OBVIOUS
    <2>2. k \in 1..Len(text) /\ text[k][w] > 0 /\ F(k, w) = i
      BY <1>1, <2>1, NthSpec
    <2>3. k \in holding
      BY <1>1, <2>2
    <2>4. Abstract!Cardinality({m \in holding : m <= k}) = i
      BY <1>3, <2>2, <2>3
    <2>5. PICK c : c = nth(i)
      OBVIOUS
    <2>6. c \in holding /\ Abstract!Cardinality({m \in holding : m <= c}) = i
      <3> HIDE DEF holding
      <3> QED
        BY <2>3, <2>4, <2>5
    <2>7. F(c, w) = i
      BY <1>3, <2>6
    <2>8. c \in 1..Len(text) /\ text[c][w] > 0
      BY <1>1, <2>6
    <2> HIDE DEF nth, holding
    <2>9. c = k
      BY <2>2, <2>7, <2>8, NthUnique
    <2> QED
      BY <2>1, <2>5, <2>9
  <1>5. Abstract!Postings(text, w) =
          [i \in 1..Abstract!Cardinality(holding) |->
             [doc |-> nth(i), tf |-> IF InvfLevel = 1 THEN 0 ELSE text[nth(i)][w]]]
    BY DEF Abstract!Postings
  <1> HIDE DEF nth, holding
  <1>6. ASSUME NEW i \in 1..F(Len(text), w)
        PROVE  [doc |-> nth(i), tf |-> IF InvfLevel = 1 THEN 0 ELSE text[nth(i)][w]]
                 = [doc |-> Nth(w, i),
                    tf |-> IF InvfLevel >= 2 THEN text[Nth(w, i)][w] ELSE 0]
    <2>1. (InvfLevel = 1) <=> ~(InvfLevel >= 2)
      OBVIOUS
    <2> QED
      BY <1>4, <2>1
  <1>7. Abstract!Postings(text, w) =
          [i \in 1..F(Len(text), w) |->
             [doc |-> nth(i), tf |-> IF InvfLevel = 1 THEN 0 ELSE text[nth(i)][w]]]
    BY ONLY <1>2, <1>5, Zenon
  <1>8. [i \in 1..F(Len(text), w) |->
           [doc |-> nth(i), tf |-> IF InvfLevel = 1 THEN 0 ELSE text[nth(i)][w]]]
          = [i \in 1..F(Len(text), w) |->
               [doc |-> Nth(w, i),
                tf |-> IF InvfLevel >= 2 THEN text[Nth(w, i)][w] ELSE 0]]
    BY ONLY <1>6
  <1> QED
    BY ONLY <1>7, <1>8, Zenon DEF Listed
----------------------------------------------------------------------------
(* Regions of the memory buffer.                                           *)

LEMMA BoundPositive ==
  ASSUME NEW N \in 1..(Shl(MaxLog) - 1), NEW p \in 1..N
  PROVE  BblockBound(N, p) \in Nat /\ BblockBound(N, p) >= p
  <1>1. PICK b, c, r : b = BblockInitW(N, p) /\ c = CeilLog2(b) /\ r = CDiv(N - p, b)
    OBVIOUS
  <1>2. b \in Operand /\ Thresh(b) = 0
    BY <1>1, BblockInitWRange
  <1>3. c \in Nat
    BY <1>1, <1>2, CeilLogSpec DEF MaxLog
  <1>4. N \in Nat /\ p \in Nat /\ N - p \in Nat /\ p * (0 + 1) = p /\ b \in Nat \ {0}
    <2>1. Shl(MaxLog) \in Nat
      BY ShlType DEF MaxLog
    <2> QED
      BY <1>2, <2>1, OperandType
  <1>5. r \in Nat
    <2>1. r = (N - p) \div b
      BY <1>1, <1>4 DEF CDiv
    <2>2. (N - p) \div b \in Int
      BY <1>4, DivRem
    <2>3. 0 <= (N - p) \div b
      <3>1. 0 * b <= N - p
        BY <1>4
      <3> QED
        BY <1>4, <3>1, DivGreatest
    <2> QED
      BY <2>1, <2>2, <2>3
  <1>6. BblockBound(N, p) = p * (1 + c) + r
    BY <1>1, <1>2, <1>4 DEF BblockBound, BblockBoundB
  <1>7. p * (1 + c) \in Nat /\ p * (1 + c) >= p
    <2>1. 1 + c \in Nat /\ 1 <= 1 + c
      BY <1>3
    <2>2. 1 * p <= (1 + c) * p /\ (1 + c) * p \in Int
      BY <1>4, <2>1, TimesMonotone, Distribute
    <2>3. p * (1 + c) = (1 + c) * p /\ 1 * p = p
      BY <1>4, <2>1
    <2> QED
      BY <1>4, <2>2, <2>3
  <1> QED
    BY <1>4, <1>5, <1>6, <1>7

\* A word with a posting in the chunk has a region that is not empty.
LEMMA RegionType ==
  ASSUME TotalsOK, ChunksOK, NEW k \in 1..Len(cuts), NEW w \in Words
  PROVE  /\ Region(chunk_file[k], w) \in Nat
         /\ CountsIn(chunk_file[k], w).fcnt = F(Cut(k), w) - F(Cut(k - 1), w)
         /\ CountsIn(chunk_file[k], w).fcnt \in Nat
         /\ CountsIn(chunk_file[k], w).fcnt > 0 => Region(chunk_file[k], w) > 0
  <1>1. PICK N, p, q : /\ N = Cut(k) - Cut(k - 1)
                       /\ p = F(Cut(k), w) - F(Cut(k - 1), w)
                       /\ q = W(Cut(k), w) - W(Cut(k - 1), w)
    OBVIOUS
  <1>2. /\ Cut(k) \in 0..Len(text) /\ Cut(k - 1) \in 0..Len(text)
        /\ N \in 1..(Shl(MaxLog) - 1) /\ p \in 0..N /\ chunk_file[k].docs = N
        /\ CountsIn(chunk_file[k], w).fcnt = p /\ CountsIn(chunk_file[k], w).wcnt = q
    BY <1>1, ChunkFacts
  <1>3. p \in Nat /\ q \in Nat /\ p <= q
    <2>1. Shl(MaxLog) \in Nat /\ Len(text) \in Nat
      BY ShlType DEF MaxLog, TotalsOK, IsSeq
    <2>2. Cut(k - 1) <= Cut(k)
      BY <1>1, <1>2, <2>1
    <2>3. Gains(Cut(k - 1), Cut(k), w) /\ W(Cut(k), w) \in Nat /\ W(Cut(k - 1), w) \in Nat
      BY <1>2, <2>2 DEF TotalsOK
    <2> QED
      BY <1>1, <1>2, <2>1, <2>3 DEF Gains
  <1>4. Region(chunk_file[k], w) =
          IF q = 0 THEN 0
          ELSE (IF p = 0 THEN 0 ELSE BblockBound(N, p)) + IF InvfLevel >= 2 THEN q ELSE 0
    BY <1>2 DEF Region, RegionLength
  <1>5. p > 0 => BblockBound(N, p) \in Nat /\ BblockBound(N, p) >= p
    <2>1. p > 0 => p \in 1..N
      BY <1>2
    <2> QED
      BY <1>2, <2>1, BoundPositive
  <1>6. Region(chunk_file[k], w) \in Nat /\ (p > 0 => Region(chunk_file[k], w) > 0)
    <2>1. CASE q = 0
      BY <1>3, <1>4, <2>1
    <2>2. CASE q # 0 /\ p = 0
      BY <1>3, <1>4, <2>2
    <2>3. CASE q # 0 /\ p > 0
      BY <1>3, <1>4, <1>5, <2>3
    <2> QED
      BY <1>3, <2>1, <2>2, <2>3
  <1> QED
    BY <1>1, <1>2, <1>3, <1>6

\* c's regions are as long as natural numbers.
Sized(c) == \A u \in Words : Region(c, u) \in Nat

LEMMA WordsFinite == Words \subseteq Nat /\ IsFiniteSet(Words)
  BY WordsAssumption

\* Regions follow one another in the order of the words.
LEMMA StartOrder ==
  ASSUME NEW c, Sized(c), NEW v \in Words, NEW w \in Words, v < w
  PROVE  /\ RegionStart(c, v) \in Nat /\ RegionStart(c, w) \in Nat
         /\ RegionStart(c, v) + Region(c, v) <= RegionStart(c, w)
  <1>1. PICK f : f = [u \in Words |-> Region(c, u)]
    OBVIOUS
  <1>2. \A u \in Words : f[u] \in Nat /\ f[u] = Region(c, u)
    BY <1>1 DEF Sized
  <1>3. PICK S, T, U : /\ S = {u \in Words : u < v} /\ T = {u \in Words : u < w}
                       /\ U = S \cup {v}
    OBVIOUS
  <1>4. RegionStart(c, v) = SumFunctionOnSet(f, S)
        /\ RegionStart(c, w) = SumFunctionOnSet(f, T)
    BY <1>1, <1>3, Zenon DEF RegionStart
  <1>5. /\ U \in SUBSET T /\ v \notin S
        /\ S \in SUBSET Words /\ T \in SUBSET Words /\ U \in SUBSET Words
    <2>1. v \in Nat /\ w \in Nat /\ \A u \in Words : u \in Nat
      BY WordsFinite
    <2>2. v \notin S
      BY <1>3, <2>1
    <2>3. \A u \in S : u \in T
      BY <1>3, <2>1
    <2>4. v \in T
      BY <1>3
    <2>5. \A u \in U : u \in T
      BY <1>3, <2>3, <2>4
    <2>6. S \in SUBSET Words /\ T \in SUBSET Words
      BY <1>3
    <2> QED
      BY <2>2, <2>5, <2>6, <1>3
  <1>6. IsFiniteSet(S) /\ IsFiniteSet(T)
    BY <1>5, WordsFinite, FS_Subset
  <1>7. /\ \A u \in S : f[u] \in Nat
        /\ \A u \in T : f[u] \in Nat
        /\ \A u \in S \cup {v} : f[u] \in Int
    BY <1>2, <1>5
  <1>8. SumFunctionOnSet(f, S) \in Nat /\ SumFunctionOnSet(f, T) \in Nat
    BY <1>6, <1>7, SumNat
  <1>9. SumFunctionOnSet(f, S \cup {v}) = SumFunctionOnSet(f, S) + f[v]
    BY <1>5, <1>6, <1>7, SumAdd
  <1>10. SumFunctionOnSet(f, U) <= SumFunctionOnSet(f, T)
    BY <1>5, <1>6, <1>7, SumSubset
  <1> QED
    BY <1>2, <1>3, <1>4, <1>8, <1>9, <1>10

\* ... and all of them in what the chunk needs altogether.
LEMMA StartInNeed ==
  ASSUME NEW c, Sized(c), NEW w \in Words
  PROVE  /\ RegionStart(c, w) \in Nat
         /\ RegionStart(c, w) + Region(c, w)
              <= SumFunctionOnSet([u \in Words |-> Region(c, u)], Words)
         /\ SumFunctionOnSet([u \in Words |-> Region(c, u)], Words) \in Nat
  <1>1. PICK f : f = [u \in Words |-> Region(c, u)]
    OBVIOUS
  <1>2. \A u \in Words : f[u] \in Nat /\ f[u] = Region(c, u)
    BY <1>1 DEF Sized
  <1>3. PICK S, U : S = {u \in Words : u < w} /\ U = S \cup {w}
    OBVIOUS
  <1>4. RegionStart(c, w) = SumFunctionOnSet(f, S)
    BY <1>1, <1>3, Zenon DEF RegionStart
  <1>5. w \notin S /\ S \in SUBSET Words /\ U \in SUBSET Words
    BY <1>3, WordsFinite
  <1>6. IsFiniteSet(S)
    BY <1>5, WordsFinite, FS_Subset
  <1>7. (\A u \in S : f[u] \in Nat) /\ (\A u \in S \cup {w} : f[u] \in Int)
    BY <1>2, <1>5
  <1>8. SumFunctionOnSet(f, S) \in Nat /\ SumFunctionOnSet(f, Words) \in Nat
    BY <1>2, <1>6, <1>7, WordsFinite, SumNat
  <1>9. SumFunctionOnSet(f, S \cup {w}) = SumFunctionOnSet(f, S) + f[w]
    BY <1>5, <1>6, <1>7, SumAdd
  <1>10. SumFunctionOnSet(f, U) <= SumFunctionOnSet(f, Words)
    BY <1>2, <1>5, WordsFinite, SumSubset
  <1>11. f[w] = Region(c, w) /\ f[w] \in Nat
    BY <1>2
  <1>12. PICK s, t, u : /\ s = SumFunctionOnSet(f, S) /\ t = SumFunctionOnSet(f, Words)
                        /\ u = SumFunctionOnSet(f, U)
    OBVIOUS
  <1>13. s + f[w] <= t /\ s \in Nat /\ t \in Nat
    BY ONLY <1>3, <1>8, <1>9, <1>10, <1>11, <1>12
  <1> QED
    BY ONLY <1>1, <1>4, <1>11, <1>12, <1>13

LEMMA MaxExists ==
  ASSUME NEW S, S \subseteq Nat, S # {}, NEW n \in Nat, \A x \in S : x < n
  PROVE  Max(S) \in S /\ \A y \in S : y <= Max(S)
  <1>1. PICK T : T = {k \in Nat : n - k \in S}
    OBVIOUS
  <1>2. T \subseteq Nat /\ T # {}
    <2>1. PICK x \in S : TRUE
      OBVIOUS
    <2>2. x \in Nat /\ x < n
      BY <2>1
    <2>3. n - x \in Nat /\ n - (n - x) = x
      BY <2>2
    <2>4. n - x \in T
      BY <1>1, <2>1, <2>3
    <2> QED
      BY <1>1, <2>4
  <1>3. PICK k \in T : \A i \in T : k <= i
    BY <1>2, LeastNat
  <1>4. k \in Nat /\ n - k \in S
    BY <1>1, <1>3
  <1>5. ASSUME NEW y \in S PROVE n - k >= y
    <2>1. y \in Nat /\ y < n
      OBVIOUS
    <2>2. n - y \in Nat /\ n - (n - y) = y
      BY <2>1
    <2>3. n - y \in T
      BY <1>1, <2>2
    <2>4. k <= n - y
      BY <1>3, <2>3
    <2> QED
      BY <1>4, <2>1, <2>4
  <1>6. PICK m : m = Max(S)
    OBVIOUS
  <1>7. m \in S /\ \A y \in S : m >= y
    BY <1>4, <1>5, <1>6 DEF Max
  <1>8. \A y \in S : y <= m
    BY <1>7
  <1> QED
    BY <1>6, <1>7, <1>8

\* What is kept of a chunk gives away its words' counts and distances.
Kept(j, c) ==
  \A u \in Words : /\ CountsIn(c, u).fcnt \in Nat
                   /\ chunk_data[j].params[u].p = CountsIn(c, u).fcnt
                   /\ chunk_data[j].params[u].delta = Delta(c, u)

\* The distances that are kept of a chunk, added up to a word, lead to its
\* region.
LEMMA ChunkPtrIs ==
  ASSUME NEW c, Sized(c), NEW j, Kept(j, c), NEW word \in Words,
         CountsIn(c, word).fcnt > 0
  PROVE  ChunkPtr(j, word) = RegionStart(c, word)
  <1>1. PICK P : P = {u \in Words : CountsIn(c, u).fcnt > 0}
    OBVIOUS
  <1>2. PICK d : d = [u \in Words |-> Delta(c, u)]
    OBVIOUS
  <1>3. P \subseteq Words /\ IsFiniteSet(P) /\ (\A u \in P : u \in Nat) /\ word \in P
    BY <1>1, WordsFinite, FS_Subset
  <1>4. ASSUME NEW w \in Words PROVE RegionStart(c, w) \in Nat
    BY StartInNeed
  <1> DEFINE below(w) == {v \in P : v < w}
             upto(w) == {v \in P : v <= w}
  <1>5. ASSUME NEW w \in P, below(w) # {}
        PROVE  /\ Max(below(w)) \in P /\ Max(below(w)) < w
               /\ below(w) = upto(Max(below(w)))
    <2>1. below(w) \subseteq Nat /\ w \in Nat /\ \A x \in below(w) : x < w
      BY <1>3
    <2>2. PICK m : m = Max(below(w))
      OBVIOUS
    <2>3. m \in below(w) /\ \A y \in below(w) : y <= m
      <3> HIDE DEF below
      <3> QED
        BY <1>5, <2>1, <2>2, MaxExists
    <2>4. m \in P /\ m < w /\ m \in Nat
      BY <1>3, <2>3
    <2>5. \A v \in P : v < w <=> v <= m
      BY <1>3, <2>1, <2>3, <2>4
    <2>6. below(w) = upto(m)
      BY <2>5
    <2> QED
      BY <2>2, <2>4, <2>6
  <1>6. ASSUME NEW w \in P
        PROVE  Delta(c, w) = RegionStart(c, w) - IF below(w) = {} THEN 0
                                                 ELSE RegionStart(c, Max(below(w)))
    <2>1. {v \in Words : v < w /\ CountsIn(c, v).fcnt > 0} = below(w)
      BY <1>1
    <2> HIDE DEF below
    <2> QED
      BY <2>1, Zenon DEF Delta
  <1>7. \A w \in P : d[w] = Delta(c, w) /\ Delta(c, w) \in Int
    <2>1. ASSUME NEW w \in P PROVE d[w] = Delta(c, w) /\ Delta(c, w) \in Int
      <3>1. d[w] = Delta(c, w) /\ RegionStart(c, w) \in Nat
        BY <1>2, <1>3, <1>4
      <3>2. CASE below(w) = {}
        <4>1. Delta(c, w) = RegionStart(c, w) - 0
          <5> HIDE DEF below
          <5> QED
            BY <1>6, <3>2
        <4> QED
          BY ONLY <3>1, <4>1
      <3>3. CASE below(w) # {}
        <4>1. Max(below(w)) \in Words
          BY <1>3, <1>5, <3>3
        <4>2. RegionStart(c, Max(below(w))) \in Nat
          <5> HIDE DEF below
          <5> QED
            BY <1>4, <4>1
        <4> QED
          BY <1>6, <3>1, <3>3, <4>2
      <3> QED
        BY <3>2, <3>3
    <2> QED
      BY <2>1
  <1>8. \A w \in P : SumFunctionOnSet(d, upto(w)) = RegionStart(c, w)
    <2> DEFINE bad == {w \in P : SumFunctionOnSet(d, upto(w)) # RegionStart(c, w)}
    <2>1. SUFFICES ASSUME bad # {} PROVE FALSE
      OBVIOUS
    <2>2. PICK w \in bad : \A v \in bad : w <= v
      <3>1. bad \subseteq Nat
        BY <1>3
      <3> HIDE DEF bad
      <3> QED
        BY <2>1, <3>1, LeastNat
    <2>3. w \in P /\ SumFunctionOnSet(d, upto(w)) # RegionStart(c, w) /\ w \in Nat
      BY <1>3, <2>2
    <2>4. PICK B : B = below(w)
      OBVIOUS
    <2>5. upto(w) = B \cup {w} /\ w \notin B /\ B \subseteq P
      <3>1. \A v \in P : v <= w <=> (v < w \/ v = w)
        BY <1>3, <2>3
      <3>2. \A v : v \in upto(w) <=> v \in B \cup {w}
        BY <2>3, <2>4, <3>1
      <3>3. w \notin B /\ B \subseteq P
        BY <2>3, <2>4
      <3> QED
        BY <3>2, <3>3
    <2>6. IsFiniteSet(B)
      BY <1>3, <2>5, FS_Subset
    <2>7. SumFunctionOnSet(d, B \cup {w}) = SumFunctionOnSet(d, B) + d[w]
      <3>1. \A y \in B \cup {w} : d[y] \in Int
        BY <1>7, <2>3, <2>5
      <3> QED
        BY <2>5, <2>6, <3>1, SumAdd
    <2>8. d[w] = Delta(c, w) /\ RegionStart(c, w) \in Nat
      BY <1>3, <1>4, <1>7, <2>3
    <2>9. CASE B = {}
      <3>1. SumFunctionOnSet(d, B) = 0
        BY <2>9, SumEmpty
      <3>2. Delta(c, w) = RegionStart(c, w) - 0
        BY <1>6, <2>3, <2>4, <2>9
      <3>3. SumFunctionOnSet(d, B \cup {w}) = RegionStart(c, w)
        BY ONLY <2>7, <2>8, <3>1, <3>2
      <3> QED
        BY ONLY <2>3, <2>5, <3>3, Zenon
    <2>10. CASE B # {}
      <3>1. PICK m : m = Max(B)
        OBVIOUS
      <3>2. m \in P /\ m < w /\ B = upto(m)
        BY <1>5, <2>3, <2>4, <2>10, <3>1
      <3>3. SumFunctionOnSet(d, B) = RegionStart(c, m)
        <4>1. m \notin bad
          BY <1>3, <2>2, <2>3, <3>2
        <4>2. SumFunctionOnSet(d, upto(m)) = RegionStart(c, m)
          BY <3>2, <4>1
        <4> HIDE DEF upto
        <4> QED
          BY ONLY <3>2, <4>2, Zenon
      <3>4. Delta(c, w) = RegionStart(c, w) - RegionStart(c, m)
        BY <1>6, <2>3, <2>4, <2>10, <3>1
      <3>5. RegionStart(c, m) \in Nat
        BY <1>3, <1>4, <3>2
      <3>6. SumFunctionOnSet(d, B \cup {w}) = RegionStart(c, w)
        BY ONLY <2>7, <2>8, <3>3, <3>4, <3>5
      <3> QED
        BY ONLY <2>3, <2>5, <3>6, Zenon
    <2> QED
      BY <2>9, <2>10
  <1>9. ChunkPtr(j, word) = SumFunctionOnSet(d, upto(word))
    <2>1. [v \in Words |-> chunk_data[j].params[v].delta] = d
      BY <1>2 DEF Kept
    <2>2. {v \in Words : v <= word /\ chunk_data[j].params[v].p > 0} = upto(word)
      BY <1>1 DEF Kept
    <2> HIDE DEF upto
    <2> QED
      BY <2>1, <2>2, Zenon DEF ChunkPtr
  <1> QED
    BY <1>3, <1>8, <1>9

----------------------------------------------------------------------------
(* The two passes.                                                         *)

\* Chunks merged so far.
First == at - Len(chunk_data)

OptionsOK == invf_buffer_size \in Nat \ 0..14 /\ ChunkLimit \in Nat

\* Every word of the dictionary occurs.
VocabOK ==
  \A i \in 1..Len(first_occr) : first_occr[i] \in Words /\ F(Len(text), first_occr[i]) > 0

\* The memory all regions of a chunk take.
Need(c) == Bytes(SumFunctionOnSet([w \in Words |-> Region(c, w)], Words))

\* A description's memory is that of its regions, and there is some in every
\* chunk but the last.
NeedOK ==
  /\ max_mem \in Nat
  /\ \A k \in 1..Len(chunk_file) :
       /\ chunk_file[k].mem = Need(chunk_file[k])
       /\ chunk_file[k].mem \in Nat
       /\ chunk_file[k].mem <= max_mem
       /\ stage = "pass1" \/ k < Len(chunk_file) => chunk_file[k].mem > 0

\* Pass 1 looks at the memory only when the chunk has a pointer: it never
\* divides by 0.
CheckOK ==
  /\ checknum \in Nat \ {0} /\ ptrcnt \in Nat
  /\ ptrcnt > 0 => \E w \in Words : ent[w].lfcnt > 0

DescribedOK == OptionsOK /\ VocabOK /\ NeedOK /\ CheckOK
----------------------------------------------------------------------------
(* Memory requirements.                                                    *)

LEMMA BytesType ==
  ASSUME NEW x \in Nat
  PROVE  Bytes(x) \in Nat /\ x <= 8 * Bytes(x) /\ (x > 0 => Bytes(x) > 0)
  <1>0. PICK y : y = x + 7
    OBVIOUS
  <1>1. PICK q, r : q = y \div 8 /\ r = y % 8
    OBVIOUS
  <1>3. q \in Int /\ r \in 0..7 /\ y = 8 * q + r
    <2>1. y \in Int /\ 8 \in Nat \ {0} /\ 8 - 1 = 7
      BY <1>0
    <2> QED
      BY <1>1, <2>1, DivRem
  <1>2. Bytes(x) = q
    BY <1>0, <1>1 DEF Bytes
  <1> QED
    BY <1>0, <1>2, <1>3

LEMMA RegionLengthType ==
  ASSUME InvfLevel \in {1, 2, 3}, NEW N \in 1..(Shl(MaxLog) - 1), NEW p \in 0..N,
         NEW q \in Nat
  PROVE  /\ RegionLength(N, p, q) \in Nat
         /\ p > 0 => RegionLength(N, p, q) > 0
         /\ p = 0 /\ q = 0 => RegionLength(N, p, q) = 0
  <1>1. PICK b, x : /\ b = IF p = 0 THEN 0 ELSE BblockBound(N, p)
                    /\ x = IF InvfLevel >= 2 THEN q ELSE 0
    OBVIOUS
  <1>2. RegionLength(N, p, q) = b + x
    BY <1>1, Zenon DEF RegionLength
  <1>3. x \in Nat /\ (q = 0 => x = 0)
    BY <1>1
  <1>4. b \in Nat /\ b >= p /\ p \in Nat /\ (p = 0 => b = 0)
    <2>1. N \in Nat
      BY ShlType DEF MaxLog
    <2>2. CASE p = 0
      BY <1>1, <2>2
    <2>3. CASE p # 0
      <3>1. p \in 1..N
        BY <2>1, <2>3
      <3>2. BblockBound(N, p) \in Nat /\ BblockBound(N, p) >= p
        BY <3>1, BoundPositive
      <3> QED
        BY <1>1, <2>3, <3>1, <3>2
    <2> QED
      BY <2>2, <2>3
  <1> QED
    BY <1>2, <1>3, <1>4

LEMMA MemReqdType ==
  ASSUME InvfLevel \in {1, 2, 3}, NEW N \in 1..(Shl(MaxLog) - 1),
         NEW e \in [Words -> [wcnt : Nat, fcnt : Nat, lwcnt : Nat, lfcnt : Nat]],
         \A w \in Words : e[w].lfcnt <= N
  PROVE  /\ mem_reqd(e, N) \in Nat
         /\ (\E w \in Words : e[w].lfcnt > 0) => mem_reqd(e, N) > 0
  <1>1. PICK f : f = [w \in Words |-> RegionLength(N, e[w].lfcnt, e[w].lwcnt)]
    OBVIOUS
  <1>2. \A w \in Words : f[w] \in Nat /\ (e[w].lfcnt > 0 => f[w] > 0)
    <2> SUFFICES ASSUME NEW w \in Words
                 PROVE  f[w] \in Nat /\ (e[w].lfcnt > 0 => f[w] > 0)
      OBVIOUS
    <2>1. e[w].lfcnt \in Nat /\ e[w].lwcnt \in Nat /\ e[w].lfcnt <= N
      OBVIOUS
    <2>2. PICK p, q : p = e[w].lfcnt /\ q = e[w].lwcnt
      OBVIOUS
    <2>3. p \in 0..N /\ q \in Nat /\ f[w] = RegionLength(N, p, q)
      BY <1>1, <2>1, <2>2, ShlType DEF MaxLog
    <2> QED
      BY <2>2, <2>3, RegionLengthType
  <1>3. PICK s : s = SumFunctionOnSet(f, Words)
    OBVIOUS
  <1>4. s \in Nat
    BY <1>2, <1>3, WordsFinite, SumNat
  <1>5. ASSUME NEW w \in Words, e[w].lfcnt > 0 PROVE s > 0
    <2>1. \A u \in Words : f[u] \in Int
      BY <1>2
    <2>2. s = f[w] + SumFunctionOnSet(f, Words \ {w})
      BY <1>3, <2>1, WordsFinite, SumTake
    <2>3. IsFiniteSet(Words \ {w}) /\ \A u \in Words \ {w} : f[u] \in Nat
      BY <1>2, WordsFinite, FS_Subset
    <2>4. SumFunctionOnSet(f, Words \ {w}) \in Nat
      BY <2>3, SumNat
    <2>5. f[w] \in Nat /\ f[w] > 0
      BY <1>2, <1>5
    <2> QED
      BY ONLY <2>2, <2>4, <2>5
  <1>6. mem_reqd(e, N) = Bytes(s)
    BY <1>1, <1>3, Zenon DEF mem_reqd
  <1> QED
    BY <1>4, <1>5, <1>6, BytesType
\* A region depends on the counts of its word alone.
RegionOf(docs, n) == IF n.wcnt = 0 THEN 0 ELSE RegionLength(docs, n.fcnt, n.wcnt)

LEMMA RegionIs ==
  \A c, w : Region(c, w) = RegionOf(c.docs, CountsIn(c, w))
  BY DEF Region, RegionOf

\* A chunk closed in this step is described with the memory worked out for it.
LEMMA NeedOfNew ==
  ASSUME TotalsOK', CountsOK', ChunksOK', InvfLevel' = InvfLevel,
         NEW n, n = Len(text)', NEW N \in 1..n, NEW e, CountedSince(e, N)',
         NEW K, K \in 1..Len(cuts)', Cut(K)' = n, Cut(K - 1)' = n - N,
         NEW c, c = chunk_file'[K]
  PROVE  /\ Need(c)' = mem_reqd(e, N) /\ mem_reqd(e, N) \in Nat
         /\ (\E w \in Words : e[w].lfcnt > 0) => mem_reqd(e, N) > 0
  <1>1. n \in Nat /\ n <= MaxDocs /\ n - N \in 0..n /\ n \in 0..n
    BY DEF TotalsOK, IsSeq
  <1>2. N \in 1..(Shl(MaxLog) - 1)
    <2>1. MaxDocs \in 1..(Shl(MaxLog) - 1) /\ Shl(MaxLog) \in Nat
      BY MaxDocsAssumption, ShlType DEF MaxLog
    <2> QED
      BY <1>1, <2>1
  <1>3. /\ e \in [Words -> [wcnt : Nat, fcnt : Nat, lwcnt : Nat, lfcnt : Nat]]
        /\ \A w \in Words : /\ e[w].lfcnt = F(n, w)' - F(n - N, w)'
                            /\ e[w].lwcnt = W(n, w)' - W(n - N, w)'
    BY DEF CountedSince
  <1>4. \A w \in Words : /\ F(n, w)' \in Nat /\ F(n - N, w)' \in Nat
                         /\ W(n, w)' \in Nat /\ W(n - N, w)' \in Nat
                         /\ F(n, w)' - F(n - N, w)' <= N
                         /\ F(n, w)' = F(n - N, w)' => W(n, w)' = W(n - N, w)'
                         /\ F(n, w)' - F(n - N, w)' <= W(n, w)' - W(n - N, w)'
    <2>1. PICK m : m = n - N
      OBVIOUS
    <2>2. m \in 0..n /\ m <= n /\ n - m = N
      BY <1>1, <2>1
    <2>3. ASSUME NEW w \in Words
          PROVE  /\ F(n, w)' \in Nat /\ F(m, w)' \in Nat
                 /\ W(n, w)' \in Nat /\ W(m, w)' \in Nat
                 /\ F(n, w)' - F(m, w)' <= n - m
                 /\ F(m, w)' = F(n, w)' => W(m, w)' = W(n, w)'
                 /\ F(n, w)' - F(m, w)' <= W(n, w)' - W(m, w)'
      <3>1. Gains(m, n, w)'
        BY <1>1, <2>2 DEF TotalsOK
      <3>2. /\ F(n, w)' \in Nat /\ F(m, w)' \in Nat
            /\ W(n, w)' \in Nat /\ W(m, w)' \in Nat
        BY <1>1, <2>2 DEF TotalsOK
      <3> QED
        BY <3>1, <3>2 DEF Gains
    <2> QED
      BY ONLY <2>1, <2>2, <2>3
  <1>5. \A w \in Words : e[w].lfcnt <= N
    BY <1>3, <1>4
  <1>6. InvfLevel \in {1, 2, 3}
    BY DEF CountsOK
  <1>7. /\ c.docs = N
        /\ \A w \in Words : CountsIn(c, w)' = [wcnt |-> e[w].lwcnt, fcnt |-> e[w].lfcnt]
    <2>1. Describes(K)'
      BY DEF ChunksOK
    <2>2. c.docs = Cut(K)' - Cut(K - 1)'
      BY <2>1 DEF Describes
    <2>3. PICK m : m = Cut(K - 1)'
      OBVIOUS
    <2>4. ASSUME NEW w \in Words
          PROVE  CountsIn(c, w)' = [wcnt |-> e[w].lwcnt, fcnt |-> e[w].lfcnt]
      <3>1. CountsIn(c, w)' = [wcnt |-> W(n, w)' - W(m, w)', fcnt |-> F(n, w)' - F(m, w)']
        BY <2>1, <2>3 DEF Describes
      <3>2. /\ e[w].lfcnt = F(n, w)' - F(m, w)'
            /\ e[w].lwcnt = W(n, w)' - W(m, w)'
        BY <1>3, <2>3
      <3> QED
        BY <3>1, <3>2
    <2> QED
      BY <1>1, <2>2, <2>4
  <1>8. ASSUME NEW w \in Words
        PROVE  Region(c, w)' = RegionLength(N, e[w].lfcnt, e[w].lwcnt)
    <2>1. Region(c, w)' = RegionOf(c.docs, CountsIn(c, w))'
      BY DEF Region, RegionOf
    <2>2. PICK r : r = [wcnt |-> e[w].lwcnt, fcnt |-> e[w].lfcnt]
      OBVIOUS
    <2>3. CountsIn(c, w)' = r /\ c.docs = N
      BY <1>7, <2>2
    <2>4. RegionOf(c.docs, CountsIn(c, w))' = RegionOf(N, r)'
      BY ONLY <2>3
    <2>5. RegionOf(N, r)' = RegionOf(N, r)
      BY DEF RegionOf, RegionLength
    <2>6. r.wcnt = e[w].lwcnt /\ r.fcnt = e[w].lfcnt
      BY <2>2
    <2>7. RegionOf(N, r) = IF e[w].lwcnt = 0 THEN 0
                           ELSE RegionLength(N, e[w].lfcnt, e[w].lwcnt)
      BY <2>6, Zenon DEF RegionOf
    <2>8. CASE e[w].lwcnt = 0
      <3>1. e[w].lfcnt = 0
        BY <1>3, <1>4, <2>8
      <3>2. RegionLength(N, 0, 0) = 0
        <4>1. 0 \in 0..N /\ 0 \in Nat
          BY <1>1
        <4> QED
          BY <1>2, <1>6, <4>1, RegionLengthType
      <3> QED
        BY ONLY <2>1, <2>4, <2>5, <2>7, <2>8, <3>1, <3>2, Zenon
    <2>9. CASE e[w].lwcnt # 0
      BY ONLY <2>1, <2>4, <2>5, <2>7, <2>9, Zenon
    <2> QED
      BY <2>8, <2>9
  <1>9. Need(c)' = mem_reqd(e, N)
    <2>1. [w \in Words |-> Region(c, w)']
            = [w \in Words |-> RegionLength(N, e[w].lfcnt, e[w].lwcnt)]
      BY <1>8
    <2>2. Need(c)' = Bytes(SumFunctionOnSet([w \in Words |-> Region(c, w)'], Words))
      BY Zenon DEF Need
    <2> QED
      BY <2>1, <2>2, Zenon DEF mem_reqd
  <1> QED
    BY <1>2, <1>3, <1>5, <1>6, <1>9, MemReqdType
\* ... and the descriptions there are keep theirs.
LEMMA NeedOfOld ==
  ASSUME ChunksOK, ChunksOK', InvfLevel' = InvfLevel,
         \A i \in 0..Len(text) : \A w \in Words : F(i, w)' = F(i, w) /\ W(i, w)' = W(i, w),
         NEW k \in 1..Len(cuts), k \in 1..Len(cuts)',
         Cut(k)' = Cut(k), Cut(k - 1)' = Cut(k - 1),
         NEW c, c = chunk_file[k], c = chunk_file'[k]
  PROVE  Need(c)' = Need(c)
  <1>1. PICK i, j : i = Cut(k - 1) /\ j = Cut(k)
    OBVIOUS
  <1>2. i \in 0..Len(text) /\ j \in 0..Len(text)
    BY <1>1 DEF ChunksOK, IsSeq
  <1>3. Describes(k) /\ Describes(k)'
    BY DEF ChunksOK
  <1>4. ASSUME NEW w \in Words PROVE Region(c, w)' = Region(c, w)
    <2>1. CountsIn(c, w) = [wcnt |-> W(j, w) - W(i, w), fcnt |-> F(j, w) - F(i, w)]
      BY <1>1, <1>3 DEF Describes
    <2>2. CountsIn(c, w)' = [wcnt |-> W(j, w)' - W(i, w)', fcnt |-> F(j, w)' - F(i, w)']
      <3>1. Cut(k)' = j /\ Cut(k - 1)' = i
        BY <1>1
      <3> QED
        BY <1>3, <3>1 DEF Describes
    <2>3. CountsIn(c, w)' = CountsIn(c, w)
      BY <1>2, <2>1, <2>2
    <2>4. PICK r : r = CountsIn(c, w)
      OBVIOUS
    <2>5. Region(c, w)' = RegionOf(c.docs, r)'
      <3>1. Region(c, w)' = RegionOf(c.docs, CountsIn(c, w))'
        BY DEF Region, RegionOf
      <3> QED
        BY <2>3, <2>4, <3>1
    <2>6. RegionOf(c.docs, r)' = RegionOf(c.docs, r)
      BY DEF RegionOf, RegionLength
    <2> QED
      BY <2>4, <2>5, <2>6, RegionIs
  <1>5. [w \in Words |-> Region(c, w)'] = [w \in Words |-> Region(c, w)]
    BY <1>4
  <1>6. Need(c)' = Bytes(SumFunctionOnSet([w \in Words |-> Region(c, w)'], Words))
    BY Zenon DEF Need
  <1> QED
    BY <1>5, <1>6, Zenon DEF Need
----------------------------------------------------------------------------
(* Pass 1 describes its chunks.                                            *)

\* A step of pass 1 that closes a chunk of the last N documents, counted in e.
LEMMA NeedClosed ==
  ASSUME ChunksOK, NeedOK, TotalsOK', CountsOK', ChunksOK', InvfLevel' = InvfLevel,
         Len(text) \in Nat,
         \A i \in 0..Len(text) : \A w \in Words : F(i, w)' = F(i, w) /\ W(i, w)' = W(i, w),
         stage = "pass1",
         NEW n, n = Len(text)', NEW N \in 1..n, NEW e, CountedSince(e, N)',
         Cut(Len(cuts)) = n - N, NEW words, NEW mem, mem = mem_reqd(e, N),
         dump_dict(e, words, N, mem), stage' = "pass1" => mem > 0
  PROVE  NeedOK'
  <1>0. PICK L, K : L = Len(cuts) /\ K = L + 1
    OBVIOUS
  <1>1. PICK new : new = Description(e, words, N, mem)
    OBVIOUS
  <1>2. /\ chunk_file' = Append(chunk_file, new) /\ cuts' = Append(cuts, n)
        /\ max_mem' = LargestNeed(mem)
    BY <1>1 DEF dump_dict
  <1>3. /\ L \in Nat /\ Len(chunk_file) = L /\ IsSeq(cuts) /\ IsSeq(chunk_file)
    BY <1>0 DEF ChunksOK, IsSeq
  <1>4. /\ Len(chunk_file') = K /\ chunk_file'[K] = new
        /\ \A k \in 1..L : chunk_file'[k] = chunk_file[k]
        /\ Len(cuts') = K /\ cuts'[K] = n /\ \A k \in 1..L : cuts'[k] = cuts[k]
    <2>1. /\ Len(Append(chunk_file, new)) = Len(chunk_file) + 1
          /\ \A k \in 1..Len(chunk_file) : Append(chunk_file, new)[k] = chunk_file[k]
          /\ Append(chunk_file, new)[Len(chunk_file) + 1] = new
      BY <1>3, AppendIsSeq
    <2>2. /\ Len(Append(cuts, n)) = Len(cuts) + 1
          /\ \A k \in 1..Len(cuts) : Append(cuts, n)[k] = cuts[k]
          /\ Append(cuts, n)[Len(cuts) + 1] = n
      BY <1>3, AppendIsSeq
    <2> QED
      BY <1>0, <1>2, <1>3, <2>1, <2>2
  <1>5. /\ Cut(K)' = n /\ Cut(K - 1)' = n - N
        /\ \A k \in 1..L : Cut(k)' = Cut(k) /\ Cut(k - 1)' = Cut(k - 1)
    <2>1. K # 0 /\ K - 1 = L /\ \A k \in 1..L : k # 0 /\ (k - 1 # 0 => k - 1 \in 1..L)
      BY <1>0, <1>3
    <2>2. \A k \in 0..L : Cut(k)' = Cut(k)
      BY <1>4 DEF Cut
    <2>3. L \in 0..L /\ \A k \in 1..L : k \in 0..L /\ k - 1 \in 0..L
      BY <1>3
    <2>4. Cut(K)' = n
      BY <1>4, <2>1 DEF Cut
    <2>5. Cut(K - 1)' = Cut(L)
      BY <2>1, <2>2, <2>3
    <2> QED
      BY <1>0, <2>2, <2>3, <2>4, <2>5
  <1>6. K \in 1..Len(cuts)'
    BY <1>0, <1>3, <1>4
  <1>7. PICK c : c = chunk_file'[K]
    OBVIOUS
  <1>8. Need(c)' = mem /\ mem \in Nat
    BY <1>5, <1>6, <1>7, NeedOfNew
  <1>9. max_mem \in Nat /\ max_mem' \in Nat /\ max_mem <= max_mem' /\ mem <= max_mem'
    <2>1. max_mem \in Nat
      BY DEF NeedOK
    <2>2. max_mem' = IF mem > max_mem THEN mem ELSE max_mem
      BY <1>2 DEF LargestNeed
    <2> QED
      BY <1>8, <2>1, <2>2
  <1>10. new.mem = mem
    BY <1>1 DEF Description
  <1>11. ASSUME NEW k \in 1..K
         PROVE  /\ chunk_file'[k].mem = Need(chunk_file[k])'
                /\ chunk_file'[k].mem \in Nat /\ chunk_file'[k].mem <= max_mem'
                /\ stage' = "pass1" \/ k < K => chunk_file'[k].mem > 0
    <2>1. CASE k = K
      BY <1>4, <1>7, <1>8, <1>9, <1>10, <2>1, <1>0, <1>3
    <2>2. CASE k # K
      <3>1. k \in 1..L
        BY <1>0, <1>3, <2>2
      <3>2. PICK d : d = chunk_file[k]
        OBVIOUS
      <3>3. d = chunk_file'[k] /\ k \in 1..Len(cuts)'
        BY <1>0, <1>3, <1>4, <3>1, <3>2
      <3>4. Need(d)' = Need(d)
        BY <1>0, <1>5, <3>1, <3>2, <3>3, NeedOfOld
      <3>5. d.mem = Need(d) /\ d.mem \in Nat /\ d.mem <= max_mem /\ d.mem > 0
        BY <1>3, <3>1, <3>2 DEF NeedOK
      <3> QED
        BY <1>9, <3>3, <3>4, <3>5
    <2> QED
      BY <2>1, <2>2
  <1> QED
    BY <1>4, <1>9, <1>11 DEF NeedOK
LEMMA CheckPositive ==
  ASSUME OptionsOK
  PROVE  FirstCheck \in Nat \ {0}
  <1>1. PICK s : s = invf_buffer_size
    OBVIOUS
  <1>2. s \in Nat /\ s >= 15
    BY <1>1 DEF OptionsOK
  <1>3. s \div 15 \in Nat \ {0} /\ s \div 10 \in Nat \ {0}
    BY <1>2
  <1> QED
    BY <1>1, <1>3 DEF FirstCheck

\* The check that found room left is followed by one further on.
LEMMA NextCheckPositive ==
  ASSUME OptionsOK, checknum \in Nat \ {0}, NEW mem \in Nat, mem > 0,
         ~(mem * 1000 >= invf_buffer_size * 999), NEW ptrs \in Nat
  PROVE  NextCheck(mem, ptrs) \in Nat \ {0}
  <1>1. PICK s, c : s = invf_buffer_size /\ c = checknum
    OBVIOUS
  <1>2. s \in Nat /\ s >= 15 /\ c \in Nat \ {0}
    BY <1>1 DEF OptionsOK
  <1>3. mem <= s
    BY <1>1, <1>2
  <1>4. PICK a, b : a = 3 * c * (s - mem) /\ b = 4 * mem
    OBVIOUS
  <1>5. a \in Nat /\ b \in Nat \ {0}
    <2>1. s - mem \in Nat /\ 3 * c \in Nat
      BY <1>2, <1>3
    <2> QED
      BY <1>4, <2>1
  <1>6. a \div b \in Nat
    BY <1>5
  <1>7. PICK x : x = c + a \div b
    OBVIOUS
  <1>8. NextCheck(mem, ptrs) = IF x <= ptrs THEN ptrs + 1 ELSE x
    BY <1>1, <1>4, <1>7, ZenonT(60) DEF NextCheck
  <1> QED
    BY <1>2, <1>6, <1>7, <1>8

\* Every word a document adds to the dictionary occurs in it.
LEMMA VocabStep ==
  ASSUME TotalsOK, VocabOK, NEW d, NEW n, NEW N, NEW e, DocCounted(d, n, N, e)
  PROVE  VocabOK'
  <1>1. /\ Len(text)' = n /\ n - 1 = Len(text) /\ Grown /\ OrderOK(first_occr)'
        /\ \A i \in 1..Len(first_occr)' : i \in 1..Len(first_occr) \/ d[first_occr'[i]] > 0
        /\ \A w \in Words : F(n, w)' = F(n - 1, w) + IF d[w] > 0 THEN 1 ELSE 0
    BY DEF DocCounted
  <1>2. \A w \in Words : F(n - 1, w) \in Nat
    BY <1>1 DEF TotalsOK, Grown
  <1>3. ASSUME NEW i \in 1..Len(first_occr)'
        PROVE  first_occr'[i] \in Words /\ F(n, first_occr[i])' > 0
    <2>1. PICK w : w = first_occr'[i]
      OBVIOUS
    <2>2. w \in Words
      BY <1>1, <2>1 DEF OrderOK
    <2>3. F(n - 1, w) > 0 \/ d[w] > 0
      <3>1. CASE i \in 1..Len(first_occr)
        <4>1. first_occr[i] = w
          BY <1>1, <2>1, <3>1 DEF Grown
        <4> QED
          BY <1>1, <3>1, <4>1 DEF VocabOK
      <3>2. CASE i \notin 1..Len(first_occr)
        BY <1>1, <2>1, <3>2
      <3> QED
        BY <3>1, <3>2
    <2>4. F(n, w)' = F(n - 1, w) + (IF d[w] > 0 THEN 1 ELSE 0) /\ F(n - 1, w) \in Nat
      BY <1>1, <1>2, <2>2
    <2>5. F(n, w)' > 0
      BY <2>3, <2>4
    <2> QED
      BY <2>1, <2>2, <2>5
  <1> QED
    BY <1>1, <1>3 DEF VocabOK

\* A document of pass 1.
LEMMA DocDescribed ==
  ASSUME TotalsOK, CountsOK, ChunksOK, DescribedOK, NEW d \in Documents,
         NEW fresh \in FirstOccurrences(d), ProcessDoc1(d, fresh)
  PROVE  DescribedOK'
  <1>0. PICK n, N, e : /\ n = Len(text) + 1 /\ N = lcallnum + 1 /\ e = Counted(d)
                       /\ DocCounted(d, n, N, e)
    BY Doc1Counted
  <1>1. PICK ptrs, mem, words : /\ ptrs = ptrcnt + Cardinality(WordsOf(d) \cap Known)
                                /\ mem = mem_reqd(e, N) /\ words = first_occr \o fresh
    OBVIOUS
  <1> DEFINE full == mem * 1000 >= invf_buffer_size * 999
  <1>2. /\ stage = "pass1" /\ stage' = "pass1"
        /\ UNCHANGED <<InvfLevel, invf_buffer_size, ChunkLimit>>
    <2>1. stage = "pass1" /\ UNCHANGED <<options, stage, memory, disk, invf_idx>>
      BY ZenonT(60) DEF ProcessDoc1
    <2> QED
      BY ONLY <2>1 DEF options
  <1>p. \/ /\ ptrs >= checknum /\ full
           /\ dump_dict(e, words, N, mem) /\ checknum' = FirstCheck
        \/ /\ ~(ptrs >= checknum /\ full)
           /\ ent' = e /\ lcallnum' = N /\ ptrcnt' = ptrs
           /\ checknum' = IF ptrs >= checknum THEN NextCheck(mem, ptrs) ELSE checknum
           /\ UNCHANGED <<max_mem, chunk_file, cuts>>
    <2> DEFINE p == ptrcnt + Cardinality(WordsOf(d) \cap Known)
               m == mem_reqd(Counted(d), lcallnum + 1)
    <2>1. \/ /\ p >= checknum /\ m * 1000 >= invf_buffer_size * 999
             /\ dump_dict(Counted(d), first_occr \o fresh, lcallnum + 1, m)
             /\ checknum' = FirstCheck
          \/ /\ ~(p >= checknum /\ m * 1000 >= invf_buffer_size * 999)
             /\ ent' = Counted(d) /\ lcallnum' = lcallnum + 1 /\ ptrcnt' = p
             /\ checknum' = IF p >= checknum THEN NextCheck(m, p) ELSE checknum
             /\ UNCHANGED <<max_mem, chunk_file, cuts>>
      BY DEF ProcessDoc1
    <2>2. n = Len(text) + 1 /\ N = lcallnum + 1 /\ e = Counted(d) /\ p = ptrs /\ m = mem
      BY <1>0, <1>1, Zenon
    <2> HIDE DEF p, m
    <2> QED
      BY ONLY <2>1, <2>2, <1>1
  <1>3. TotalsOK' /\ CountsOK' /\ ChunksOK'
    BY Pass1Step
  <1>4. OptionsOK' /\ OptionsOK /\ NeedOK /\ VocabOK /\ CheckOK /\ InvfLevel' = InvfLevel
    BY <1>2 DEF DescribedOK, OptionsOK
  <1>5. VocabOK'
    BY <1>0, <1>4, VocabStep
  <1>6. /\ Len(text)' = n /\ n - 1 = Len(text) /\ Len(text) \in Nat
        /\ N \in 1..n /\ n - N = Len(text) - lcallnum
        /\ CountedSince(e, N)' /\ Cut(Len(cuts)) = n - N
        /\ \A i \in 0..Len(text) : \A w \in Words : F(i, w)' = F(i, w) /\ W(i, w)' = W(i, w)
        /\ \A w \in Words : e[w].lfcnt = ent[w].lfcnt + IF d[w] > 0 THEN 1 ELSE 0
        /\ d \in [Words -> Nat]
    BY <1>0 DEF DocCounted, Grown, CountsOK
  <1>7. N \in 1..(Shl(MaxLog) - 1) /\ InvfLevel \in {1, 2, 3}
    <2>1. MaxDocs \in 1..(Shl(MaxLog) - 1) /\ Shl(MaxLog) \in Nat
      BY MaxDocsAssumption, ShlType DEF MaxLog
    <2>2. n <= MaxDocs /\ n \in Nat /\ N \in 1..n
      <3>1. Len(text)' <= MaxDocs
        BY <1>3 DEF TotalsOK
      <3> QED
        BY <1>6, <3>1
    <2>3. InvfLevel \in {1, 2, 3}
      BY DEF CountsOK
    <2>4. N \in 1..(Shl(MaxLog) - 1)
      BY ONLY <2>1, <2>2
    <2> QED
      BY <2>3, <2>4
  <1>8. e \in [Words -> [wcnt : Nat, fcnt : Nat, lwcnt : Nat, lfcnt : Nat]]
    BY <1>0 DEF DocCounted
  <1>9. \A w \in Words : ent[w].lfcnt \in Nat /\ e[w].lfcnt <= N
    <2>1. \A w \in Words : ent[w].lfcnt \in Nat
      BY DEF CountsOK, CountedSince
    <2>2. ASSUME NEW w \in Words PROVE e[w].lfcnt <= N
      <3>1. PICK m : m = n - N
        OBVIOUS
      <3>2. m \in 0..Len(text)' /\ n \in 0..Len(text)' /\ m <= n /\ n - m = N
        BY <1>6, <3>1
      <3>3. Gains(m, n, w)'
        BY <1>3, <3>2 DEF TotalsOK
      <3>4. e[w].lfcnt = F(n, w)' - F(m, w)'
        BY <1>0, <3>1 DEF DocCounted
      <3> QED
        BY <3>2, <3>3, <3>4 DEF Gains
    <2> QED
      BY <2>1, <2>2
  <1>10. mem \in Nat /\ ((\E w \in Words : e[w].lfcnt > 0) => mem > 0)
    BY <1>1, <1>7, <1>8, <1>9, MemReqdType
  <1>11. ptrs \in Nat /\ (ptrs > 0 => \E w \in Words : e[w].lfcnt > 0)
    <2>1. WordsOf(d) \cap Known \subseteq Words
      BY DEF WordsOf
    <2>2. PICK S : S = WordsOf(d) \cap Known
      OBVIOUS
    <2>3. IsFiniteSet(S)
      BY <2>1, <2>2, WordsFinite, FS_Subset
    <2>4. Cardinality(S) \in Nat /\ (Cardinality(S) > 0 => S # {})
      BY <2>3, FS_CardinalityType, FS_EmptySet
    <2>5. ptrcnt \in Nat /\ (ptrcnt > 0 => \E w \in Words : ent[w].lfcnt > 0)
      BY <1>4 DEF CheckOK
    <2>6. ASSUME ptrs > 0 PROVE \E w \in Words : e[w].lfcnt > 0
      <3>1. CASE ptrcnt > 0
        <4>1. PICK w \in Words : ent[w].lfcnt > 0
          BY <2>5, <3>1
        <4>2. e[w].lfcnt > 0
          BY <1>6, <1>9, <4>1
        <4> QED
          BY <4>2
      <3>2. CASE ~(ptrcnt > 0)
        <4>1. PICK w : w \in S
          BY <1>1, <2>2, <2>4, <2>5, <2>6, <3>2
        <4>2. w \in Words /\ d[w] > 0
          BY <2>2, <4>1 DEF WordsOf
        <4>3. e[w].lfcnt > 0
          BY <1>6, <1>9, <4>2
        <4> QED
          BY <4>2, <4>3
      <3> QED
        BY <3>1, <3>2
    <2> QED
      BY <1>1, <2>2, <2>4, <2>5, <2>6
  <1>12. FirstCheck \in Nat \ {0} /\ checknum \in Nat \ {0}
    BY <1>4, CheckPositive DEF CheckOK
  <1>13. CASE /\ ptrs >= checknum /\ full
              /\ dump_dict(e, words, N, mem) /\ checknum' = FirstCheck
    <2>1. mem > 0
      <3>1. PICK s : s = invf_buffer_size
        OBVIOUS
      <3>2. s \in Nat /\ s >= 15 /\ mem * 1000 >= s * 999
        BY <1>4, <1>13, <3>1 DEF OptionsOK
      <3> QED
        BY ONLY <1>10, <3>2
    <2>2. NeedOK'
      BY <1>1, <1>2, <1>3, <1>4, <1>6, <1>13, <2>1, NeedClosed
    <2>3. ptrcnt' = 0
      BY <1>13, ZenonT(60) DEF dump_dict
    <2>4. CheckOK'
      BY <1>12, <1>13, <2>3 DEF CheckOK
    <2> QED
      BY <1>4, <1>5, <2>2, <2>4 DEF DescribedOK
  <1>14. CASE /\ ~(ptrs >= checknum /\ full)
              /\ ent' = e /\ lcallnum' = N /\ ptrcnt' = ptrs
              /\ checknum' = IF ptrs >= checknum THEN NextCheck(mem, ptrs) ELSE checknum
              /\ UNCHANGED <<max_mem, chunk_file, cuts>>
    <2>1. NeedOK'
      <3>1. \A k : Cut(k)' = Cut(k)
        BY <1>14 DEF Cut
      <3>2. ASSUME NEW k \in 1..Len(chunk_file) PROVE Need(chunk_file[k])' = Need(chunk_file[k])
        <4>1. k \in 1..Len(cuts) /\ k \in 1..Len(cuts)' /\ chunk_file'[k] = chunk_file[k]
          BY <1>14 DEF ChunksOK
        <4>2. PICK c : c = chunk_file[k]
          OBVIOUS
        <4>3. Cut(k)' = Cut(k) /\ Cut(k - 1)' = Cut(k - 1)
          BY <3>1
        <4>4. Need(c)' = Need(c)
          BY <1>3, <1>4, <1>6, <4>1, <4>2, <4>3, NeedOfOld
        <4> QED
          BY <4>1, <4>2, <4>4
      <3> QED
        BY <1>2, <1>4, <1>14, <3>2 DEF NeedOK
    <2>2. checknum' \in Nat \ {0}
      <3>1. CASE ptrs >= checknum
        <4>1. mem > 0 /\ ~(mem * 1000 >= invf_buffer_size * 999)
          BY <1>10, <1>11, <1>12, <1>14, <3>1
        <4>2. NextCheck(mem, ptrs) \in Nat \ {0}
          BY <1>4, <1>10, <1>11, <1>12, <4>1, NextCheckPositive
        <4> QED
          BY <1>14, <3>1, <4>2
      <3>2. CASE ~(ptrs >= checknum)
        BY <1>12, <1>14, <3>2
      <3> QED
        BY <3>1, <3>2
    <2>3. CheckOK'
      BY <1>11, <1>14, <2>2 DEF CheckOK
    <2> QED
      BY <1>4, <1>5, <2>1, <2>3 DEF DescribedOK
  <1> QED
    BY <1>13, <1>14, <1>p
\* The end of pass 1.
LEMMA DoneDescribed ==
  ASSUME TotalsOK, CountsOK, ChunksOK, DescribedOK, Done1
  PROVE  DescribedOK' /\ (stage' = "failed" <=> first_occr' = <<>>)
         /\ stage' \in {"built", "failed"}
  <1>0. PICK n, N, e : n = Len(text) /\ N = lcallnum /\ e = ent
    OBVIOUS
  <1>1. /\ stage = "pass1" /\ UNCHANGED <<text, totals, first_occr, checknum>>
        /\ stage' = IF first_occr = <<>> THEN "failed" ELSE "built"
        /\ UNCHANGED <<InvfLevel, invf_buffer_size, ChunkLimit>>
    BY DEF Done1, options
  <1>2. TotalsOK' /\ CountsOK' /\ ChunksOK'
    BY Done1Step
  <1>3. OptionsOK' /\ OptionsOK /\ NeedOK /\ VocabOK /\ CheckOK /\ InvfLevel' = InvfLevel
    BY <1>1 DEF DescribedOK, OptionsOK
  <1>4. /\ \A i, w : F(i, w)' = F(i, w) /\ W(i, w)' = W(i, w)
        /\ Len(text)' = n /\ n \in Nat /\ N \in 0..n /\ Len(text) \in Nat
        /\ Cut(Len(cuts)) = n - N
    BY <1>0, <1>1 DEF F, W, TotalsOK, IsSeq, CountsOK
  <1>5. VocabOK'
    BY <1>0, <1>1, <1>3, <1>4 DEF VocabOK
  <1>6. /\ stage' # "pass1" /\ stage' \in {"built", "failed"}
        /\ (stage' = "failed" <=> first_occr' = <<>>)
    BY <1>1
  <1>7. CountedSince(e, N)'
    BY <1>0, <1>1, <1>4 DEF CountsOK, CountedSince
  <1>8. CASE N > 0
    <2>1. PICK mem : mem = mem_reqd(e, N)
      OBVIOUS
    <2>2. dump_dict(e, first_occr, N, mem)
      BY <1>0, <1>8, <2>1 DEF Done1
    <2>3. N \in 1..n
      BY <1>4, <1>8
    <2>4. NeedOK'
      BY <1>1, <1>2, <1>3, <1>4, <1>6, <1>7, <2>1, <2>2, <2>3, NeedClosed
    <2>5. ptrcnt' = 0
      BY <2>2 DEF dump_dict
    <2>6. CheckOK'
      BY <1>1, <1>3, <2>5 DEF CheckOK
    <2> QED
      BY <1>3, <1>5, <1>6, <2>4, <2>6 DEF DescribedOK
  <1>9. CASE N = 0
    <2>1. UNCHANGED <<chunk_file, cuts, max_mem, ent, ptrcnt>>
      BY <1>0, <1>9 DEF Done1
    <2>2. NeedOK'
      <3>1. \A k : Cut(k)' = Cut(k)
        BY <2>1 DEF Cut
      <3>2. ASSUME NEW k \in 1..Len(chunk_file)
            PROVE  Need(chunk_file[k])' = Need(chunk_file[k])
        <4>1. k \in 1..Len(cuts) /\ k \in 1..Len(cuts)' /\ chunk_file'[k] = chunk_file[k]
          BY <2>1 DEF ChunksOK
        <4>2. PICK c : c = chunk_file[k]
          OBVIOUS
        <4>3. Cut(k)' = Cut(k) /\ Cut(k - 1)' = Cut(k - 1)
          BY <3>1
        <4>4. Need(c)' = Need(c)
          BY <1>2, <1>3, <1>4, <4>1, <4>2, <4>3, NeedOfOld
        <4> QED
          BY <4>1, <4>2, <4>4
      <3> QED
        BY <1>1, <1>3, <1>6, <2>1, <3>2 DEF NeedOK
    <2>3. CheckOK'
      BY <1>1, <1>3, <2>1 DEF CheckOK
    <2> QED
      BY <1>3, <1>5, <1>6, <2>2, <2>3 DEF DescribedOK
  <1> QED
    BY <1>4, <1>8, <1>9
----------------------------------------------------------------------------
(* What pass 2 leaves alone.                                               *)

\* A step of pass 2, or none: the collection, its counts and the chunks pass 1
\* described stay.
Static == UNCHANGED <<options, pass1>>

LEMMA StaticText ==
  ASSUME Static
  PROVE  /\ UNCHANGED <<InvfLevel, invf_buffer_size, ChunkLimit, text, totals, cuts, ent,
                        first_occr, lcallnum, ptrcnt, checknum, max_mem, chunk_file>>
         /\ \A n, w : F(n, w)' = F(n, w) /\ W(n, w)' = W(n, w)
         /\ \A k : Cut(k)' = Cut(k)
  BY DEF Static, options, pass1, F, W, Cut

LEMMA StaticChunks ==
  ASSUME Static
  PROVE  /\ \A c, w : CountsIn(c, w)' = CountsIn(c, w)
         /\ \A c, w : Region(c, w)' = Region(c, w)
         /\ \A c, w : RegionStart(c, w)' = RegionStart(c, w)
         /\ \A c : Need(c)' = Need(c)
         /\ \A c, w : Delta(c, w)' = Delta(c, w)
  <1>1. InvfLevel' = InvfLevel /\ first_occr' = first_occr
    BY StaticText
  <1>2. \A c, w : CountsIn(c, w)' = CountsIn(c, w)
    BY <1>1 DEF CountsIn
  <1>3. \A c, w : Region(c, w)' = Region(c, w)
    BY <1>1, <1>2 DEF Region, RegionLength
  <1>4. \A c, w : RegionStart(c, w)' = RegionStart(c, w)
    <2> SUFFICES ASSUME NEW c, NEW w PROVE RegionStart(c, w)' = RegionStart(c, w)
      OBVIOUS
    <2>1. [v \in Words |-> Region(c, v)'] = [v \in Words |-> Region(c, v)]
      BY <1>3
    <2>2. RegionStart(c, w)'
            = SumFunctionOnSet([v \in Words |-> Region(c, v)'], {v \in Words : v < w})
      BY Zenon DEF RegionStart
    <2> QED
      BY <2>1, <2>2, Zenon DEF RegionStart
  <1>5. \A c : Need(c)' = Need(c)
    <2> SUFFICES ASSUME NEW c PROVE Need(c)' = Need(c)
      OBVIOUS
    <2>1. [v \in Words |-> Region(c, v)'] = [v \in Words |-> Region(c, v)]
      BY <1>3
    <2>2. Need(c)' = Bytes(SumFunctionOnSet([v \in Words |-> Region(c, v)'], Words))
      BY Zenon DEF Need
    <2> QED
      BY <2>1, <2>2, Zenon DEF Need
  <1>6. \A c, w : Delta(c, w)' = Delta(c, w)
    BY <1>2, <1>4 DEF Delta
  <1> QED
    BY <1>2, <1>3, <1>4, <1>5, <1>6

LEMMA StaticCodes ==
  ASSUME Static
  PROVE  /\ \A w, i : Nth(w, i)' = Nth(w, i)
         /\ \A w, s, n : LastDoc(w, s, n)' = LastDoc(w, s, n)
         /\ \A w, s, n, b : Codes(w, s, n, b)' = Codes(w, s, n, b)
         /\ \A k, w : ChunkParam(k, w)' = ChunkParam(k, w)
         /\ \A k : ChunkImage(k)' = ChunkImage(k)
         /\ \A w, m, b : GapBits(w, m, b)' = GapBits(w, m, b)
         /\ \A w, m : CountBits(w, m)' = CountBits(w, m)
  <1>1. /\ InvfLevel' = InvfLevel /\ text' = text /\ chunk_file' = chunk_file
        /\ \A n, w : F(n, w)' = F(n, w)
        /\ \A k : Cut(k)' = Cut(k)
    BY StaticText
  <1>2. \A w, i : Nth(w, i)' = Nth(w, i)
    <2>1. text' = text /\ totals' = totals
      BY StaticText
    <2> QED
      BY ONLY <2>1 DEF Nth, F
  <1>3. \A w, s, n : LastDoc(w, s, n)' = LastDoc(w, s, n)
    BY <1>1, <1>2 DEF LastDoc
  <1>4. \A w, s, i, b : Code(w, s, i, b)' = Code(w, s, i, b)
    BY <1>1, <1>2 DEF Code
  <1>5. \A w, s, n, b : Codes(w, s, n, b)' = Codes(w, s, n, b)
    BY <1>1, <1>4 DEF Codes
  <1>6. \A k, w : ChunkParam(k, w)' = ChunkParam(k, w)
    BY <1>1 DEF ChunkParam
  <1>7. \A k, w : ChunkCodes(k, w)' = ChunkCodes(k, w)
    BY <1>1, <1>5, <1>6 DEF ChunkCodes
  <1>8. \A k : ChunkImage(k)' = ChunkImage(k)
    BY <1>1, <1>7, StaticChunks DEF ChunkImage
  <1>9. ASSUME NEW w, NEW m, NEW b PROVE GapBits(w, m, b)' = GapBits(w, m, b)
    <2>1. [i \in 1..m |-> BblockLength(Gap(w, i)', b)]
            = [i \in 1..m |-> BblockLength(Gap(w, i), b)]
      BY <1>2 DEF Gap
    <2>2. GapBits(w, m, b)'
            = SumFunctionOnSet([i \in 1..m |-> BblockLength(Gap(w, i)', b)], 1..m)
      BY Zenon DEF GapBits
    <2> QED
      BY <2>1, <2>2, Zenon DEF GapBits
  <1>10. ASSUME NEW w, NEW m PROVE CountBits(w, m)' = CountBits(w, m)
    <2>1. [i \in 1..m |-> CountLength(w, i)'] = [i \in 1..m |-> CountLength(w, i)]
      BY <1>1, <1>2 DEF CountLength
    <2>2. CountBits(w, m)' = SumFunctionOnSet([i \in 1..m |-> CountLength(w, i)'], 1..m)
      BY Zenon DEF CountBits
    <2> QED
      BY <2>1, <2>2, Zenon DEF CountBits
  <1> QED
    BY <1>2, <1>3, <1>5, <1>6, <1>8, <1>9, <1>10

LEMMA StaticDescribed ==
  ASSUME Static, DescribedOK, stage' = "pass1" => stage = "pass1"
  PROVE  DescribedOK'
  <1>1. UNCHANGED <<InvfLevel, invf_buffer_size, ChunkLimit, text, ent,
                    first_occr, ptrcnt, checknum, max_mem, chunk_file>>
    BY StaticText
  <1>2. (OptionsOK /\ CheckOK)'
    BY <1>1 DEF DescribedOK, OptionsOK, CheckOK
  <1>3. VocabOK'
    BY <1>1, StaticText DEF DescribedOK, VocabOK
  <1>4. NeedOK'
    <2>1. \A c : Need(c)' = Need(c)
      BY StaticChunks
    <2> QED
      BY <1>1, <2>1 DEF DescribedOK, NeedOK
  <1> QED
    BY <1>2, <1>3, <1>4 DEF DescribedOK
----------------------------------------------------------------------------
(* Pass 2.                                                                 *)

Running == stage \in {"pass2", "merge", "done"}

NoRegion == [start |-> 0, used |-> 0, codes |-> <<>>, last |-> 0, b |-> 1]

StageOK ==
  /\ stage \in {"pass1", "built", "pass2", "merge", "done", "failed"}
  /\ stage = "failed" => first_occr = <<>>
  /\ stage \notin {"pass1", "failed"} => first_occr # <<>>
  /\ stage = "merge" => docs_left = 0 /\ at > 0
  /\ stage = "done" => callnum = Len(text)
  /\ next_docs_left \in 0..MaxDocs
  /\ at = 0 => callnum = 0 /\ BufToUse = 0 /\ \A w \in Words : wr[w] = NoRegion

\* Before pass 2 its variables are as they were.
QuietOK ==
  ~Running => /\ at = 0 /\ callnum = 0 /\ docs_left = 0 /\ BufToUse = 0
              /\ MemBufSize = 0 /\ no_of_ptrs = 0
              /\ chunk_data = <<>> /\ chunks = {} /\ Disk_pos = 0 /\ disk_chunks = 0

\* The buffer holds the largest chunk.
BufOK ==
  /\ MemBufSize \in Nat /\ (MemBufSize = 0 \/ MemBufSize >= max_mem)
  /\ at > 0 => MemBufSize >= max_mem /\ BufToUse = chunk_file[at].mem

\* h is what pass 2 keeps of the k-th chunk.
KeptOf(h, k) ==
  /\ h = [start_doc |-> h.start_doc, N |-> h.N, disk_pos |-> h.disk_pos,
          params |-> h.params]
  /\ h.start_doc = Cut(k - 1) /\ h.N = Cut(k) - Cut(k - 1)
  /\ \A w \in Words : /\ h.params[w].p = CountsIn(chunk_file[k], w).fcnt
                      /\ h.params[w].delta = Delta(chunk_file[k], w)

\* The chunks kept are those not merged yet, all but the one in memory dumped;
\* the last chunk is never dumped.
HeldOK ==
  /\ IsSeq(chunk_data) /\ Len(chunk_data) <= at
  /\ Len(chunk_data) = disk_chunks + IF docs_left > 0 \/ stage = "merge" THEN 1 ELSE 0
  /\ disk_chunks \in 0..ChunkLimit
  /\ disk_chunks > 0 /\ docs_left = 0 /\ stage # "merge" => at < Len(chunk_file)
  /\ \A j \in 1..Len(chunk_data) : KeptOf(chunk_data[j], First + j)

\* The buffer has the codes of the chunk's documents read so far.
BufferOK ==
  at > 0 => \A w \in Words :
    /\ wr[w].start = RegionStart(chunk_file[at], w)
    /\ wr[w].codes = Codes(w, Cut(at - 1), callnum, ChunkParam(at, w))
    /\ wr[w].last = LastDoc(w, Cut(at - 1), callnum)

\* Chunk k of the scratch file, at pos.
Dumped(pos, k) ==
  [pos |-> pos, len |-> chunk_file[k].mem, image |-> ChunkImage(k)]

\* Every dumped chunk is whole in the scratch file, and no two chunks overlap.
ScratchOK ==
  /\ Disk_pos \in Nat
  /\ \A f \in chunks : f.pos \in Nat /\ f.len \in Nat \ {0}
  /\ \A f, g \in chunks : f = g \/ f.pos + f.len <= g.pos \/ g.pos + g.len <= f.pos
  /\ \A j \in 1..disk_chunks :
       /\ chunk_data[j].disk_pos + chunk_file[First + j].mem <= Disk_pos
       /\ Dumped(chunk_data[j].disk_pos, First + j) \in chunks

\* Every entry on disk codes the collection up to the first chunk kept.
EntryOK ==
  \A w \in Words : isr[w].B \in Operand /\ EntryUpTo(isr[w], w, Cut(First))

PtrsOK ==
  no_of_ptrs = SumFunctionOnSet([w \in Words |-> F(callnum, w)], Words)

RunningOK ==
  Running => BufOK /\ HeldOK /\ BufferOK /\ ScratchOK /\ EntryOK /\ PtrsOK

Inv == IInv /\ EndOK /\ DescribedOK /\ StageOK /\ QuietOK /\ RunningOK
LEMMA StaticKept ==
  ASSUME Static
  PROVE  /\ \A h, k : KeptOf(h, k)' <=> KeptOf(h, k)
         /\ \A pos, k : Dumped(pos, k)' = Dumped(pos, k)
         /\ \A s, w, n : EntryUpTo(s, w, n)' <=> EntryUpTo(s, w, n)
         /\ \A n : DocsOfChunk(n)' = DocsOfChunk(n)
  <1>1. chunk_file' = chunk_file
    BY StaticText
  <1>2. \A h, k : KeptOf(h, k)' <=> KeptOf(h, k)
    BY <1>1, StaticText, StaticChunks DEF KeptOf
  <1>3. \A pos, k : Dumped(pos, k)' = Dumped(pos, k)
    BY <1>1, StaticCodes DEF Dumped
  <1>4. \A s, w, n : EntryUpTo(s, w, n)' <=> EntryUpTo(s, w, n)
    BY StaticText, StaticCodes DEF EntryUpTo
  <1>5. \A n : DocsOfChunk(n)' = DocsOfChunk(n)
    BY <1>1 DEF DocsOfChunk
  <1> QED
    BY <1>2, <1>3, <1>4, <1>5

\* Where pass 2 is.
LEMMA Places ==
  ASSUME IInv
  PROVE  /\ Len(text) \in Nat /\ Len(text) <= MaxDocs
         /\ Len(cuts) \in Nat /\ Len(chunk_file) = Len(cuts)
         /\ at \in 0..Len(cuts) /\ callnum \in 0..Len(text) /\ Cut(at) \in 0..Len(text)
         /\ docs_left \in Nat /\ docs_left = Cut(at) - callnum
         /\ at > 0 => at \in 1..Len(cuts) /\ at - 1 \in 0..Len(cuts)
                      /\ Cut(at - 1) \in 0..Len(text) /\ Cut(at - 1) <= callnum
  <1>1. Len(text) \in Nat /\ Len(text) <= MaxDocs
    BY DEF IInv, TotalsOK, IsSeq
  <1>2. Len(cuts) \in Nat /\ Len(chunk_file) = Len(cuts)
    BY DEF IInv, ChunksOK, IsSeq
  <1>3. at \in 0..Len(cuts) /\ callnum \in 0..Len(text)
    BY <1>2 DEF IInv, ReadOK
  <1>4. Cut(at) \in 0..Len(text)
    BY <1>3 DEF IInv, ChunksOK
  <1>5. docs_left \in Nat /\ docs_left = Cut(at) - callnum
    BY <1>1, <1>3, <1>4 DEF IInv, ReadOK
  <1>6. ASSUME at > 0
        PROVE  /\ at \in 1..Len(cuts) /\ at - 1 \in 0..Len(cuts)
               /\ Cut(at - 1) \in 0..Len(text) /\ Cut(at - 1) <= callnum
    <2>1. at \in 1..Len(cuts) /\ at - 1 \in 0..Len(cuts)
      BY <1>2, <1>3, <1>6
    <2> QED
      BY <1>6, <2>1 DEF IInv, ChunksOK, ReadOK
  <1> QED
    BY <1>1, <1>2, <1>3, <1>4, <1>5, <1>6

LEMMA DocsType ==
  ASSUME IInv, NEW n \in Nat
  PROVE  DocsOfChunk(n) \in 0..MaxDocs
  <1>1. /\ Len(text) \in Nat /\ Len(text) <= MaxDocs /\ MaxDocs \in Nat
        /\ Len(cuts) \in Nat /\ Len(chunk_file) = Len(cuts)
    <2>1. Shl(MaxLog) \in Nat
      BY ShlType DEF MaxLog
    <2> QED
      BY <2>1, Places, MaxDocsAssumption
  <1>2. CASE n < Len(cuts)
    <2>1. PICK k : k = n + 1
      OBVIOUS
    <2>2. k \in 1..Len(cuts) /\ k - 1 \in 0..Len(cuts) /\ k \in 0..Len(cuts)
      BY <1>1, <1>2, <2>1
    <2>3. /\ Cut(k) \in 0..Len(text) /\ Cut(k - 1) \in 0..Len(text)
          /\ Cut(k - 1) < Cut(k) /\ chunk_file[k].docs = Cut(k) - Cut(k - 1)
      BY <2>2 DEF IInv, ChunksOK, Describes
    <2>4. DocsOfChunk(n) = chunk_file[k].docs
      BY <1>1, <1>2, <2>1 DEF DocsOfChunk
    <2> QED
      BY <1>1, <2>3, <2>4
  <1>3. CASE ~(n < Len(cuts))
    BY <1>1, <1>3 DEF DocsOfChunk
  <1> QED
    BY <1>2, <1>3

\* The start of pass 2.
LEMMA InitRun ==
  ASSUME Inv, init_ivf_2
  PROVE  StageOK' /\ QuietOK' /\ RunningOK'
  <1>0. Static
    BY DEF init_ivf_2, Static
  <1>1. /\ stage = "built" /\ stage' = "pass2" /\ next_docs_left' = DocsOfChunk(0)
        /\ UNCHANGED <<at, callnum, docs_left, BufToUse, MemBufSize, wr, no_of_ptrs,
                       chunk_data, chunks, Disk_pos, disk_chunks>>
    BY DEF init_ivf_2
  <1>2. \A w \in Words :
          isr'[w] = [Disk_Last |-> 0, used |-> 0, codes |-> <<>>,
                     B |-> IF w \in Vocabulary THEN BblockInit(Len(text), ent[w].fcnt)
                           ELSE 1]
    BY DEF init_ivf_2
  <1>3. /\ at = 0 /\ callnum = 0 /\ docs_left = 0 /\ BufToUse = 0
        /\ MemBufSize = 0 /\ no_of_ptrs = 0
        /\ chunk_data = <<>> /\ chunks = {} /\ Disk_pos = 0 /\ disk_chunks = 0
    BY <1>1 DEF Inv, QuietOK, Running
  <1>4. Running' /\ First' = 0
    <2>1. at' = 0 /\ chunk_data' = <<>>
      BY <1>1, <1>3
    <2>2. Len(chunk_data') = 0
      BY ONLY <2>1, EmptyIsSeq, Zenon
    <2>3. at' = 0
      BY <2>1
    <2>4. First' = 0
      BY ONLY <2>2, <2>3 DEF First
    <2> QED
      BY <1>1, <2>4 DEF Running
  <1>5. StageOK'
    <2>1. next_docs_left' \in 0..MaxDocs
      BY <1>1, DocsType DEF Inv
    <2>2. first_occr' # <<>>
      BY <1>0, <1>1, StaticText DEF Inv, StageOK
    <2>3. \A w \in Words : wr'[w] = NoRegion
      BY <1>1, <1>3 DEF Inv, StageOK
    <2> QED
      BY <1>1, <1>3, <2>1, <2>2, <2>3 DEF StageOK, NoRegion
  <1>6. QuietOK'
    BY <1>4 DEF QuietOK
  <1>7. BufOK'
    BY <1>1, <1>3 DEF BufOK
  <1>8. HeldOK'
    <2>1. IsSeq(<<>>) /\ Len(<<>>) = 0
      BY EmptyIsSeq
    <2>2. ChunkLimit' \in Nat
      BY <1>0, StaticText DEF Inv, DescribedOK, OptionsOK
    <2> QED
      BY <1>1, <1>3, <2>1, <2>2 DEF HeldOK
  <1>9. BufferOK' /\ ScratchOK'
    BY <1>1, <1>3 DEF BufferOK, ScratchOK
  <1>10. EntryOK'
    <2>1. /\ Len(text) \in Nat /\ 0 \in 0..Len(text) /\ Len(text) <= MaxDocs
      BY Places DEF Inv
    <2>2. ASSUME NEW w \in Words
          PROVE  isr'[w].B \in Operand /\ EntryUpTo(isr'[w], w, 0)
      <3>1. PICK b : b = IF w \in Vocabulary THEN BblockInit(Len(text), ent[w].fcnt) ELSE 1
        OBVIOUS
      <3>2. isr'[w] = [Disk_Last |-> 0, used |-> 0, codes |-> <<>>, B |-> b]
        BY <1>2, <3>1
      <3>3. b \in Operand
        <4>1. CASE w \in Vocabulary
          <5>1. F(Len(text), w) > 0
            <6>1. PICK i \in DOMAIN first_occr : first_occr[i] = w
              BY <4>1 DEF Vocabulary, Known, Range
            <6>2. i \in 1..Len(first_occr)
              BY DEF Inv, IInv, CountsOK, OrderOK, IsSeq
            <6> QED
              BY <6>1, <6>2 DEF Inv, DescribedOK, VocabOK
          <5>2. PICK n, p : n = Len(text) /\ p = F(Len(text), w)
            OBVIOUS
          <5>3. p \in 1..n /\ n \in 1..(Shl(MaxLog) - 1) /\ ent[w].fcnt = p
            <6>1. n \in Nat /\ n \in 0..n /\ 0 \in 0..n /\ 0 <= n
              BY <2>1, <5>2
            <6>2. Gains(0, n, w) /\ F(n, w) \in Nat /\ F(0, w) = 0
              BY <5>2, <6>1 DEF Inv, IInv, TotalsOK, F
            <6>3. p \in Nat /\ p > 0 /\ p <= n
              BY <5>1, <5>2, <6>1, <6>2 DEF Gains
            <6>4. MaxDocs \in 1..(Shl(MaxLog) - 1) /\ Shl(MaxLog) \in Nat
              BY MaxDocsAssumption, ShlType DEF MaxLog
            <6>5. ent[w].fcnt = p
              BY <5>2 DEF Inv, IInv, CountsOK, CountedSince
            <6> QED
              BY <2>1, <5>2, <6>1, <6>3, <6>4, <6>5
          <5>4. BblockInit(n, p) \in Operand
            BY <5>3, BblockInitRange
          <5> QED
            BY <3>1, <4>1, <5>2, <5>3, <5>4
        <4>2. CASE w \notin Vocabulary
          BY <3>1, <4>2, SMTT(60) DEF Operand, Shl, Pow2, MaxLog
        <4> QED
          BY <4>1, <4>2
      <3>4. Codes(w, 0, 0, b) = <<>> /\ LastDoc(w, 0, 0) = 0
        BY <2>1, NoCodes DEF Inv, IInv
      <3>5. F(0, w) = 0 /\ GapBits(w, 0, b) = 0 /\ CountBits(w, 0) = 0
        BY NoBits DEF F
      <3> QED
        BY <3>2, <3>3, <3>4, <3>5 DEF EntryUpTo
    <2>3. Cut(First)' = 0
      BY <1>4 DEF Cut
    <2>4. ASSUME NEW w \in Words
          PROVE  (isr[w].B \in Operand /\ EntryUpTo(isr[w], w, Cut(First)))'
      <3>1. PICK s : s = isr'[w]
        OBVIOUS
      <3>2. EntryUpTo(s, w, 0)'
        BY <1>0, <2>2, <3>1, StaticKept
      <3> QED
        BY <2>2, <2>3, <3>1, <3>2
    <2> QED
      BY <2>4 DEF EntryOK
  <1>11. PtrsOK'
    <2>1. PICK f : f = [w \in Words |-> F(0, w)]
      OBVIOUS
    <2>2. SumFunctionOnSet(f, Words) = 0
      BY <2>1, WordsFinite, SumZero DEF F
    <2>3. [w \in Words |-> F(callnum, w)'] = f
      BY <1>1, <1>3, <2>1 DEF F
    <2> QED
      BY <1>1, <1>3, <2>2, <2>3, Zenon DEF PtrsOK
  <1> QED
    BY <1>5, <1>6, <1>7, <1>8, <1>9, <1>10, <1>11 DEF RunningOK
LEMMA MaxOfTwo ==
  ASSUME NEW a \in Nat, NEW b \in Nat
  PROVE  Max({a, b}) \in Nat /\ Max({a, b}) >= b
  <1>1. PICK S : S = {a, b}
    OBVIOUS
  <1>2. S \subseteq Nat /\ S # {} /\ b \in S /\ a + b + 1 \in Nat
        /\ \A x \in S : x < a + b + 1
    BY <1>1
  <1>3. Max(S) \in S /\ \A y \in S : y <= Max(S)
    BY <1>2, MaxExists
  <1> QED
    BY <1>1, <1>2, <1>3

\* What LoadCounts does when a description is there and its regions fit.
LEMMA LoadFacts ==
  ASSUME Inv, LoadCounts
  PROVE  \E k, h :
           /\ k = at + 1 /\ k \in 1..Len(cuts) /\ k - 1 = at /\ Cut(at) = callnum
           /\ at' = k /\ chunk_data' = Append(chunk_data, h)
           /\ h = [start_doc |-> callnum, N |-> next_docs_left, disk_pos |-> 0,
                   params |-> [w \in Words |->
                                 [p |-> CountsIn(chunk_file[k], w).fcnt,
                                  delta |-> Delta(chunk_file[k], w)]]]
           /\ next_docs_left = Cut(k) - Cut(k - 1) /\ next_docs_left > 0
           /\ docs_left' = next_docs_left /\ next_docs_left' = DocsOfChunk(k)
           /\ docs_left = 0 /\ stage = "pass2" /\ stage' = "pass2"
           /\ BufToUse' = chunk_file[k].mem
           /\ MemBufSize' = IF MemBufSize > 0 THEN MemBufSize
                            ELSE Max({8 * Cardinality(Vocabulary), max_mem})
           /\ \A w \in Words : /\ wr'[w].start = RegionStart(chunk_file[k], w)
                               /\ wr'[w].codes = <<>> /\ wr'[w].last = callnum
           /\ UNCHANGED <<callnum, no_of_ptrs, chunks, Disk_pos, disk_chunks, isr>>
  <1>1. PICK k : k = at + 1
    OBVIOUS
  <1>2. /\ stage = "pass2" /\ docs_left = 0 /\ callnum < Len(text)
        /\ MemBufSize' = IF MemBufSize > 0 THEN MemBufSize
                         ELSE Max({8 * Cardinality(Vocabulary), max_mem})
        /\ UNCHANGED <<callnum, no_of_ptrs, chunks, Disk_pos, disk_chunks, isr>>
    BY DEF LoadCounts
  <1>3. next_docs_left > 0
    BY <1>2, EndNextChunk DEF Inv, NextChunkKnown
  <1>4. /\ at \in 0..Len(cuts) /\ Len(cuts) \in Nat /\ Len(chunk_file) = Len(cuts)
        /\ callnum \in Nat /\ Cut(at) \in Nat /\ Cut(at) = callnum
        /\ next_docs_left = DocsOfChunk(at)
    <2>1. /\ at \in 0..Len(cuts) /\ Len(cuts) \in Nat /\ Len(chunk_file) = Len(cuts)
          /\ callnum \in Nat /\ Cut(at) \in Nat /\ docs_left = Cut(at) - callnum
      BY Places DEF Inv
    <2>2. next_docs_left = DocsOfChunk(at)
      BY <1>2 DEF Inv, IInv, ReadOK
    <2> QED
      BY <1>2, <2>1, <2>2
  <1>5. k \in 1..Len(cuts) /\ k - 1 = at /\ at < Len(cuts)
    BY <1>1, <1>3, <1>4 DEF DocsOfChunk
  <1>6. next_docs_left = Cut(k) - Cut(k - 1)
    <2>1. DocsOfChunk(at) = chunk_file[k].docs
      BY <1>1, <1>4, <1>5 DEF DocsOfChunk
    <2> QED
      BY <1>4, <1>5, <2>1 DEF Inv, IInv, ChunksOK, Describes
  <1>7. PICK h : h = [start_doc |-> callnum, N |-> next_docs_left, disk_pos |-> 0,
                      params |-> [w \in Words |->
                                    [p |-> CountsIn(chunk_file[k], w).fcnt,
                                     delta |-> Delta(chunk_file[k], w)]]]
    OBVIOUS
  <1>8. /\ at' = k /\ docs_left' = next_docs_left /\ next_docs_left' = DocsOfChunk(k)
        /\ BufToUse' = chunk_file[k].mem /\ chunk_data' = Append(chunk_data, h)
        /\ stage' = IF Need(chunk_file[k]) > chunk_file[k].mem THEN "failed" ELSE stage
    BY <1>1, <1>3, <1>7 DEF LoadCounts, Need
  <1>9. ASSUME NEW w \in Words
        PROVE  /\ wr'[w].start = RegionStart(chunk_file[k], w)
               /\ wr'[w].codes = <<>> /\ wr'[w].last = callnum
    <2>1. wr'[w] = [start |-> RegionStart(chunk_file[k], w), used |-> 0, codes |-> <<>>,
                    last |-> callnum,
                    b |-> IF CountsIn(chunk_file[k], w).fcnt = 0 THEN 1
                          ELSE Shl(FloorLog2(BblockInitW(next_docs_left,
                                                 CountsIn(chunk_file[k], w).fcnt)))]
      BY <1>1, <1>3 DEF LoadCounts
    <2> QED
      BY <2>1
  <1>10. stage' = "pass2"
    <2>1. /\ chunk_file[k].mem = Need(chunk_file[k]) /\ chunk_file[k].mem \in Nat
      BY <1>4, <1>5 DEF Inv, DescribedOK, NeedOK
    <2> QED
      BY <1>2, <1>8, <2>1
  <1> QED
    BY ONLY <1>1, <1>2, <1>3, <1>4, <1>5, <1>6, <1>7, <1>8, <1>9, <1>10
\* The scratch file and the entries are as they were.
LEMMA DiskSame ==
  ASSUME Static, First' = First, ScratchOK, EntryOK,
         Disk_pos' = Disk_pos, chunks' = chunks, disk_chunks' = disk_chunks, isr' = isr,
         \A j \in 1..disk_chunks : chunk_data'[j] = chunk_data[j]
  PROVE  ScratchOK' /\ EntryOK'
  <1>1. ScratchOK'
    <2>1. ASSUME NEW j \in 1..disk_chunks
          PROVE  (/\ chunk_data[j].disk_pos + chunk_file[First + j].mem <= Disk_pos
                  /\ Dumped(chunk_data[j].disk_pos, First + j) \in chunks)'
      <3>1. PICK g, i : g = chunk_data[j] /\ i = First + j
        OBVIOUS
      <3>2. chunk_data'[j] = g /\ (First + j)' = i /\ chunk_file' = chunk_file
        BY <3>1, StaticText
      <3>3. g.disk_pos + chunk_file[i].mem <= Disk_pos /\ Dumped(g.disk_pos, i) \in chunks
        BY <3>1 DEF ScratchOK
      <3>4. Dumped(g.disk_pos, i)' = Dumped(g.disk_pos, i)
        BY StaticKept
      <3> QED
        BY <3>2, <3>3, <3>4
    <2> QED
      BY <2>1 DEF ScratchOK
  <1>2. EntryOK'
    <2>1. ASSUME NEW w \in Words
          PROVE  (isr[w].B \in Operand /\ EntryUpTo(isr[w], w, Cut(First)))'
      <3>1. PICK s, n : s = isr[w] /\ n = Cut(First)
        OBVIOUS
      <3>2. s.B \in Operand /\ EntryUpTo(s, w, n)
        BY <3>1 DEF EntryOK
      <3>3. isr'[w] = s /\ Cut(First)' = n
        BY <3>1, StaticText DEF Cut
      <3>4. EntryUpTo(s, w, n)'
        BY <3>2, StaticKept
      <3> QED
        BY <3>2, <3>3, <3>4
    <2> QED
      BY <2>1 DEF EntryOK
  <1> QED
    BY <1>1, <1>2

\* The next chunk is laid out.
LEMMA LoadRun ==
  ASSUME Inv, LoadCounts
  PROVE  StageOK' /\ QuietOK' /\ RunningOK'
  <1>0. Static
    BY DEF LoadCounts, Static
  <1>1. PICK k, h :
           /\ k = at + 1 /\ k \in 1..Len(cuts) /\ k - 1 = at /\ Cut(at) = callnum
           /\ at' = k /\ chunk_data' = Append(chunk_data, h)
           /\ h = [start_doc |-> callnum, N |-> next_docs_left, disk_pos |-> 0,
                   params |-> [w \in Words |->
                                 [p |-> CountsIn(chunk_file[k], w).fcnt,
                                  delta |-> Delta(chunk_file[k], w)]]]
           /\ next_docs_left = Cut(k) - Cut(k - 1) /\ next_docs_left > 0
           /\ docs_left' = next_docs_left /\ next_docs_left' = DocsOfChunk(k)
           /\ docs_left = 0 /\ stage = "pass2" /\ stage' = "pass2"
           /\ BufToUse' = chunk_file[k].mem
           /\ MemBufSize' = IF MemBufSize > 0 THEN MemBufSize
                            ELSE Max({8 * Cardinality(Vocabulary), max_mem})
           /\ \A w \in Words : /\ wr'[w].start = RegionStart(chunk_file[k], w)
                               /\ wr'[w].codes = <<>> /\ wr'[w].last = callnum
           /\ UNCHANGED <<callnum, no_of_ptrs, chunks, Disk_pos, disk_chunks, isr>>
    BY LoadFacts
  <1>2. /\ BufOK /\ HeldOK /\ BufferOK /\ ScratchOK /\ EntryOK /\ PtrsOK
    BY <1>1 DEF Inv, RunningOK, Running
  <1>3. Running'
    BY <1>1 DEF Running
  <1>4. /\ Len(cuts) \in Nat /\ Len(chunk_file) = Len(cuts) /\ k \in Nat /\ k > 0 /\ at \in Nat
        /\ callnum \in 0..Len(text) /\ Len(text) \in Nat
    BY <1>1, Places DEF Inv
  <1>5. StageOK'
    <2>1. next_docs_left' \in 0..MaxDocs
      BY <1>1, <1>4, DocsType DEF Inv
    <2>2. first_occr' # <<>>
      BY <1>0, <1>1, StaticText DEF Inv, StageOK
    <2>3. stage' = "pass2" /\ at' # 0
      BY <1>1, <1>4
    <2> QED
      BY ONLY <2>1, <2>2, <2>3 DEF StageOK
  <1>6. QuietOK'
    BY <1>3 DEF QuietOK
  <1>7. BufOK'
    <2>1. max_mem \in Nat /\ max_mem' = max_mem /\ chunk_file' = chunk_file
      BY <1>0, StaticText DEF Inv, DescribedOK, NeedOK
    <2>2. 8 * Cardinality(Vocabulary) \in Nat
      <3>1. Vocabulary \subseteq Words
        BY DEF Vocabulary, Known, Range, Inv, IInv, CountsOK, OrderOK, IsSeq
      <3>2. Cardinality(Vocabulary) \in Nat
        BY <3>1, WordsFinite, FS_Subset, FS_CardinalityType
      <3> QED
        BY <3>2
    <2>3. PICK m : m = Max({8 * Cardinality(Vocabulary), max_mem})
      OBVIOUS
    <2>4. m \in Nat /\ m >= max_mem
      BY <2>1, <2>2, <2>3, MaxOfTwo
    <2>5. MemBufSize' \in Nat /\ MemBufSize' >= max_mem
      <3>1. MemBufSize \in Nat /\ (MemBufSize = 0 \/ MemBufSize >= max_mem)
        BY <1>2 DEF BufOK
      <3>2. MemBufSize' = IF MemBufSize > 0 THEN MemBufSize ELSE m
        BY <1>1, <2>3
      <3> QED
        BY ONLY <2>4, <3>1, <3>2
    <2>6. BufToUse' = chunk_file'[at'].mem
      BY <1>1, <2>1
    <2> QED
      BY <2>1, <2>5, <2>6 DEF BufOK
  <1>8. PICK L : L = Len(chunk_data)
    OBVIOUS
  <1>9. /\ L \in Nat /\ L <= at /\ L = disk_chunks /\ IsSeq(chunk_data)
        /\ disk_chunks \in 0..ChunkLimit /\ ChunkLimit \in Nat
        /\ \A j \in 1..L : KeptOf(chunk_data[j], First + j)
        /\ First = at - L
    <2>1. Len(chunk_data) = disk_chunks + 0 /\ disk_chunks \in 0..ChunkLimit
          /\ ChunkLimit \in Nat
      BY <1>1, <1>2 DEF HeldOK, Inv, DescribedOK, OptionsOK
    <2> QED
      BY <1>2, <1>8, <2>1 DEF HeldOK, First
  <1>10. /\ IsSeq(chunk_data') /\ Len(chunk_data') = L + 1
         /\ \A j \in 1..L : chunk_data'[j] = chunk_data[j]
         /\ chunk_data'[L + 1] = h
    <2>1. /\ IsSeq(Append(chunk_data, h))
          /\ Len(Append(chunk_data, h)) = Len(chunk_data) + 1
          /\ \A j \in 1..Len(chunk_data) : Append(chunk_data, h)[j] = chunk_data[j]
          /\ Append(chunk_data, h)[Len(chunk_data) + 1] = h
      BY ONLY <1>9, AppendIsSeq
    <2> QED
      BY ONLY <1>1, <1>8, <2>1
  <1>11. First' = First /\ First \in Nat /\ First + (L + 1) = k /\ Cut(First)' = Cut(First)
    <2>1. First' = k - (L + 1)
      BY <1>1, <1>10 DEF First
    <2>2. First = at - L
      BY <1>9
    <2>3. First' = First /\ First \in Nat /\ First + (L + 1) = k
      <3>1. k = at + 1 /\ at \in Nat /\ L \in Nat /\ L <= at
        BY <1>1, <1>4, <1>9
      <3> QED
        BY ONLY <2>1, <2>2, <3>1
    <2> QED
      BY <1>0, <2>3, StaticText DEF Cut
  <1>12. HeldOK'
    <2>1. KeptOf(h, k)
      BY <1>1 DEF KeptOf
    <2>2. ASSUME NEW j \in 1..(L + 1) PROVE KeptOf(chunk_data[j], First + j)'
      <3>1. PICK g, i : g = chunk_data'[j] /\ i = First + j
        OBVIOUS
      <3>2. KeptOf(g, i)
        <4>1. CASE j = L + 1
          BY <1>10, <1>11, <2>1, <3>1, <4>1
        <4>2. CASE j # L + 1
          <5>1. j \in 1..L
            BY <1>9, <4>2
          <5> QED
            BY <1>9, <1>10, <3>1, <5>1
        <4> QED
          BY <4>1, <4>2
      <3>3. KeptOf(g, i)'
        BY <1>0, <3>2, StaticKept
      <3> QED
        BY <1>11, <3>1, <3>3
    <2>3. /\ disk_chunks' \in 0..ChunkLimit' /\ docs_left' > 0
          /\ Len(chunk_data') = disk_chunks' + 1 /\ Len(chunk_data') <= at'
      BY <1>0, <1>1, <1>4, <1>9, <1>10, StaticText
    <2> QED
      BY <1>10, <2>2, <2>3 DEF HeldOK
  <1>13. BufferOK'
    <2>1. PICK c : c = callnum
      OBVIOUS
    <2>2. ASSUME NEW w \in Words
          PROVE  (/\ wr[w].start = RegionStart(chunk_file[at], w)
                  /\ wr[w].codes = Codes(w, Cut(at - 1), callnum, ChunkParam(at, w))
                  /\ wr[w].last = LastDoc(w, Cut(at - 1), callnum))'
      <3>1. PICK b, f : b = ChunkParam(k, w) /\ f = chunk_file[k]
        OBVIOUS
      <3>2. /\ at' = k /\ callnum' = c /\ Cut(k - 1)' = c /\ ChunkParam(k, w)' = b
            /\ chunk_file'[k] = f
        BY <1>0, <1>1, <2>1, <3>1, StaticText, StaticCodes
      <3>3. Codes(w, c, c, b) = <<>> /\ LastDoc(w, c, c) = c
        BY <1>4, <2>1, NoCodes DEF Inv, IInv
      <3>4. Codes(w, c, c, b)' = <<>> /\ LastDoc(w, c, c)' = c
        BY <1>0, <3>3, StaticCodes
      <3>5. RegionStart(f, w)' = RegionStart(f, w)
        BY <1>0, StaticChunks
      <3> QED
        BY <1>1, <2>1, <3>1, <3>2, <3>4, <3>5
    <2> QED
      BY <2>2 DEF BufferOK
  <1>14. ScratchOK' /\ EntryOK'
    <2>1. \A j \in 1..disk_chunks : chunk_data'[j] = chunk_data[j]
      BY <1>9, <1>10
    <2> QED
      BY <1>0, <1>1, <1>2, <1>11, <2>1, DiskSame
  <1>16. PtrsOK'
    <2>1. [w \in Words |-> F(callnum, w)'] = [w \in Words |-> F(callnum, w)]
      BY <1>0, <1>1, StaticText DEF F
    <2>2. no_of_ptrs' = no_of_ptrs
      BY <1>1
    <2> QED
      BY <1>2, <2>1, <2>2, Zenon DEF PtrsOK
  <1> QED
    BY <1>5, <1>6, <1>7, <1>12, <1>13, <1>14, <1>16 DEF RunningOK

\* ProcessDoc2 codes document n, which is d, of chunk k, which started after s.
DocCoded(c, n, k, s, d) ==
  /\ c = callnum /\ n = c + 1 /\ k = at /\ s = Cut(k - 1) /\ d = text[n]
  /\ k \in 1..Len(cuts) /\ s \in 0..Len(text) /\ c \in 0..Len(text) /\ s <= c
  /\ n \in 1..Len(text) /\ n - 1 = c /\ n <= Cut(k) /\ Cut(k) \in Nat
  /\ docs_left > 0 /\ docs_left \in Nat /\ docs_left = Cut(k) - c
  /\ callnum' = n /\ docs_left' = docs_left - 1 /\ stage = "pass2"
  /\ stage' = IF docs_left = 1 THEN "merge" ELSE "pass2"
  /\ no_of_ptrs' = no_of_ptrs + Cardinality(WordsOf(d))
  /\ \A w \in Words :
       /\ wr'[w].start = wr[w].start
       /\ d[w] > 0 => /\ wr'[w].last = n
                      /\ wr'[w].codes
                           = Append(wr[w].codes,
                                    [gap |-> BblockEncode(n - wr[w].last, wr[w].b),
                                     tf  |-> IF InvfLevel >= 2 THEN d[w] ELSE 0])
       /\ ~(d[w] > 0) => wr'[w].last = wr[w].last /\ wr'[w].codes = wr[w].codes
  /\ UNCHANGED <<at, next_docs_left, BufToUse, MemBufSize, chunk_data, chunks,
                 Disk_pos, disk_chunks, isr>>

\* A region that takes one posting more.
RegionCoded(h, n, gap, tf) ==
  [start |-> h.start, last |-> n, b |-> h.b, used |-> h.used + BblockLength(gap, h.b) + tf,
   codes |-> Append(h.codes, [gap |-> BblockEncode(gap, h.b), tf |-> tf])]

LEMMA CodeFacts ==
  ASSUME Inv, ProcessDoc2
  PROVE  \E c, n, k, s, d : DocCoded(c, n, k, s, d)
  <1>1. PICK c, k : c = callnum /\ k = at
    OBVIOUS
  <1>2. PICK n : n = c + 1
    OBVIOUS
  <1>3. PICK d, s : d = text[n] /\ s = Cut(k - 1)
    OBVIOUS
  <1>4. /\ stage = "pass2" /\ docs_left > 0 /\ callnum < Len(text)
        /\ callnum' = n /\ docs_left' = docs_left - 1
        /\ stage' = IF docs_left = 1 THEN "merge" ELSE "pass2"
        /\ no_of_ptrs' = no_of_ptrs + Cardinality(WordsOf(d))
    BY <1>1, <1>2, <1>3 DEF ProcessDoc2
  <1>5. UNCHANGED <<at, next_docs_left, BufToUse, MemBufSize, chunk_data, chunks,
                    Disk_pos, disk_chunks, isr>>
    BY DEF ProcessDoc2, disk
  <1>6. /\ Len(text) \in Nat /\ callnum \in 0..Len(text) /\ at \in 0..Len(cuts)
        /\ docs_left \in Nat /\ docs_left = Cut(at) - callnum /\ Cut(at) \in Nat
        /\ at > 0 => at \in 1..Len(cuts) /\ Cut(at - 1) \in 0..Len(text) /\ Cut(at - 1) <= callnum
        /\ Len(cuts) \in Nat
    BY Places DEF Inv
  <1>7. k > 0
    <2>1. k = 0 => Cut(k) = 0
      BY DEF Cut
    <2> QED
      BY <1>1, <1>4, <1>6, <2>1
  <1>8. /\ k \in 1..Len(cuts) /\ s \in 0..Len(text) /\ c \in 0..Len(text) /\ s <= c
        /\ n \in 1..Len(text) /\ n - 1 = c /\ n <= Cut(k) /\ Cut(k) \in Nat
        /\ docs_left \in Nat /\ docs_left = Cut(k) - c
    BY <1>1, <1>2, <1>3, <1>4, <1>6, <1>7
  <1>9. ASSUME NEW w \in Words
        PROVE  /\ wr'[w].start = wr[w].start
               /\ d[w] > 0 => /\ wr'[w].last = n
                              /\ wr'[w].codes
                                   = Append(wr[w].codes,
                                            [gap |-> BblockEncode(n - wr[w].last, wr[w].b),
                                             tf  |-> IF InvfLevel >= 2 THEN d[w] ELSE 0])
               /\ ~(d[w] > 0) => wr'[w].last = wr[w].last /\ wr'[w].codes = wr[w].codes
    <2>1. PICK gap, tf : gap = n - wr[w].last /\ tf = IF InvfLevel >= 2 THEN d[w] ELSE 0
      OBVIOUS
    <2>2. PICK b, g : b = wr[w].b /\ g = BblockEncode(gap, b)
      OBVIOUS
    <2>3. wr'[w] = IF d[w] > 0
                   THEN [start |-> wr[w].start, last |-> n, b |-> b,
                         used |-> wr[w].used + BblockLength(gap, b) + tf,
                         codes |-> Append(wr[w].codes, [gap |-> g, tf |-> tf])]
                   ELSE wr[w]
      <3>1. wr'[w] = IF text[callnum + 1][w] > 0
                     THEN RegionCoded(wr[w], callnum + 1, callnum + 1 - wr[w].last,
                                      IF InvfLevel >= 2 THEN text[callnum + 1][w] ELSE 0)
                     ELSE wr[w]
        BY Zenon DEF ProcessDoc2, RegionCoded
      <3>2. n = callnum + 1
        BY ONLY <1>1, <1>2
      <3>3. wr'[w] = IF d[w] > 0 THEN RegionCoded(wr[w], n, gap, tf) ELSE wr[w]
        <4>1. text[callnum + 1] = d
          BY ONLY <1>3, <3>2
        <4>2. callnum + 1 - wr[w].last = gap
          <5>1. callnum \in Int /\ wr[w].last \in Int
            <6>1. Coded(w) /\ callnum \in Nat /\ s \in Nat
              BY <1>1, <1>6, <1>7, <1>8 DEF Inv, IInv, CodedOK
            <6>2. wr[w].last \in s..callnum
              BY <1>1, <1>3, <6>1 DEF Coded
            <6> QED
              BY <6>1, <6>2
          <5> QED
            BY ONLY <2>1, <3>2, <5>1
        <4>3. (IF InvfLevel >= 2 THEN text[callnum + 1][w] ELSE 0) = tf
          BY ONLY <2>1, <4>1
        <4>4. wr'[w] = IF text[callnum + 1][w] > 0
                       THEN RegionCoded(wr[w], callnum + 1, gap, tf) ELSE wr[w]
          BY ONLY <3>1, <4>2, <4>3, Zenon
        <4> QED
          BY ONLY <3>2, <4>1, <4>4, Zenon
      <3> QED
        BY ONLY <2>2, <3>3 DEF RegionCoded
    <2> QED
      BY <2>1, <2>2, <2>3
  <1>10. DocCoded(c, n, k, s, d)
    BY ONLY <1>1, <1>2, <1>3, <1>4, <1>5, <1>8, <1>9 DEF DocCoded
  <1> QED
    BY ONLY <1>10, Zenon
\* A document of pass 2.
LEMMA CodeRun ==
  ASSUME Inv, ProcessDoc2
  PROVE  StageOK' /\ QuietOK' /\ RunningOK'
  <1>0. Static
    BY DEF ProcessDoc2, Static
  <1>1. PICK c, n, k, s, d : DocCoded(c, n, k, s, d)
    BY CodeFacts
  <1>a. /\ c = callnum /\ n = c + 1 /\ k = at /\ s = Cut(k - 1) /\ d = text[n]
        /\ k \in 1..Len(cuts) /\ s \in 0..Len(text) /\ c \in 0..Len(text) /\ s <= c
        /\ n \in 1..Len(text) /\ n - 1 = c /\ n <= Cut(k) /\ Cut(k) \in Nat
        /\ docs_left > 0 /\ docs_left \in Nat /\ docs_left = Cut(k) - c
        /\ callnum' = n /\ docs_left' = docs_left - 1 /\ stage = "pass2"
        /\ stage' = IF docs_left = 1 THEN "merge" ELSE "pass2"
        /\ no_of_ptrs' = no_of_ptrs + Cardinality(WordsOf(d))
    BY <1>1 DEF DocCoded
  <1>b. /\ at' = at /\ next_docs_left' = next_docs_left /\ BufToUse' = BufToUse
        /\ MemBufSize' = MemBufSize /\ chunk_data' = chunk_data /\ chunks' = chunks
        /\ Disk_pos' = Disk_pos /\ disk_chunks' = disk_chunks /\ isr' = isr
    BY <1>1 DEF DocCoded
  <1>2. /\ BufOK /\ HeldOK /\ BufferOK /\ ScratchOK /\ EntryOK /\ PtrsOK /\ TotalsOK
    BY <1>a DEF Inv, IInv, RunningOK, Running
  <1>3. /\ stage' \in {"pass2", "merge"} /\ docs_left' \in Nat
        /\ (stage' = "merge" <=> docs_left' = 0) /\ (docs_left' > 0 \/ stage' = "merge")
    BY ONLY <1>a
  <1>4. Running' /\ First' = First /\ \A m : Cut(m)' = Cut(m)
    BY <1>0, <1>3, <1>b, StaticText DEF Running, First
  <1>5. StageOK'
    <2>1. next_docs_left' \in 0..MaxDocs /\ first_occr' # <<>>
      BY <1>0, <1>a, <1>b, StaticText DEF Inv, StageOK
    <2>2. at' # 0 /\ at' > 0 /\ stage' \notin {"pass1", "built", "failed", "done"}
      BY <1>3, <1>a, <1>b
    <2> QED
      BY ONLY <1>3, <2>1, <2>2 DEF StageOK
  <1>6. QuietOK'
    BY <1>4 DEF QuietOK
  <1>7. BufOK'
    <2>1. max_mem' = max_mem /\ chunk_file' = chunk_file
      BY <1>0, StaticText
    <2> QED
      BY ONLY <1>2, <1>b, <2>1 DEF BufOK
  <1>8. HeldOK'
    <2>1. ASSUME NEW j \in 1..Len(chunk_data) PROVE KeptOf(chunk_data[j], First + j)'
      <3>1. PICK g, i : g = chunk_data[j] /\ i = First + j
        OBVIOUS
      <3>2. KeptOf(g, i)
        BY <1>2, <3>1 DEF HeldOK
      <3>3. KeptOf(g, i)'
        BY <1>0, <3>2, StaticKept
      <3>4. chunk_data'[j] = g /\ (First + j)' = i
        BY <1>b, <1>4, <3>1
      <3> QED
        BY <3>3, <3>4
    <2>2. /\ Len(chunk_data) = disk_chunks + 1 /\ Len(chunk_data) <= at /\ IsSeq(chunk_data)
          /\ disk_chunks \in 0..ChunkLimit
      BY <1>2, <1>a DEF HeldOK
    <2>3. ChunkLimit' = ChunkLimit
      BY <1>0, StaticText
    <2>4. PICK L : L = Len(chunk_data)
      OBVIOUS
    <2>5. Len(chunk_data') = L
      BY <1>b, <2>4
    <2>6. /\ (IsSeq(chunk_data))' /\ Len(chunk_data') <= at'
          /\ Len(chunk_data') = disk_chunks' + (IF docs_left' > 0 \/ stage' = "merge" THEN 1 ELSE 0)
          /\ disk_chunks' \in 0..ChunkLimit'
      BY <1>b, <1>3, <2>2, <2>3, <2>4, <2>5
    <2> QED
      BY <1>3, <1>b, <2>1, <2>6 DEF HeldOK
  <1>9. BufferOK'
    <2>1. ASSUME NEW w \in Words
          PROVE  (/\ wr[w].start = RegionStart(chunk_file[at], w)
                  /\ wr[w].codes = Codes(w, Cut(at - 1), callnum, ChunkParam(at, w))
                  /\ wr[w].last = LastDoc(w, Cut(at - 1), callnum))'
      <3>1. PICK b, f : b = ChunkParam(k, w) /\ f = chunk_file[k]
        OBVIOUS
      <3>2. /\ at' = k /\ callnum' = n /\ Cut(k - 1)' = s /\ ChunkParam(k, w)' = b
            /\ chunk_file'[k] = f
        BY <1>0, <1>a, <1>b, <1>4, <3>1, StaticText, StaticCodes
      <3>3. /\ wr[w].start = RegionStart(f, w) /\ wr[w].codes = Codes(w, s, c, b)
            /\ wr[w].last = LastDoc(w, s, c)
        BY <1>2, <1>a, <3>1 DEF BufferOK
      <3>4. wr[w].b = b
        <4>1. Coded(w)
          BY <1>a DEF Inv, IInv, CodedOK
        <4> QED
          BY <1>a, <3>1, <4>1, Zenon DEF Coded, ChunkParam
      <3>5. /\ wr'[w].start = wr[w].start
            /\ wr'[w].codes = Codes(w, s, n, b) /\ wr'[w].last = LastDoc(w, s, n)
        <4>1. CASE d[w] > 0
          <5>1. /\ LastDoc(w, s, n) = n
                /\ Codes(w, s, n, b)
                     = Append(Codes(w, s, c, b),
                              [gap |-> BblockEncode(n - LastDoc(w, s, c), b),
                               tf  |-> IF InvfLevel >= 2 THEN text[n][w] ELSE 0])
            <6>1. /\ TotalsOK /\ w \in Words /\ s \in 0..Len(text) /\ c \in 0..Len(text)
                  /\ s <= c /\ n \in 1..Len(text) /\ n = c + 1 /\ text[n][w] > 0
              BY <1>2, <1>a, <4>1
            <6> QED
              BY ONLY <6>1, CodesStep
          <5>2. /\ wr'[w].start = wr[w].start /\ wr'[w].last = n
                /\ wr'[w].codes
                     = Append(wr[w].codes,
                              [gap |-> BblockEncode(n - wr[w].last, wr[w].b),
                               tf  |-> IF InvfLevel >= 2 THEN d[w] ELSE 0])
            BY <1>1, <4>1 DEF DocCoded
          <5>3. text[n] = d
            BY <1>a
          <5> QED
            BY ONLY <3>3, <3>4, <5>1, <5>2, <5>3, Zenon
        <4>2. CASE ~(d[w] > 0)
          <5>1. F(n, w) = F(c, w)
            <6>1. F(n, w) = F(n - 1, w) + IF text[n][w] > 0 THEN 1 ELSE 0
              BY <1>2, <1>a, CountGrows
            <6>2. F(n - 1, w) \in Nat
              BY <1>2, <1>a, CountGrows
            <6> QED
              BY <1>a, <4>2, <6>1, <6>2, SMTT(60)
          <5>2. Codes(w, s, n, b) = Codes(w, s, c, b) /\ LastDoc(w, s, n) = LastDoc(w, s, c)
            BY <5>1, CodesKept
          <5>3. /\ wr'[w].start = wr[w].start /\ wr'[w].last = wr[w].last
                /\ wr'[w].codes = wr[w].codes
            BY <1>1, <4>2 DEF DocCoded
          <5> QED
            BY <3>3, <5>2, <5>3
        <4> QED
          BY <4>1, <4>2
      <3>6. /\ Codes(w, s, n, b)' = Codes(w, s, n, b) /\ LastDoc(w, s, n)' = LastDoc(w, s, n)
            /\ RegionStart(f, w)' = RegionStart(f, w)
        BY <1>0, StaticCodes, StaticChunks
      <3> QED
        BY <3>2, <3>3, <3>5, <3>6
    <2> QED
      BY <2>1 DEF BufferOK
  <1>10. ScratchOK' /\ EntryOK'
    BY <1>0, <1>2, <1>4, <1>b, DiskSame
  <1>11. PtrsOK'
    <2>1. PICK f, g : f = [w \in Words |-> F(c, w)] /\ g = [w \in Words |-> F(n, w)]
      OBVIOUS
    <2>2. \A w \in Words : f[w] \in Int /\ g[w] = f[w] + IF w \in WordsOf(d) THEN 1 ELSE 0
      <3> SUFFICES ASSUME NEW w \in Words
                   PROVE  f[w] \in Int /\ g[w] = f[w] + IF w \in WordsOf(d) THEN 1 ELSE 0
        OBVIOUS
      <3>1. /\ F(n, w) = F(n - 1, w) + (IF text[n][w] > 0 THEN 1 ELSE 0)
            /\ F(n - 1, w) \in Nat
        BY <1>2, <1>a, CountGrows
      <3>2. w \in WordsOf(d) <=> text[n][w] > 0
        BY <1>a DEF WordsOf
      <3>3. f[w] = F(n - 1, w) /\ g[w] = F(n, w)
        BY <1>a, <2>1
      <3> QED
        BY ONLY <3>1, <3>2, <3>3
    <2>3. WordsOf(d) \in SUBSET Words
      BY DEF WordsOf
    <2>4. SumFunctionOnSet(g, Words) = SumFunctionOnSet(f, Words) + Cardinality(WordsOf(d))
      BY <2>2, <2>3, WordsFinite, SumCount
    <2>5. no_of_ptrs = SumFunctionOnSet(f, Words)
      BY <1>2, <1>a, <2>1, Zenon DEF PtrsOK
    <2>6. no_of_ptrs' = SumFunctionOnSet(g, Words)
      BY ONLY <1>a, <2>4, <2>5
    <2>7. [w \in Words |-> F(callnum, w)'] = g
      BY <1>0, <1>a, <2>1, StaticText DEF F
    <2> QED
      BY <2>6, <2>7, Zenon DEF PtrsOK
  <1> QED
    BY <1>5, <1>6, <1>7, <1>8, <1>9, <1>10, <1>11 DEF RunningOK

\* The buffer is as it was.
LEMMA MemorySame ==
  ASSUME Static, UNCHANGED memory, BufOK, BufferOK, PtrsOK
  PROVE  BufOK' /\ BufferOK' /\ PtrsOK'
  <1>1. UNCHANGED <<at, callnum, docs_left, next_docs_left, BufToUse, MemBufSize, wr,
                    no_of_ptrs, max_mem, chunk_file>>
    BY StaticText DEF memory
  <1>2. BufOK'
    BY <1>1 DEF BufOK
  <1>3. BufferOK'
    <2>1. ASSUME NEW w \in Words, at > 0
          PROVE  (/\ wr[w].start = RegionStart(chunk_file[at], w)
                  /\ wr[w].codes = Codes(w, Cut(at - 1), callnum, ChunkParam(at, w))
                  /\ wr[w].last = LastDoc(w, Cut(at - 1), callnum))'
      <3>1. PICK b, f, s, n : /\ b = ChunkParam(at, w) /\ f = chunk_file[at]
                              /\ s = Cut(at - 1) /\ n = callnum
        OBVIOUS
      <3>2. /\ callnum' = n /\ Cut(at - 1)' = s /\ ChunkParam(at, w)' = b
            /\ chunk_file'[at'] = f /\ wr' = wr
        BY <1>1, <3>1, StaticText, StaticCodes DEF ChunkParam, Cut
      <3>3. /\ wr[w].start = RegionStart(f, w) /\ wr[w].codes = Codes(w, s, n, b)
            /\ wr[w].last = LastDoc(w, s, n)
        BY <2>1, <3>1 DEF BufferOK
      <3>4. /\ Codes(w, s, n, b)' = Codes(w, s, n, b) /\ LastDoc(w, s, n)' = LastDoc(w, s, n)
            /\ RegionStart(f, w)' = RegionStart(f, w)
        BY StaticCodes, StaticChunks
      <3> QED
        BY <3>2, <3>3, <3>4
    <2> QED
      BY <1>1, <2>1 DEF BufferOK
  <1>4. PtrsOK'
    <2>1. [w \in Words |-> F(callnum, w)'] = [w \in Words |-> F(callnum, w)]
      BY <1>1, StaticText DEF F
    <2>2. no_of_ptrs' = no_of_ptrs
      BY <1>1
    <2> QED
      BY <2>1, <2>2, Zenon DEF PtrsOK
  <1> QED
    BY <1>2, <1>3, <1>4

\* A chunk whose documents are all read is coded whole.
LEMMA ImageIs ==
  ASSUME Inv, stage = "merge"
  PROVE  Image = ChunkImage(at)
  <1>1. PICK k, s, e : k = at /\ s = Cut(k - 1) /\ e = Cut(k)
    OBVIOUS
  <1>2. /\ at > 0 /\ docs_left = 0 /\ BufferOK /\ TotalsOK
    BY DEF Inv, StageOK, RunningOK, Running, IInv
  <1>3. /\ k \in 1..Len(cuts) /\ s \in 0..Len(text) /\ e \in 0..Len(text) /\ s <= e
        /\ callnum = e
    BY <1>1, <1>2, Places DEF Inv
  <1>4. ASSUME NEW w \in Words
        PROVE  /\ wr[w].start = RegionStart(chunk_file[k], w)
               /\ wr[w].codes = ChunkCodes(k, w)
               /\ wr[w].codes # <<>> <=> F(e, w) > F(s, w)
    <2>1. PICK b : b = ChunkParam(k, w)
      OBVIOUS
    <2>2. wr[w].start = RegionStart(chunk_file[k], w) /\ wr[w].codes = Codes(w, s, e, b)
      BY <1>1, <1>2, <1>3, <2>1 DEF BufferOK
    <2>3. ChunkCodes(k, w) = Codes(w, s, e, b)
      BY <1>1, <2>1 DEF ChunkCodes
    <2>4. Len(Codes(w, s, e, b)) = F(e, w) - F(s, w)
      BY <1>2, <1>3, CodesAreSeq
    <2>5. F(e, w) \in Nat /\ F(s, w) \in Nat /\ F(s, w) <= F(e, w)
      BY <1>2, <1>3, CountMonotone
    <2>6. CASE F(e, w) = F(s, w)
      <3>1. Codes(w, s, e, b) = <<>>
        BY <1>2, <1>3, <2>6, NoCodes
      <3> QED
        BY <2>2, <2>3, <2>5, <2>6, <3>1
    <2>7. CASE F(e, w) # F(s, w)
      <3>1. PICK q : q = Codes(w, s, e, b)
        OBVIOUS
      <3>2. Len(q) # 0
        BY <2>4, <2>5, <2>7, <3>1
      <3>3. q # <<>>
        BY ONLY <3>2, EmptyIsSeq, Zenon
      <3> QED
        BY <2>2, <2>3, <2>5, <2>7, <3>1, <3>3
    <2> QED
      BY <2>6, <2>7
  <1>5. PICK S : S = {v \in Words : wr[v].codes # <<>>}
    OBVIOUS
  <1>6. S = {v \in Words : F(e, v) > F(s, v)}
    BY <1>4, <1>5
  <1>7. Image = {[start |-> wr[w].start, codes |-> wr[w].codes] : w \in S}
    BY <1>5 DEF Image
  <1>8. ChunkImage(k) = {[start |-> RegionStart(chunk_file[k], w), codes |-> ChunkCodes(k, w)] :
                           w \in S}
    BY <1>1, <1>6 DEF ChunkImage
  <1>9. \A w \in S : /\ wr[w].start = RegionStart(chunk_file[k], w)
                     /\ wr[w].codes = ChunkCodes(k, w)
    BY <1>4, <1>5
  <1> QED
    BY ONLY <1>1, <1>7, <1>8, <1>9

\* A chunk but the last is dumped.
LEMMA DumpRun ==
  ASSUME Inv, DumpChunk
  PROVE  StageOK' /\ QuietOK' /\ RunningOK'
  <1>0. Static
    BY DEF DumpChunk, Static
  <1>1. PICK end, L, new : /\ end = Disk_pos + BufToUse /\ L = Len(chunk_data)
                           /\ new = [pos |-> Disk_pos, len |-> BufToUse, image |-> Image]
    OBVIOUS
  <1>2. /\ stage = "merge" /\ disk_chunks # ChunkLimit /\ next_docs_left # 0
        /\ chunk_data' = [chunk_data EXCEPT ![L].disk_pos = Disk_pos]
        /\ chunks' = {f \in chunks : f.pos + f.len <= Disk_pos \/ f.pos >= end} \cup {new}
        /\ Disk_pos' = end /\ disk_chunks' = disk_chunks + 1 /\ stage' = "pass2"
        /\ isr' = isr /\ UNCHANGED memory
    BY <1>1 DEF DumpChunk, MergeNow
  <1>3. /\ UNCHANGED <<at, callnum, docs_left, next_docs_left, BufToUse>>
        /\ UNCHANGED <<ChunkLimit, text, first_occr, chunk_file>>
    BY <1>0, <1>2, StaticText DEF memory
  <1>4. /\ BufOK /\ HeldOK /\ BufferOK /\ ScratchOK /\ EntryOK /\ PtrsOK
        /\ docs_left = 0 /\ at > 0 /\ next_docs_left \in 0..MaxDocs /\ first_occr # <<>>
    BY <1>2 DEF Inv, RunningOK, Running, StageOK
  <1>5. /\ at \in 1..Len(chunk_file) /\ at < Len(chunk_file) /\ at \in Nat
        /\ chunk_file[at].mem \in Nat \ {0} /\ BufToUse = chunk_file[at].mem
    <2>1. at \in 1..Len(chunk_file) /\ Len(chunk_file) \in Nat
      BY <1>4, Places DEF Inv
    <2>2. next_docs_left = DocsOfChunk(at)
      BY <1>2 DEF Inv, IInv, ReadOK
    <2>3. at < Len(chunk_file)
      BY <1>2, <2>2 DEF DocsOfChunk
    <2>4. chunk_file[at].mem \in Nat /\ chunk_file[at].mem > 0
      BY <2>1, <2>3 DEF Inv, DescribedOK, NeedOK
    <2> QED
      BY <1>4, <2>1, <2>3, <2>4 DEF BufOK
  <1>6. /\ IsSeq(chunk_data) /\ L \in Nat /\ L = disk_chunks + 1 /\ L <= at
        /\ disk_chunks \in 0..ChunkLimit /\ ChunkLimit \in Nat /\ L \in 1..L
        /\ disk_chunks \in Nat /\ First = at - L /\ First + L = at
        /\ \A j \in 1..L : KeptOf(chunk_data[j], First + j)
    <2>1. Len(chunk_data) = disk_chunks + 1 /\ disk_chunks \in 0..ChunkLimit
      BY <1>2, <1>4 DEF HeldOK
    <2>2. ChunkLimit \in Nat
      BY DEF Inv, DescribedOK, OptionsOK
    <2>3. /\ IsSeq(chunk_data) /\ Len(chunk_data) <= at
          /\ \A j \in 1..Len(chunk_data) : KeptOf(chunk_data[j], First + j)
      BY <1>4 DEF HeldOK
    <2>4. First = at - L
      BY <1>1 DEF First
    <2>5. L \in Nat /\ L = disk_chunks + 1 /\ L <= at /\ at \in Nat
      BY <1>1, <1>5, <2>1, <2>2, <2>3
    <2>6. L \in 1..L /\ disk_chunks \in Nat /\ First + L = at
      BY <2>1, <2>2, <2>4, <2>5
    <2> QED
      BY <1>1, <2>1, <2>2, <2>3, <2>4, <2>5, <2>6
  <1>7. /\ IsSeq(chunk_data') /\ Len(chunk_data') = L
        /\ \A j \in 1..L : j # L => chunk_data'[j] = chunk_data[j]
        /\ chunk_data'[L] = [chunk_data[L] EXCEPT !.disk_pos = Disk_pos]
    <2>1. DOMAIN chunk_data = 1..L
      <3>1. PICK S : chunk_data \in Seq(S)
        BY <1>6 DEF IsSeq
      <3> QED
        BY ONLY <1>1, <3>1
    <2>2. chunk_data' = [j \in 1..L |-> IF j = L
                                        THEN [chunk_data[L] EXCEPT !.disk_pos = Disk_pos]
                                        ELSE chunk_data[j]]
      BY <1>2, <2>1
    <2>3. chunk_data' = [j \in 1..L |-> chunk_data'[j]]
      BY <2>2
    <2>4. IsSeq(chunk_data') /\ Len(chunk_data') = L
      BY ONLY <1>6, <2>3, FunctionIsSeq
    <2> QED
      BY <1>6, <2>2, <2>4
  <1>8. First' = First /\ Running'
    <2>1. First' = at - L
      BY <1>3, <1>7 DEF First
    <2> QED
      BY <1>2, <1>6, <2>1 DEF Running
  <1>9. PICK h : h = chunk_data'[L]
    OBVIOUS
  <1>10. KeptOf(h, at) /\ h.disk_pos = Disk_pos
    <2>1. KeptOf(chunk_data[L], at)
      BY <1>6
    <2>2. PICK g : g = chunk_data[L]
      OBVIOUS
    <2>3. h = [g EXCEPT !.disk_pos = Disk_pos]
      BY <1>7, <1>9, <2>2
    <2>4. g = [start_doc |-> g.start_doc, N |-> g.N, disk_pos |-> g.disk_pos,
               params |-> g.params]
      BY <2>1, <2>2 DEF KeptOf
    <2>5. h = [start_doc |-> g.start_doc, N |-> g.N, disk_pos |-> Disk_pos,
               params |-> g.params]
      BY ONLY <2>3, <2>4
    <2> QED
      BY <2>1, <2>2, <2>5 DEF KeptOf
  <1>11. BufOK' /\ BufferOK' /\ PtrsOK'
    BY <1>0, <1>2, <1>4, MemorySame
  <1>12. StageOK'
    BY <1>2, <1>3, <1>4 DEF StageOK
  <1>13. QuietOK'
    BY <1>8 DEF QuietOK
  <1>14. HeldOK'
    <2>1. ASSUME NEW j \in 1..L PROVE KeptOf(chunk_data[j], First + j)'
      <3>1. PICK g, i : g = chunk_data'[j] /\ i = First + j
        OBVIOUS
      <3>2. KeptOf(g, i)
        BY <1>6, <1>7, <1>9, <1>10, <3>1
      <3>3. KeptOf(g, i)'
        BY <1>0, <3>2, StaticKept
      <3> QED
        BY <1>8, <3>1, <3>3
    <2>2. /\ disk_chunks' \in 0..ChunkLimit' /\ docs_left' = 0 /\ at' < Len(chunk_file')
          /\ Len(chunk_data') = disk_chunks' + 0 /\ Len(chunk_data') <= at'
      BY <1>2, <1>3, <1>4, <1>5, <1>6, <1>7
    <2> QED
      BY <1>2, <1>7, <2>1, <2>2 DEF HeldOK
  <1>15. new = Dumped(Disk_pos, at)
    BY <1>1, <1>2, <1>5, ImageIs DEF Dumped
  <1>16. EntryOK'
    <2>1. ASSUME NEW w \in Words
          PROVE  (isr[w].B \in Operand /\ EntryUpTo(isr[w], w, Cut(First)))'
      <3>1. PICK s, n : s = isr[w] /\ n = Cut(First)
        OBVIOUS
      <3>2. s.B \in Operand /\ EntryUpTo(s, w, n)
        BY <1>4, <3>1 DEF EntryOK
      <3>3. isr'[w] = s /\ Cut(First)' = n
        BY <1>0, <1>2, <1>8, <3>1, StaticText DEF Cut
      <3>4. EntryUpTo(s, w, n)'
        BY <1>0, <3>2, StaticKept
      <3> QED
        BY <3>2, <3>3, <3>4
    <2> QED
      BY <2>1 DEF EntryOK
  <1>17. ScratchOK'
    <2>1. /\ Disk_pos \in Nat /\ end \in Nat /\ Disk_pos < end /\ BufToUse \in Nat \ {0}
          /\ end = Disk_pos + BufToUse
      BY <1>1, <1>4, <1>5 DEF ScratchOK
    <2>2. new.pos = Disk_pos /\ new.len = BufToUse
      BY <1>1
    <2>3. \A f \in chunks : f.pos \in Nat /\ f.len \in Nat \ {0}
      BY <1>4 DEF ScratchOK
    <2>4. \A f \in chunks' : f.pos \in Nat /\ f.len \in Nat \ {0}
      BY <1>2, <2>1, <2>2, <2>3
    <2>5. ASSUME NEW f \in chunks', NEW g \in chunks'
          PROVE  f = g \/ f.pos + f.len <= g.pos \/ g.pos + g.len <= f.pos
      <3>1. CASE f \in chunks /\ g \in chunks
        BY <1>4, <3>1 DEF ScratchOK
      <3>2. ASSUME NEW x \in chunks', x # new
            PROVE  x.pos + x.len <= new.pos \/ new.pos + new.len <= x.pos
        BY <1>2, <2>1, <2>2, <2>3, <3>2
      <3>3. f = new \/ f \in chunks
        BY <1>2
      <3>4. g = new \/ g \in chunks
        BY <1>2
      <3> QED
        BY <3>1, <3>2, <3>3, <3>4
    <2>6. ASSUME NEW j \in 1..(disk_chunks + 1)
          PROVE  (/\ chunk_data[j].disk_pos + chunk_file[First + j].mem <= Disk_pos
                  /\ Dumped(chunk_data[j].disk_pos, First + j) \in chunks)'
      <3>1. PICK g, i : g = chunk_data'[j] /\ i = First + j
        OBVIOUS
      <3>2. Dumped(g.disk_pos, i)' = Dumped(g.disk_pos, i)
        BY <1>0, StaticKept
      <3>3. g.disk_pos + chunk_file[i].mem <= end /\ Dumped(g.disk_pos, i) \in chunks'
        <4>1. CASE j = L
          <5>1. i = at /\ g.disk_pos = Disk_pos
            BY <1>6, <1>9, <1>10, <3>1, <4>1
          <5> QED
            BY <1>2, <1>5, <1>15, <2>1, <5>1
        <4>2. CASE j # L
          <5>1. j \in 1..disk_chunks /\ j \in 1..L
            BY <1>6, <4>2
          <5>2. g = chunk_data[j]
            BY <1>7, <3>1, <4>2, <5>1
          <5>3. g.disk_pos + chunk_file[i].mem <= Disk_pos /\ Dumped(g.disk_pos, i) \in chunks
            BY <1>4, <3>1, <5>1, <5>2 DEF ScratchOK
          <5>4. PICK f : f = Dumped(g.disk_pos, i)
            OBVIOUS
          <5>5. f.pos = g.disk_pos /\ f.len = chunk_file[i].mem
            BY <5>4 DEF Dumped
          <5>6. f \in chunks' /\ f.pos + f.len <= Disk_pos /\ f.pos \in Nat /\ f.len \in Nat
            BY <1>2, <2>3, <5>3, <5>4, <5>5
          <5> QED
            BY <2>1, <5>4, <5>5, <5>6
        <4> QED
          BY <4>1, <4>2
      <3> QED
        BY <1>2, <1>3, <1>8, <3>1, <3>2, <3>3
    <2> QED
      BY <1>2, <2>1, <2>4, <2>5, <2>6 DEF ScratchOK
  <1> QED
    BY <1>11, <1>12, <1>13, <1>14, <1>16, <1>17 DEF RunningOK
----------------------------------------------------------------------------
(* Merging.                                                                *)

LEMMA ChunkSized ==
  ASSUME TotalsOK, ChunksOK, NEW k \in 1..Len(cuts)
  PROVE  Sized(chunk_file[k])
  BY RegionType DEF Sized

\* The place of a word's codes in the image of a chunk is no other word's.
LEMMA ImageLookup ==
  ASSUME TotalsOK, ChunksOK, NEW k \in 1..Len(cuts), NEW w \in Words,
         F(Cut(k), w) > F(Cut(k - 1), w)
  PROVE  (CHOOSE r \in ChunkImage(k) : r.start = RegionStart(chunk_file[k], w)).codes
           = ChunkCodes(k, w)
  <1>1. PICK c, S : c = chunk_file[k] /\ S = {v \in Words : F(Cut(k), v) > F(Cut(k - 1), v)}
    OBVIOUS
  <1>2. PICK image : image = ChunkImage(k)
    OBVIOUS
  <1>3. image = {[start |-> RegionStart(c, v), codes |-> ChunkCodes(k, v)] : v \in S}
    BY <1>1, <1>2 DEF ChunkImage
  <1>4. w \in S /\ S \subseteq Words
    BY <1>1
  <1>5. PICK x : x = [start |-> RegionStart(c, w), codes |-> ChunkCodes(k, w)]
    OBVIOUS
  <1>6. x \in image /\ x.start = RegionStart(c, w) /\ x.codes = ChunkCodes(k, w)
    BY <1>3, <1>4, <1>5
  <1>7. Sized(c)
    BY <1>1, ChunkSized
  <1>8. \A v \in S : Region(c, v) \in Nat /\ Region(c, v) > 0
    <2> SUFFICES ASSUME NEW v \in S PROVE Region(c, v) \in Nat /\ Region(c, v) > 0
      OBVIOUS
    <2>1. v \in Words /\ F(Cut(k), v) > F(Cut(k - 1), v)
      BY <1>1
    <2>2. /\ Region(c, v) \in Nat /\ CountsIn(c, v).fcnt = F(Cut(k), v) - F(Cut(k - 1), v)
          /\ CountsIn(c, v).fcnt > 0 => Region(c, v) > 0
      BY <1>1, <2>1, RegionType
    <2>3. F(Cut(k), v) \in Int /\ F(Cut(k - 1), v) \in Int
      <3>1. Cut(k) \in 0..Len(text) /\ Cut(k - 1) \in 0..Len(text)
        BY <2>1, ChunkFacts
      <3> QED
        BY <2>1, <3>1 DEF TotalsOK
    <2> QED
      BY <2>1, <2>2, <2>3
  <1>9. ASSUME NEW r \in image, r.start = RegionStart(c, w)
        PROVE  r.codes = ChunkCodes(k, w)
    <2>1. PICK v \in S : r = [start |-> RegionStart(c, v), codes |-> ChunkCodes(k, v)]
      BY <1>3
    <2>2. RegionStart(c, v) = RegionStart(c, w) /\ r.codes = ChunkCodes(k, v)
      BY <1>9, <2>1
    <2>3. v \in Words /\ v \in Nat /\ w \in Nat
      BY <1>4, WordsFinite
    <2>4. CASE v < w
      <3>1. /\ RegionStart(c, v) \in Nat /\ RegionStart(c, w) \in Nat
            /\ RegionStart(c, v) + Region(c, v) <= RegionStart(c, w)
        BY <1>7, <2>3, <2>4, StartOrder
      <3> QED
        BY <1>8, <2>2, <3>1
    <2>5. CASE w < v
      <3>1. /\ RegionStart(c, v) \in Nat /\ RegionStart(c, w) \in Nat
            /\ RegionStart(c, w) + Region(c, w) <= RegionStart(c, v)
        BY <1>7, <2>3, <2>5, StartOrder
      <3> QED
        BY <1>4, <1>8, <2>2, <3>1
    <2>6. CASE v = w
      BY <2>2, <2>6
    <2> QED
      BY <2>3, <2>4, <2>5, <2>6
  <1>10. PICK y : y = CHOOSE r \in image : r.start = RegionStart(c, w)
    OBVIOUS
  <1>11. y \in image /\ y.start = RegionStart(c, w)
    BY <1>6, <1>10
  <1>12. y.codes = ChunkCodes(k, w)
    BY <1>9, <1>11
  <1> QED
    BY ONLY <1>1, <1>2, <1>10, <1>12

\* A chunk is found where it was dumped.
LEMMA ScratchLookup ==
  ASSUME ScratchOK, NEW j \in 1..disk_chunks
  PROVE  (CHOOSE f \in chunks : f.pos = chunk_data[j].disk_pos).image = ChunkImage(First + j)
  <1>1. PICK x : x = Dumped(chunk_data[j].disk_pos, First + j)
    OBVIOUS
  <1>2. /\ x \in chunks /\ x.pos = chunk_data[j].disk_pos /\ x.image = ChunkImage(First + j)
    BY <1>1 DEF ScratchOK, Dumped
  <1>3. ASSUME NEW f \in chunks, f.pos = x.pos PROVE f = x
    BY <1>2, <1>3 DEF ScratchOK
  <1>4. PICK y : y = CHOOSE f \in chunks : f.pos = chunk_data[j].disk_pos
    OBVIOUS
  <1>5. y \in chunks /\ y.pos = chunk_data[j].disk_pos
    BY <1>2, <1>4
  <1>6. y = x
    BY <1>2, <1>3, <1>5
  <1> QED
    BY ONLY <1>2, <1>4, <1>6

\* What is kept of a chunk leads to its codes.
LEMMA HeldCodes ==
  ASSUME Inv, stage = "merge", NEW w \in Words, NEW j \in 1..Len(chunk_data)
  PROVE  First + j \in 1..Len(cuts) /\ HeldFor(j, First + j, w)
  <1>1. PICK k, L, c, h : k = First + j /\ L = Len(chunk_data) /\ c = chunk_file[k]
                          /\ h = chunk_data[j]
    OBVIOUS
  <1>2. HeldOK /\ ScratchOK /\ TotalsOK /\ ChunksOK
    BY DEF Inv, IInv, RunningOK, Running
  <1>3. /\ L \in Nat /\ L <= at /\ L = disk_chunks + 1 /\ disk_chunks \in Nat /\ at \in Nat
        /\ at \in 0..Len(cuts) /\ Len(cuts) \in Nat /\ First = at - L
    <2>1. /\ Len(chunk_data) = disk_chunks + 1 /\ Len(chunk_data) <= at
          /\ disk_chunks \in 0..ChunkLimit
      BY <1>2 DEF HeldOK
    <2>2. ChunkLimit \in Nat
      BY DEF Inv, DescribedOK, OptionsOK
    <2>3. at \in 0..Len(cuts) /\ Len(cuts) \in Nat
      BY Places DEF Inv
    <2>4. First = at - L
      BY <1>1 DEF First
    <2> QED
      BY <1>1, <2>1, <2>2, <2>3, <2>4
  <1>4. k \in 1..Len(cuts) /\ (j = L => k = at) /\ (j # L => j \in 1..disk_chunks)
    BY <1>1, <1>3
  <1>5. KeptOf(h, k)
    BY <1>1, <1>2 DEF HeldOK
  <1>6. /\ h.start_doc = Cut(k - 1) /\ h.N = Cut(k) - Cut(k - 1)
        /\ h.params[w].p = F(Cut(k), w) - F(Cut(k - 1), w)
    <2>1. CountsIn(c, w).fcnt = F(Cut(k), w) - F(Cut(k - 1), w)
      BY <1>1, <1>2, <1>4, RegionType
    <2> QED
      BY <1>1, <1>5, <2>1 DEF KeptOf
  <1>7. ASSUME F(Cut(k), w) > F(Cut(k - 1), w)
        PROVE  CodesAt(j, ChunkPtr(j, w)) = ChunkCodes(k, w)
    <2>1. Sized(c)
      BY <1>1, <1>2, <1>4, ChunkSized
    <2>2. Kept(j, c)
      <3>1. \A u \in Words : CountsIn(c, u).fcnt \in Nat
        BY <1>1, <1>2, <1>4, RegionType
      <3>2. \A u \in Words : h.params[u].p = CountsIn(c, u).fcnt
                             /\ h.params[u].delta = Delta(c, u)
        BY <1>1, <1>5 DEF KeptOf
      <3> QED
        BY ONLY <1>1, <3>1, <3>2 DEF Kept
    <2>3. CountsIn(c, w).fcnt > 0
      <3>1. CountsIn(c, w).fcnt = F(Cut(k), w) - F(Cut(k - 1), w)
        BY <1>1, <1>2, <1>4, RegionType
      <3>2. F(Cut(k), w) \in Int /\ F(Cut(k - 1), w) \in Int
        <4>1. Cut(k) \in 0..Len(text) /\ Cut(k - 1) \in 0..Len(text)
          BY <1>2, <1>4, ChunkFacts
        <4> QED
          BY <1>2, <4>1 DEF TotalsOK
      <3> QED
        BY <1>7, <3>1, <3>2
    <2>4. ChunkPtr(j, w) = RegionStart(c, w)
      BY <2>1, <2>2, <2>3, ChunkPtrIs
    <2> DEFINE image == IF j = Len(chunk_data) THEN Image
                        ELSE (CHOOSE f \in chunks : f.pos = chunk_data[j].disk_pos).image
    <2>6. image = ChunkImage(k)
      <3>1. CASE j = L
        BY <1>1, <1>4, <3>1, ImageIs
      <3>2. CASE j # L
        BY <1>1, <1>2, <1>4, <3>2, ScratchLookup
      <3> QED
        BY <3>1, <3>2
    <2>7. CodesAt(j, RegionStart(c, w)) = (CHOOSE r \in image : r.start = RegionStart(c, w)).codes
      BY Zenon DEF CodesAt
    <2> HIDE DEF image
    <2>8. (CHOOSE r \in ChunkImage(k) : r.start = RegionStart(chunk_file[k], w)).codes
            = ChunkCodes(k, w)
      BY <1>2, <1>4, <1>7, ImageLookup
    <2> QED
      BY ONLY <1>1, <2>4, <2>6, <2>7, <2>8
  <1> QED
    BY <1>1, <1>4, <1>6, <1>7 DEF HeldFor

\* Merging n of the chunks kept takes an entry to the end of the n-th.
LEMMA MergedUpTo ==
  ASSUME Inv, stage = "merge", NEW w \in Words, NEW m \in 0..Len(chunk_data)
  PROVE  EntryUpTo(MergedEntry(w, m), w, Cut(First + m)) /\ MergedEntry(w, m).B = isr[w].B
  <1> DEFINE P(i) == /\ EntryUpTo(MergedEntry(w, i), w, Cut(First + i))
                     /\ MergedEntry(w, i).B = isr[w].B
             G == {i \in Nat : i <= Len(chunk_data) => P(i)}
  <1>1. HeldOK /\ EntryOK /\ TotalsOK /\ ChunksOK
    BY DEF Inv, IInv, RunningOK, Running
  <1>2. First \in Nat /\ Len(chunk_data) \in Nat
    <2>1. at \in Nat
      BY Places DEF Inv
    <2>2. Len(chunk_data) \in Nat
      BY <1>1, AppendIsSeq DEF HeldOK
    <2>3. Len(chunk_data) <= at
      BY <1>1 DEF HeldOK
    <2> QED
      BY <2>1, <2>2, <2>3 DEF First
  <1>3. 0 \in G
    <2>1. EntryUpTo(isr[w], w, Cut(First))
      BY <1>1 DEF EntryOK
    <2>2. MergedEntry(w, 0) = isr[w] /\ First + 0 = First
      BY <1>2, MergedUnfolded
    <2>3. P(0)
      BY ONLY <2>1, <2>2
    <2> QED
      BY <2>3
  <1>4. ASSUME NEW i \in Nat, i \in G PROVE i + 1 \in G
    <2>1. SUFFICES ASSUME i + 1 <= Len(chunk_data) PROVE P(i + 1)
      OBVIOUS
    <2>2. P(i) /\ i + 1 \in 1..Len(chunk_data)
      BY <1>2, <1>4, <2>1
    <2>3. PICK j, k : j = i + 1 /\ k = First + j
      OBVIOUS
    <2>4. k \in 1..Len(cuts) /\ HeldFor(j, k, w)
      BY <2>2, <2>3, HeldCodes
    <2>5. k - 1 = First + i
      BY <1>2, <2>3
    <2>6. PICK s : s = MergedEntry(w, i)
      OBVIOUS
    <2>7. EntryUpTo(s, w, Cut(k - 1)) /\ s.B = isr[w].B /\ s.B \in Operand
      BY <1>1, <2>2, <2>5, <2>6 DEF EntryOK
    <2>8. EntryUpTo(Extended(s, j, w), w, Cut(k)) /\ Extended(s, j, w).B = s.B
      BY <1>1, <2>4, <2>7, ExtendedStep
    <2>9. MergedEntry(w, i + 1) = Extended(s, j, w)
      BY <2>3, <2>6, MergedUnfolded
    <2> QED
      BY ONLY <2>3, <2>7, <2>8, <2>9
  <1> HIDE DEF G, P
  <1>5. Nat \subseteq G
    BY <1>3, <1>4, NatInductionOnSet
  <1>6. m \in G /\ m <= Len(chunk_data)
    BY <1>2, <1>5
  <1>7. P(m)
    BY ONLY <1>6 DEF G
  <1> QED
    BY <1>7 DEF P

\* The chunks kept are merged.
LEMMA MergeRun ==
  ASSUME Inv, DiskMerge
  PROVE  StageOK' /\ QuietOK' /\ RunningOK'
  <1>0. Static
    BY DEF DiskMerge, Static
  <1>1. /\ stage = "merge" /\ stage' = "pass2" /\ chunk_data' = <<>>
        /\ isr' = [w \in Words |-> MergedEntry(w, MergedChunks)]
        /\ Disk_pos' = 0 /\ disk_chunks' = 0 /\ chunks' = chunks /\ UNCHANGED memory
    BY DEF DiskMerge
  <1>2. /\ UNCHANGED <<at, callnum, docs_left, next_docs_left, BufToUse>>
        /\ UNCHANGED <<ChunkLimit, text, first_occr, chunk_file>>
    BY <1>0, <1>1, StaticText DEF memory
  <1>3. /\ BufOK /\ HeldOK /\ BufferOK /\ ScratchOK /\ EntryOK /\ PtrsOK
        /\ docs_left = 0 /\ at > 0 /\ next_docs_left \in 0..MaxDocs /\ first_occr # <<>>
    BY <1>1 DEF Inv, RunningOK, Running, StageOK
  <1>4. at \in Nat /\ ChunkLimit \in Nat
    BY Places DEF Inv, DescribedOK, OptionsOK
  <1>5. IsSeq(chunk_data') /\ Len(chunk_data') = 0
    BY ONLY <1>1, EmptyIsSeq, Zenon
  <1>6. First' = at /\ Running'
    <2>1. at' = at
      BY <1>2
    <2>2. First' = at - 0
      BY ONLY <1>5, <2>1 DEF First
    <2> QED
      BY <1>1, <1>4, <2>2 DEF Running
  <1>7. BufOK' /\ BufferOK' /\ PtrsOK'
    BY <1>0, <1>1, <1>3, MemorySame
  <1>8. StageOK'
    BY <1>1, <1>2, <1>3 DEF StageOK
  <1>9. QuietOK'
    BY <1>6 DEF QuietOK
  <1>10. HeldOK'
    <2>1. disk_chunks' = 0 /\ docs_left' = 0 /\ stage' # "merge" /\ at' \in Nat /\ ChunkLimit' \in Nat
      BY <1>1, <1>2, <1>3, <1>4
    <2> QED
      BY ONLY <1>5, <2>1 DEF HeldOK
  <1>11. ScratchOK'
    BY <1>1, <1>3 DEF ScratchOK
  <1>12. EntryOK'
    <2>1. PICK L : L = Len(chunk_data)
      OBVIOUS
    <2>2. L \in Nat /\ L \in 0..L /\ First + L = at
      <3>1. L \in Nat /\ L <= at
        BY <1>3, <2>1, AppendIsSeq DEF HeldOK
      <3>2. First = at - L
        BY <2>1 DEF First
      <3> QED
        BY <1>4, <3>1, <3>2
    <2>3. ASSUME NEW w \in Words
          PROVE  (isr[w].B \in Operand /\ EntryUpTo(isr[w], w, Cut(First)))'
      <3>1. PICK s, n : s = MergedEntry(w, L) /\ n = Cut(at)
        OBVIOUS
      <3>2. EntryUpTo(s, w, n) /\ s.B = isr[w].B
        BY <1>1, <2>1, <2>2, <3>1, MergedUpTo
      <3>3. s.B \in Operand
        BY <1>3, <3>2 DEF EntryOK
      <3>4. isr'[w] = s
        BY <1>1, <2>1, <3>1 DEF MergedChunks
      <3>5. Cut(First)' = n
        BY <1>0, <1>6, <3>1, StaticText DEF Cut
      <3>6. EntryUpTo(s, w, n)'
        BY <1>0, <3>2, StaticKept
      <3> QED
        BY <3>3, <3>4, <3>5, <3>6
    <2> QED
      BY <2>3 DEF EntryOK
  <1> QED
    BY <1>7, <1>8, <1>9, <1>10, <1>11, <1>12 DEF RunningOK
----------------------------------------------------------------------------
(* The invariant.                                                          *)

\* The end of pass 2, or no step at all.
LEMMA SameRun ==
  ASSUME Inv, Static, UNCHANGED memory, UNCHANGED disk,
         stage' = stage \/ (stage = "pass2" /\ stage' = "done" /\ callnum = Len(text))
  PROVE  StageOK' /\ QuietOK' /\ RunningOK'
  <1>1. /\ UNCHANGED <<at, callnum, docs_left, next_docs_left, BufToUse, MemBufSize, wr,
                       no_of_ptrs, chunk_data, chunks, Disk_pos, disk_chunks, isr>>
        /\ UNCHANGED <<ChunkLimit, text, first_occr, chunk_file>>
    BY StaticText DEF memory, disk
  <1>2. Running' <=> Running
    BY DEF Running
  <1>3. StageOK'
    <2>1. StageOK
      BY DEF Inv
    <2>2. CASE stage' = stage
      BY <1>1, <2>1, <2>2 DEF StageOK
    <2>3. CASE stage = "pass2" /\ stage' = "done" /\ callnum = Len(text)
      BY <1>1, <2>1, <2>3 DEF StageOK
    <2> QED
      BY <2>2, <2>3
  <1>4. QuietOK'
    BY <1>1, <1>2 DEF Inv, QuietOK
  <1>5. ASSUME Running PROVE BufOK' /\ HeldOK' /\ BufferOK' /\ ScratchOK' /\ EntryOK' /\ PtrsOK'
    <2>1. BufOK /\ HeldOK /\ BufferOK /\ ScratchOK /\ EntryOK /\ PtrsOK
      BY <1>5 DEF Inv, RunningOK
    <2>2. BufOK' /\ BufferOK' /\ PtrsOK'
      BY <2>1, MemorySame
    <2>3. First' = First
      BY <1>1 DEF First
    <2>4. ScratchOK' /\ EntryOK'
      BY <1>1, <2>1, <2>3, DiskSame
    <2>5. HeldOK'
      <3>1. ASSUME NEW j \in 1..Len(chunk_data) PROVE KeptOf(chunk_data[j], First + j)'
        <4>1. PICK g, i : g = chunk_data[j] /\ i = First + j
          OBVIOUS
        <4>2. KeptOf(g, i)'
          BY <2>1, <4>1, StaticKept DEF HeldOK
        <4> QED
          BY <1>1, <2>3, <4>1, <4>2
      <3>2. stage' = stage \/ (docs_left = 0 /\ stage # "merge" /\ stage' # "merge")
        <4>1. docs_left \in Nat /\ docs_left = Cut(at) - callnum /\ Cut(at) \in 0..Len(text)
          BY Places DEF Inv
        <4> QED
          BY <4>1
      <3> QED
        BY <1>1, <2>1, <3>1, <3>2 DEF HeldOK
    <2> QED
      BY <2>2, <2>4, <2>5
  <1> QED
    BY <1>2, <1>3, <1>4, <1>5 DEF RunningOK

\* Pass 1 does not touch the variables of pass 2.
LEMMA Pass1Run ==
  ASSUME Inv, stage = "pass1", UNCHANGED memory, UNCHANGED disk,
         \/ stage' = "pass1"
         \/ stage' \in {"built", "failed"} /\ (stage' = "failed" <=> first_occr' = <<>>)
  PROVE  StageOK' /\ QuietOK' /\ RunningOK'
  <1>1. UNCHANGED <<at, callnum, docs_left, next_docs_left, BufToUse, MemBufSize, wr,
                    no_of_ptrs, chunk_data, chunks, Disk_pos, disk_chunks, isr>>
    BY DEF memory, disk
  <1>2. ~Running /\ ~Running'
    BY DEF Running
  <1>3. QuietOK'
    BY <1>1, <1>2 DEF Inv, QuietOK
  <1>4. StageOK'
    <2>1. StageOK
      BY DEF Inv
    <2> QED
      BY <1>1, <2>1 DEF StageOK
  <1> QED
    BY <1>2, <1>3, <1>4 DEF RunningOK

LEMMA InitInv == Init => Inv
  <1> SUFFICES ASSUME Init PROVE Inv
    OBVIOUS
  <1>1. /\ text = <<>> /\ cuts = <<>> /\ chunk_file = <<>> /\ first_occr = <<>>
        /\ stage = "pass1" /\ lcallnum = 0 /\ ptrcnt = 0 /\ max_mem = 0
        /\ checknum = FirstCheck
        /\ invf_buffer_size \in BufferSizes /\ ChunkLimit \in ChunkLimits
        /\ at = 0 /\ callnum = 0 /\ docs_left = 0 /\ next_docs_left = 0
        /\ BufToUse = 0 /\ MemBufSize = 0 /\ no_of_ptrs = 0
        /\ wr = [w \in Words |->
                   [start |-> 0, used |-> 0, codes |-> <<>>, last |-> 0, b |-> 1]]
        /\ chunk_data = <<>> /\ chunks = {} /\ Disk_pos = 0 /\ disk_chunks = 0
    BY DEF Init
  <1>2. IInv /\ EndOK
    BY <1>1, InitIInv DEF EndOK
  <1>3. OptionsOK
    BY <1>1, OptionsAssumption DEF OptionsOK
  <1>4. VocabOK
    BY <1>1, EmptyIsSeq DEF VocabOK
  <1>5. NeedOK
    BY <1>1, EmptyIsSeq DEF NeedOK
  <1>6. CheckOK
    BY <1>1, <1>3, CheckPositive DEF CheckOK
  <1>7. StageOK
    <2>1. 0 \in 0..MaxDocs
      BY MaxDocsAssumption, ShlType DEF MaxLog
    <2> QED
      BY <1>1, <2>1 DEF StageOK, NoRegion
  <1>8. QuietOK
    BY <1>1 DEF QuietOK
  <1>9. RunningOK
    BY <1>1 DEF RunningOK, Running
  <1> QED
    BY <1>2, <1>3, <1>4, <1>5, <1>6, <1>7, <1>8, <1>9 DEF Inv, DescribedOK

LEMMA StepInv == Inv /\ [Next]_vars => Inv'
  <1> SUFFICES ASSUME Inv, [Next]_vars PROVE Inv'
    OBVIOUS
  <1>1. IInv' /\ EndOK'
    BY StepIInv, StepEndOK DEF Inv
  <1>2. TotalsOK /\ CountsOK /\ ChunksOK /\ DescribedOK
    BY DEF Inv, IInv
  <1>3. ASSUME NEW d \in Documents, NEW fresh \in FirstOccurrences(d), ProcessDoc1(d, fresh)
        PROVE  DescribedOK' /\ StageOK' /\ QuietOK' /\ RunningOK'
    <2>1. DescribedOK'
      BY <1>2, <1>3, DocDescribed
    <2>2. stage = "pass1" /\ stage' = "pass1" /\ UNCHANGED memory /\ UNCHANGED disk
      <3>1. stage = "pass1" /\ UNCHANGED <<options, stage, memory, disk, invf_idx>>
        BY <1>3, ZenonT(60) DEF ProcessDoc1
      <3> QED
        BY ONLY <3>1
    <2> QED
      BY <2>1, <2>2, Pass1Run
  <1>4. CASE Done1
    <2>1. DescribedOK' /\ (stage' = "failed" <=> first_occr' = <<>>)
          /\ stage' \in {"built", "failed"}
      BY <1>2, <1>4, DoneDescribed
    <2>2. stage = "pass1" /\ UNCHANGED memory /\ UNCHANGED disk
      BY <1>4 DEF Done1
    <2> QED
      BY <1>1, <2>1, <2>2, Pass1Run DEF Inv
  <1>5. ASSUME Static, stage' = "pass1" => stage = "pass1" PROVE DescribedOK'
    BY <1>2, <1>5, StaticDescribed
  <1>6. CASE init_ivf_2
    <2>1. Static /\ stage' # "pass1"
      BY <1>6 DEF init_ivf_2, Static
    <2> QED
      BY <1>1, <1>5, <1>6, <2>1, InitRun DEF Inv
  <1>7. CASE LoadCounts
    <2>1. Static
      BY <1>7 DEF LoadCounts, Static
    <2>2. StageOK' /\ QuietOK' /\ RunningOK'
      BY <1>7, LoadRun
    <2>3. stage' # "pass1"
      BY <1>7, LoadFacts
    <2> QED
      BY <1>1, <1>5, <2>1, <2>2, <2>3 DEF Inv
  <1>8. CASE ProcessDoc2
    <2>1. Static /\ stage' # "pass1"
      BY <1>8 DEF ProcessDoc2, Static
    <2> QED
      BY <1>1, <1>5, <1>8, <2>1, CodeRun DEF Inv
  <1>9. CASE DumpChunk
    <2>1. Static /\ stage' # "pass1"
      BY <1>9 DEF DumpChunk, Static
    <2> QED
      BY <1>1, <1>5, <1>9, <2>1, DumpRun DEF Inv
  <1>10. CASE DiskMerge
    <2>1. Static /\ stage' # "pass1"
      BY <1>10 DEF DiskMerge, Static
    <2> QED
      BY <1>1, <1>5, <1>10, <2>1, MergeRun DEF Inv
  <1>11. CASE done_ivf_2
    <2>1. /\ Static /\ UNCHANGED memory /\ UNCHANGED disk
          /\ stage = "pass2" /\ stage' = "done" /\ callnum = Len(text)
      BY <1>11 DEF done_ivf_2, Static
    <2> QED
      BY <1>1, <1>5, <2>1, SameRun DEF Inv
  <1>12. CASE UNCHANGED vars
    <2>1. Static /\ UNCHANGED memory /\ UNCHANGED disk /\ stage' = stage
      BY <1>12 DEF vars, Static
    <2>2. StageOK' /\ QuietOK' /\ RunningOK'
      BY <2>1, SameRun
    <2>3. DescribedOK'
      BY <1>5, <2>1
    <2> QED
      BY <1>1, <2>2, <2>3 DEF Inv
  <1> QED
    BY <1>1, <1>3, <1>4, <1>6, <1>7, <1>8, <1>9, <1>10, <1>11, <1>12
       DEF Inv, Next, Pass1, Pass2
----------------------------------------------------------------------------
(* Types.                                                                  *)

LEMMA SeqOver ==
  ASSUME NEW s, IsSeq(s), NEW T, \A i \in 1..Len(s) : s[i] \in T
  PROVE  s \in Seq(T)
  <1>1. PICK S : s \in Seq(S)
    BY DEF IsSeq
  <1>2. PICK n : n = Len(s)
    OBVIOUS
  <1>3. n \in Nat /\ s \in [1..n -> S]
    BY <1>1, <1>2
  <1>4. s \in [1..n -> T]
    BY <1>2, <1>3
  <1> QED
    BY ONLY <1>3, <1>4, SeqDef

\* The parameter of a chunk is at most its number of documents.
LEMMA ParamBound ==
  ASSUME NEW N \in 1..(Shl(MaxLog) - 1), NEW p \in 1..N
  PROVE  BblockInitW(N, p) \in 1..N
  <1>1. PICK y : y = (N - p) \div p
    OBVIOUS
  <1>2. N \in Nat /\ p \in Nat \ {0} /\ N - p \in Nat /\ N < Shl(MaxLog) /\ Shl(MaxLog) \in Nat
    BY ShlType DEF MaxLog
  <1>3. y \in Int /\ 0 <= y /\ y <= N
    <2>1. 0 * p <= N - p /\ N - p <= N * p
      BY <1>2, SMT
    <2>2. y \in Int
      BY <1>1, <1>2, DivRem
    <2>3. y <= N
      BY <1>1, <1>2, <2>1, DivLeast
    <2>4. 0 <= y
      BY <1>1, <1>2, <2>1, DivGreatest
    <2> QED
      BY <2>2, <2>3, <2>4
  <1>4. PICK l : l = FloorLog2(y)
    OBVIOUS
  <1>5. BblockInitW(N, p) = IF l < 0 THEN 1 ELSE Shl(l)
    BY <1>1, <1>4, Zenon DEF BblockInitW
  <1>6. CASE y = 0
    <2>1. l = -1
      BY <1>4, <1>6 DEF FloorLog2
    <2>2. BblockInitW(N, p) = 1
      BY <1>5, <2>1
    <2> QED
      BY <1>2, <2>2
  <1>7. CASE y # 0
    <2>1. y \in Operand
      BY <1>2, <1>3, <1>7 DEF Operand
    <2>2. l \in 0..MaxLog /\ Shl(l) <= y
      BY <1>4, <2>1, FloorLogSpec
    <2>3. Shl(l) \in Nat \ {0}
      BY <2>2, ShlType
    <2>4. BblockInitW(N, p) = Shl(l)
      BY <1>5, <2>2 DEF MaxLog
    <2> QED
      BY ONLY <1>2, <1>3, <2>2, <2>3, <2>4
  <1> QED
    BY <1>6, <1>7

LEMMA InvTypeOK == Inv => TypeOK
  <1> SUFFICES ASSUME Inv PROVE TypeOK
    OBVIOUS
  <1>1. /\ TotalsOK /\ CountsOK /\ CheckOK /\ OptionsOK /\ StageOK
    BY DEF Inv, IInv, DescribedOK
  <1>2. /\ Len(text) \in Nat /\ Len(text) <= MaxDocs /\ MaxDocs \in Nat /\ MaxDocs > 0
        /\ MaxDocs <= Shl(MaxLog) - 1 /\ Shl(MaxLog) \in Nat
    <2>1. Shl(MaxLog) \in Nat
      BY ShlType DEF MaxLog
    <2>2. Len(text) \in Nat /\ Len(text) <= MaxDocs
      BY Places DEF Inv
    <2> QED
      BY <2>1, <2>2, MaxDocsAssumption
  <1>3. text \in Seq([Words -> Nat])
    BY <1>1, SeqOver DEF TotalsOK
  <1>4. ent \in [Words -> [wcnt : Nat, fcnt : Nat, lwcnt : Nat, lfcnt : Nat]]
    BY <1>1 DEF CountsOK, CountedSince
  <1>5. first_occr \in Seq(Words)
    BY <1>1, SeqOver DEF CountsOK, OrderOK
  <1>6. lcallnum \in 0..MaxDocs /\ ptrcnt \in Nat /\ checknum \in Nat
    BY <1>1, <1>2 DEF CountsOK, CheckOK
  <1>7. at \in 0..Len(chunk_file) /\ callnum \in 0..Len(text)
    BY Places DEF Inv
  <1>8. docs_left \in 0..MaxDocs /\ next_docs_left \in 0..MaxDocs
    <2>1. /\ docs_left \in Nat /\ docs_left = Cut(at) - callnum
          /\ Cut(at) \in 0..Len(text)
      BY Places DEF Inv
    <2> QED
      BY <1>1, <1>2, <1>7, <2>1 DEF StageOK
  <1>9. ASSUME NEW w \in Words
        PROVE  wr[w].used \in Nat /\ wr[w].last \in 0..callnum /\ wr[w].b \in 1..MaxDocs
    <2>1. CASE at = 0
      <3>1. wr[w] = NoRegion /\ callnum = 0
        BY <1>1, <2>1 DEF StageOK
      <3> QED
        BY <1>2, <3>1 DEF NoRegion
    <2>2. CASE at # 0
      <3>1. PICK k, s : k = at /\ s = Cut(k - 1)
        OBVIOUS
      <3>2. k \in 1..Len(cuts) /\ s \in 0..Len(text) /\ s <= callnum
        <4>1. at > 0
          BY <1>7, <2>2
        <4> QED
          BY <3>1, <4>1, Places DEF Inv
      <3>3. PICK p, N : p = F(Cut(k), w) - F(s, w) /\ N = Cut(k) - s
        OBVIOUS
      <3>4. /\ wr[w].b = IF p = 0 THEN 1 ELSE BblockInitW(N, p)
            /\ wr[w].last \in s..callnum /\ wr[w].used \in Nat
        <4>1. Coded(w)
          BY <1>7, <2>2 DEF Inv, IInv, CodedOK
        <4> QED
          BY <3>1, <3>3, <4>1 DEF Coded
      <3>5. N \in 1..(Shl(MaxLog) - 1) /\ p \in 0..N /\ N <= MaxDocs
        <4>1. ChunksOK
          BY DEF Inv, IInv
        <4>2. N \in 1..(Shl(MaxLog) - 1) /\ p \in 0..N /\ Cut(k) \in 0..Len(text)
          BY <1>1, <3>1, <3>2, <3>3, <4>1, ChunkFacts
        <4> QED
          BY <1>2, <3>2, <3>3, <4>2
      <3>6. wr[w].b \in 1..MaxDocs
        <4>1. CASE p = 0
          BY <1>2, <3>4, <4>1
        <4>2. CASE p # 0
          <5>1. p \in 1..N
            BY <3>5, <4>2
          <5>2. BblockInitW(N, p) \in 1..N
            BY <3>5, <5>1, ParamBound
          <5> QED
            BY <1>2, <3>4, <3>5, <4>2, <5>2
        <4> QED
          BY <4>1, <4>2
      <3> QED
        BY <1>7, <3>2, <3>4, <3>6
    <2> QED
      BY <2>1, <2>2
  <1>10. disk_chunks \in 0..ChunkLimit
    <2>1. ChunkLimit \in Nat
      BY <1>1 DEF OptionsOK
    <2>2. CASE Running
      BY <2>2 DEF Inv, RunningOK, HeldOK
    <2>3. CASE ~Running
      BY <2>1, <2>3 DEF Inv, QuietOK
    <2> QED
      BY <2>2, <2>3
  <1> QED
    BY <1>1, <1>2, <1>3, <1>4, <1>5, <1>6, <1>7, <1>8, <1>9, <1>10
       DEF TypeOK, StageOK, CountsOK

\* The types of both passes' variables, for every collection and all options.
THEOREM TypesRight == Spec => []TypeOK
  <1>1. Init => Inv
    BY InitInv
  <1>2. Inv /\ [Next]_vars => Inv'
    BY StepInv
  <1>3. Inv => TypeOK
    BY InvTypeOK
  <1> QED
    BY <1>1, <1>2, <1>3, PTL DEF Spec
----------------------------------------------------------------------------
(* Space.                                                                  *)

LEMMA InvBufferHolds == Inv => BufferHolds
  <1> SUFFICES ASSUME Inv PROVE BufferHolds
    OBVIOUS
  <1>1. CASE at = 0
    <2>1. BufToUse = 0
      BY <1>1 DEF Inv, StageOK
    <2>2. MemBufSize \in Nat
      BY DEF Inv, QuietOK, RunningOK, BufOK
    <2>3. BufToUse <= MemBufSize /\ ~(at > 0)
      BY <1>1, <2>1, <2>2
    <2>4. ASSUME stage = "failed" PROVE Vocabulary = {}
      <3>1. first_occr = <<>>
        BY <2>4 DEF Inv, StageOK
      <3> QED
        BY <3>1 DEF Vocabulary, Known, Range
    <2> QED
      BY <2>3, <2>4 DEF BufferHolds
  <1>2. CASE at # 0
    <2>1. PICK c : c = chunk_file[at]
      OBVIOUS
    <2>2. /\ at > 0 /\ at \in 1..Len(cuts) /\ at \in 1..Len(chunk_file)
      BY <1>2, Places DEF Inv
    <2>3. Running
      BY <1>2 DEF Inv, QuietOK
    <2>4. BufOK /\ BufferOK /\ stage # "failed"
      BY <2>3 DEF Inv, RunningOK, Running
    <2>5. c.mem = Need(c) /\ c.mem \in Nat /\ c.mem <= max_mem /\ max_mem \in Nat
      BY <2>1, <2>2 DEF Inv, DescribedOK, NeedOK
    <2>6. BufToUse = c.mem /\ BufToUse <= MemBufSize
      BY <2>1, <2>2, <2>4, <2>5 DEF BufOK
    <2>7. ASSUME NEW w \in Words PROVE wr[w].start + wr[w].used <= 8 * BufToUse
      <3>1. Sized(c)
        BY <2>1, <2>2, ChunkSized DEF Inv, IInv
      <3>2. PICK sum : sum = SumFunctionOnSet([u \in Words |-> Region(c, u)], Words)
        OBVIOUS
      <3>3. RegionStart(c, w) \in Nat /\ RegionStart(c, w) + Region(c, w) <= sum /\ sum \in Nat
        BY <3>1, <3>2, StartInNeed
      <3>4. wr[w].used <= Region(c, w) /\ wr[w].start = RegionStart(c, w)
        BY <2>1, <2>2, <2>4, IInvNoOverrun DEF Inv, NoOverrun, BufferOK
      <3>5. sum <= 8 * Bytes(sum) /\ Bytes(sum) \in Nat
        BY <3>3, BytesType
      <3>6. BufToUse = Bytes(sum)
        BY <2>5, <2>6, <3>2 DEF Need
      <3>7. Region(c, w) \in Nat /\ wr[w].used \in Nat
        BY <3>1, InvTypeOK DEF Sized, TypeOK
      <3> QED
        BY ONLY <3>3, <3>4, <3>5, <3>6, <3>7
    <2> QED
      BY <2>4, <2>6, <2>7 DEF BufferHolds
  <1> QED
    BY <1>1, <1>2

\* The buffer of pass 2, allocated once from what pass 1 noted, holds every chunk
\* and all its regions (ivf.pass2.c:493-501), and LoadCounts finds no fault.
THEOREM BufferAlwaysHolds == Spec => []BufferHolds
  <1>1. Init => Inv
    BY InitInv
  <1>2. Inv /\ [Next]_vars => Inv'
    BY StepInv
  <1>3. Inv => BufferHolds
    BY InvBufferHolds
  <1> QED
    BY <1>1, <1>2, <1>3, PTL DEF Spec

LEMMA InvDumpedKept == Inv => DumpedKept
  <1> SUFFICES ASSUME Inv PROVE DumpedKept
    OBVIOUS
  <1>1. CASE ~Running
    <2>1. chunk_data = <<>> /\ disk_chunks = 0 /\ ChunkLimit \in Nat
      BY <1>1 DEF Inv, QuietOK, DescribedOK, OptionsOK
    <2>2. Len(chunk_data) = 0
      BY ONLY <2>1, EmptyIsSeq, Zenon
    <2> QED
      BY <2>1, <2>2 DEF DumpedKept
  <1>2. CASE Running
    <2>1. HeldOK /\ ScratchOK /\ TotalsOK /\ ChunksOK /\ ChunkLimit \in Nat
      BY <1>2 DEF Inv, IInv, RunningOK, DescribedOK, OptionsOK
    <2>2. PICK L : L = Len(chunk_data)
      OBVIOUS
    <2>3. /\ disk_chunks \in 0..ChunkLimit /\ L <= disk_chunks + 1 /\ disk_chunks <= L
          /\ L \in Nat /\ L <= at /\ at \in 0..Len(cuts) /\ Len(cuts) \in Nat
      <3>1. /\ disk_chunks \in 0..ChunkLimit /\ L <= at
            /\ L = disk_chunks + IF docs_left > 0 \/ stage = "merge" THEN 1 ELSE 0
        BY <2>1, <2>2 DEF HeldOK
      <3>2. at \in 0..Len(cuts) /\ Len(cuts) \in Nat
        BY Places DEF Inv
      <3> QED
        BY <2>1, <3>1, <3>2
    <2>4. ASSUME NEW j \in 1..disk_chunks, NEW w \in Words, chunk_data[j].params[w].p > 0
          PROVE  \E f \in chunks : /\ f.pos = chunk_data[j].disk_pos
                                   /\ \E r \in f.image :
                                        /\ r.start = ChunkPtr(j, w)
                                        /\ Len(r.codes) = chunk_data[j].params[w].p
      <3>1. PICK k, c, h : k = First + j /\ c = chunk_file[k] /\ h = chunk_data[j]
        OBVIOUS
      <3>2. j \in 1..L /\ k \in 1..Len(cuts)
        BY <2>2, <2>3, <3>1 DEF First
      <3>3. KeptOf(h, k)
        BY <2>1, <2>2, <3>1, <3>2 DEF HeldOK
      <3>4. PICK s, e, b : s = Cut(k - 1) /\ e = Cut(k) /\ b = ChunkParam(k, w)
        OBVIOUS
      <3>5. /\ h.params[w].p = F(e, w) - F(s, w) /\ CountsIn(c, w).fcnt = F(e, w) - F(s, w)
            /\ CountsIn(c, w).fcnt > 0
        <4>1. CountsIn(c, w).fcnt = F(e, w) - F(s, w)
          BY <2>1, <3>1, <3>2, <3>4, RegionType
        <4> QED
          BY <2>4, <3>1, <3>3, <4>1 DEF KeptOf
      <3>6. /\ s \in 0..Len(text) /\ e \in 0..Len(text) /\ s <= e /\ F(e, w) > F(s, w)
        <4>1. s \in 0..Len(text) /\ e \in 0..Len(text) /\ e - s \in 1..(Shl(MaxLog) - 1)
          BY <2>1, <3>2, <3>4, ChunkFacts
        <4>2. F(e, w) \in Nat /\ F(s, w) \in Nat
          BY <2>1, <4>1 DEF TotalsOK
        <4>3. Len(text) \in Nat
          BY Places DEF Inv
        <4>4. s <= e
          <5>1. Shl(MaxLog) \in Nat
            BY ShlType DEF MaxLog
          <5> QED
            BY ONLY <4>1, <4>3, <5>1
        <4> QED
          BY <3>5, <4>1, <4>2, <4>4
      <3>7. ChunkPtr(j, w) = RegionStart(c, w)
        <4>1. Sized(c)
          BY <2>1, <3>1, <3>2, ChunkSized
        <4>2. Kept(j, c)
          <5>1. \A u \in Words : CountsIn(c, u).fcnt \in Nat
            BY <2>1, <3>1, <3>2, RegionType
          <5>2. \A u \in Words : h.params[u].p = CountsIn(c, u).fcnt
                                 /\ h.params[u].delta = Delta(c, u)
            BY <3>1, <3>3 DEF KeptOf
          <5> QED
            BY ONLY <3>1, <5>1, <5>2 DEF Kept
        <4> QED
          BY <3>5, <4>1, <4>2, ChunkPtrIs
      <3>8. PICK f, r : /\ f = Dumped(h.disk_pos, k)
                        /\ r = [start |-> RegionStart(c, w), codes |-> ChunkCodes(k, w)]
        OBVIOUS
      <3>9. f \in chunks /\ f.pos = h.disk_pos /\ f.image = ChunkImage(k)
        BY <2>1, <3>1, <3>8 DEF ScratchOK, Dumped
      <3>10. r \in ChunkImage(k)
        BY <3>1, <3>4, <3>6, <3>8 DEF ChunkImage
      <3>11. Len(r.codes) = F(e, w) - F(s, w)
        <4>1. Len(Codes(w, s, e, b)) = F(e, w) - F(s, w)
          BY <2>1, <3>6, CodesAreSeq
        <4>2. ChunkCodes(k, w) = Codes(w, s, e, b)
          BY <3>4 DEF ChunkCodes
        <4> QED
          BY <3>8, <4>1, <4>2
      <3> QED
        BY <3>1, <3>5, <3>7, <3>8, <3>9, <3>10, <3>11
    <2> QED
      BY <2>1, <2>2, <2>3, <2>4 DEF DumpedKept
  <1> QED
    BY <1>1, <1>2

\* The table of chunks has room (ivf.pass2.c:400), and every chunk dumped to the
\* scratch file is whole there, where the merge looks for it.
THEOREM DumpedAlwaysKept == Spec => []DumpedKept
  <1>1. Init => Inv
    BY InitInv
  <1>2. Inv /\ [Next]_vars => Inv'
    BY StepInv
  <1>3. Inv => DumpedKept
    BY InvDumpedKept
  <1> QED
    BY <1>1, <1>2, <1>3, PTL DEF Spec
----------------------------------------------------------------------------
(* The inverted file that comes out.                                       *)

\* The dictionary has the words of the collection and no others.
LEMMA VocabIs ==
  ASSUME Inv
  PROVE  /\ Vocabulary = {w \in Words : F(Len(text), w) > 0}
         /\ Vocabulary = Abstract!Vocabulary(text)
         /\ Vocabulary = {} <=> first_occr = <<>>
  <1>1. PICK L : L = Len(text)
    OBVIOUS
  <1>2. /\ TotalsOK /\ CountsOK /\ VocabOK /\ L \in Nat /\ L \in 0..L
        /\ DOMAIN text = 1..L
    <2>1. TotalsOK /\ CountsOK /\ VocabOK
      BY DEF Inv, IInv, DescribedOK
    <2>2. PICK S : text \in Seq(S)
      BY <2>1 DEF TotalsOK, IsSeq
    <2>3. DOMAIN text = 1..L /\ L \in Nat
      BY ONLY <1>1, <2>2
    <2> QED
      BY <2>1, <2>3
  <1>3. DOMAIN first_occr = 1..Len(first_occr) /\ Len(first_occr) \in Nat
    BY <1>2 DEF CountsOK, OrderOK, IsSeq
  <1>4. Vocabulary = {first_occr[i] : i \in 1..Len(first_occr)}
    BY <1>3 DEF Vocabulary, Known, Range
  <1>5. Vocabulary = {w \in Words : F(L, w) > 0}
    <2>1. \A i \in 1..Len(first_occr) : first_occr[i] \in Words /\ F(L, first_occr[i]) > 0
      BY <1>1, <1>2 DEF VocabOK
    <2>2. \A w \in Words : F(L, w) > 0 => \E i \in 1..Len(first_occr) : first_occr[i] = w
      BY <1>1, <1>2 DEF CountsOK
    <2> QED
      BY ONLY <1>4, <2>1, <2>2
  <1>6. ASSUME NEW w \in Words PROVE F(L, w) > 0 <=> \E n \in 1..L : text[n][w] > 0
    <2>1. F(L, w) \in Nat
      BY <1>1, <1>2 DEF TotalsOK
    <2>2. ASSUME F(L, w) > 0 PROVE \E n \in 1..L : text[n][w] > 0
      <3>1. 1 \in 1..F(L, w)
        BY <2>1, <2>2
      <3>2. Nth(w, 1) \in 1..L /\ text[Nth(w, 1)][w] > 0
        BY <1>1, <1>2, <3>1, NthSpec
      <3> QED
        BY <3>2
    <2>3. ASSUME NEW n \in 1..L, text[n][w] > 0 PROVE F(L, w) > 0
      <3>1. F(n, w) \in Nat \ {0}
        BY <1>1, <1>2, <2>3, NthOf
      <3>2. n \in 0..L /\ n <= L
        BY <1>2
      <3>3. F(n, w) <= F(L, w)
        BY <1>1, <1>2, <3>2, CountMonotone
      <3> QED
        BY ONLY <2>1, <3>1, <3>3
    <2> QED
      BY <2>2, <2>3
  <1>7. Abstract!Vocabulary(text) = {w \in Words : F(L, w) > 0}
    BY <1>2, <1>6 DEF Abstract!Vocabulary
  <1>8. Vocabulary = {} <=> first_occr = <<>>
    <2>1. ASSUME first_occr = <<>> PROVE Vocabulary = {}
      <3>1. Len(first_occr) = 0
        BY ONLY <2>1, EmptyIsSeq, Zenon
      <3> QED
        BY <1>4, <3>1
    <2>2. ASSUME first_occr # <<>> PROVE Vocabulary # {}
      <3>1. Len(first_occr) # 0
        <4>1. IsSeq(first_occr)
          BY <1>2 DEF CountsOK, OrderOK
        <4>2. ASSUME Len(first_occr) = 0 PROVE FALSE
          <5>1. IsSeq(<<>>) /\ Len(<<>>) = 0
            BY EmptyIsSeq
          <5>2. first_occr = <<>>
            BY <4>1, <4>2, <5>1, SameSeq
          <5> QED
            BY <2>2, <5>2
        <4> QED
          BY <4>2
      <3>2. 1 \in 1..Len(first_occr)
        BY <1>3, <3>1
      <3> QED
        BY <1>4, <3>2
    <2> QED
      BY <2>1, <2>2
  <1> QED
    BY ONLY <1>1, <1>5, <1>7, <1>8

\* When every document is coded and merged, an entry lists the postings.
LEMMA EntriesListed ==
  ASSUME Inv, stage \in {"pass2", "done"}, callnum = Len(text), NEW w \in Words
  PROVE  Entry(w) = Listed(w) /\ Len(isr[w].codes) = F(Len(text), w)
  <1>1. /\ HeldOK /\ EntryOK /\ TotalsOK /\ ChunksOK
    BY DEF Inv, IInv, RunningOK, Running
  <1>2. /\ docs_left = 0 /\ Cut(at) = Len(text) /\ at \in 0..Len(cuts) /\ Len(cuts) \in Nat
        /\ Len(chunk_file) = Len(cuts)
    BY Places DEF Inv
  <1>3. ~(at < Len(chunk_file))
    <2>1. SUFFICES ASSUME at < Len(chunk_file) PROVE FALSE
      OBVIOUS
    <2>2. PICK k : k = at + 1
      OBVIOUS
    <2>3. k \in 1..Len(cuts) /\ k \in 0..Len(cuts) /\ k - 1 = at
      BY <1>2, <2>1, <2>2
    <2>4. Cut(k) \in 0..Len(text) /\ Cut(k - 1) < Cut(k)
      BY <1>1, <2>3 DEF ChunksOK, Describes
    <2>5. Len(text) \in Nat
      BY Places DEF Inv
    <2> QED
      BY <1>2, <2>3, <2>4, <2>5
  <1>4. Len(chunk_data) = 0
    <2>1. /\ Len(chunk_data) = disk_chunks + 0 /\ disk_chunks \in 0..ChunkLimit
          /\ disk_chunks > 0 => at < Len(chunk_file)
      BY <1>1, <1>2 DEF HeldOK
    <2>2. ChunkLimit \in Nat
      BY DEF Inv, DescribedOK, OptionsOK
    <2> QED
      BY <1>3, <2>1, <2>2
  <1>5. First = at
    BY <1>2, <1>4 DEF First
  <1>6. isr[w].B \in Operand /\ isr[w].codes = Codes(w, 0, Len(text), isr[w].B)
    <2>1. isr[w].B \in Operand /\ EntryUpTo(isr[w], w, Cut(First))
      BY <1>1 DEF EntryOK
    <2>2. Cut(First) = Len(text)
      BY <1>2, <1>5
    <2> QED
      BY <2>1, <2>2 DEF EntryUpTo
  <1> QED
    BY <1>1, <1>6, EntryDecoded

\* Where a chunk that is kept begins, and where the next one does.
LEMMA ChunkBegins ==
  ASSUME Inv, Running
  PROVE  /\ Begins(1) = Cut(First)
         /\ \A j \in 1..Len(chunk_data) :
              /\ Begins(j) = Cut((First + j) - 1)
              /\ Begins(j + 1) = IF j = Len(chunk_data) THEN callnum ELSE Cut(First + j)
              /\ j <= disk_chunks /\ j = Len(chunk_data) => callnum = Cut(First + j)
  <1>1. HeldOK /\ IInv /\ StageOK
    BY DEF Inv, RunningOK
  <1>2. PICK L : L = Len(chunk_data)
    OBVIOUS
  <1>3. /\ L \in Nat /\ DOMAIN chunk_data = 1..L /\ First = at - L /\ at \in Nat /\ L <= at
        /\ Cut(at) \in Nat /\ callnum \in Nat /\ docs_left = Cut(at) - callnum
        /\ docs_left \in Nat
    <2>1. IsSeq(chunk_data)
      BY <1>1 DEF HeldOK
    <2>2. L \in Nat /\ DOMAIN chunk_data = 1..L
      BY <1>2, <2>1 DEF IsSeq
    <2>3. /\ at \in 0..Len(cuts) /\ callnum \in 0..Len(text) /\ Cut(at) \in 0..Len(text)
          /\ docs_left = Cut(at) - callnum /\ docs_left \in Nat /\ Len(text) \in Nat
          /\ Len(cuts) \in Nat
      BY <1>1, Places
    <2>4. L <= at
      BY <1>1, <1>2 DEF HeldOK
    <2> QED
      BY <1>2, <2>2, <2>3, <2>4 DEF First
  <1>4. /\ L = disk_chunks + IF docs_left > 0 \/ stage = "merge" THEN 1 ELSE 0
        /\ disk_chunks \in Nat
    <2>1. ChunkLimit \in Nat
      BY DEF Inv, DescribedOK, OptionsOK
    <2> QED
      BY <1>1, <1>2, <2>1 DEF HeldOK
  <1>5. ASSUME NEW j \in 1..L PROVE Begins(j) = Cut((First + j) - 1)
    <2>1. KeptOf(chunk_data[j], First + j)
      BY <1>1, <1>2 DEF HeldOK
    <2>2. j \in DOMAIN chunk_data
      BY <1>3
    <2>3. PICK k : k = First + j
      OBVIOUS
    <2>4. chunk_data[j].start_doc = Cut(k - 1)
      BY <2>1, <2>3 DEF KeptOf
    <2>5. Begins(j) = Cut(k - 1)
      BY <2>2, <2>4 DEF Begins
    <2> QED
      BY <2>3, <2>5
  <1>6. Begins(L + 1) = callnum
    BY <1>3 DEF Begins
  <1>7. disk_chunks = L => callnum = Cut(at)
    BY <1>3, <1>4
  <1>8. Begins(1) = Cut(First)
    <2>1. CASE L = 0
      <3>1. First = at /\ disk_chunks = 0 /\ 1 = L + 1
        BY <1>3, <1>4, <2>1
      <3> QED
        BY <1>6, <1>7, <2>1, <3>1
    <2>2. CASE L # 0
      <3>1. 1 \in 1..L /\ (First + 1) - 1 = First
        BY <1>3, <2>2
      <3> QED
        BY <1>5, <3>1
    <2> QED
      BY <2>1, <2>2
  <1>9. ASSUME NEW j \in 1..L
        PROVE  /\ Begins(j + 1) = IF j = L THEN callnum ELSE Cut(First + j)
               /\ j <= disk_chunks /\ j = L => callnum = Cut(First + j)
    <2>1. CASE j = L
      <3>1. First + j = at
        BY <1>3, <2>1
      <3>2. j <= disk_chunks => disk_chunks = L
        BY <1>3, <1>4, <2>1
      <3> QED
        BY <1>6, <1>7, <2>1, <3>1, <3>2
    <2>2. CASE j # L
      <3>1. PICK i : i = j + 1
        OBVIOUS
      <3>2. i \in 1..L /\ (First + i) - 1 = First + j
        BY <1>3, <2>2, <3>1
      <3> QED
        BY <1>5, <2>2, <3>1, <3>2
    <2> QED
      BY <2>1, <2>2
  <1> QED
    BY <1>2, <1>5, <1>8, <1>9

\* What is kept of a chunk.
LEMMA KeptChunk ==
  ASSUME Inv, Running, NEW w \in Words, NEW j \in 1..Len(chunk_data),
         NEW k, k = First + j, NEW h, h = chunk_data[j]
  PROVE  /\ k \in 1..Len(cuts) /\ (j > disk_chunks => k = at)
         /\ h.start_doc = Cut(k - 1) /\ h.N = Cut(k) - Cut(k - 1)
         /\ h.params[w].p = F(Cut(k), w) - F(Cut(k - 1), w)
         /\ CountsIn(chunk_file[k], w).fcnt = F(Cut(k), w) - F(Cut(k - 1), w)
         /\ Sized(chunk_file[k]) /\ Kept(j, chunk_file[k])
  <1>1. HeldOK /\ IInv /\ TotalsOK /\ ChunksOK
    BY DEF Inv, IInv, RunningOK
  <1>2. PICK L : L = Len(chunk_data)
    OBVIOUS
  <1>3. /\ L \in Nat /\ First = at - L /\ at \in 0..Len(cuts) /\ Len(cuts) \in Nat /\ L <= at
        /\ L <= disk_chunks + 1 /\ disk_chunks \in Nat
    <2>1. IsSeq(chunk_data) /\ L <= at
      BY <1>1, <1>2 DEF HeldOK
    <2>2. at \in 0..Len(cuts) /\ Len(cuts) \in Nat
      BY <1>1, Places
    <2>3. ChunkLimit \in Nat
      BY DEF Inv, DescribedOK, OptionsOK
    <2>4. disk_chunks \in Nat /\ L <= disk_chunks + 1
      BY <1>1, <1>2, <2>3 DEF HeldOK
    <2> QED
      BY <1>2, <2>1, <2>2, <2>4 DEF First, IsSeq
  <1>4. k \in 1..Len(cuts) /\ (j > disk_chunks => k = at)
    BY <1>2, <1>3
  <1>5. KeptOf(h, k)
    BY <1>1 DEF HeldOK
  <1>6. \A u \in Words : CountsIn(chunk_file[k], u).fcnt \in Nat
    BY <1>1, <1>4, RegionType
  <1>7. CountsIn(chunk_file[k], w).fcnt = F(Cut(k), w) - F(Cut(k - 1), w)
    BY <1>1, <1>4, RegionType
  <1>8. Kept(j, chunk_file[k])
    <2>1. \A u \in Words : h.params[u].p = CountsIn(chunk_file[k], u).fcnt
                           /\ h.params[u].delta = Delta(chunk_file[k], u)
      BY <1>5 DEF KeptOf
    <2> QED
      BY ONLY <1>6, <2>1, h = chunk_data[j] DEF Kept
  <1>9. Sized(chunk_file[k])
    BY <1>1, <1>4, ChunkSized
  <1> QED
    BY <1>4, <1>5, <1>7, <1>8, <1>9 DEF KeptOf

\* The codes of a chunk: those of its documents, as far as they were read.
LEMMA HeldAre ==
  ASSUME Inv, Running, NEW w \in Words, NEW j \in 1..Len(chunk_data),
         NEW k, k = First + j, NEW n, n = Begins(j + 1)
  PROVE  /\ Cut(k - 1) \in 0..Len(text) /\ n \in 0..Len(text) /\ Cut(k - 1) <= n
         /\ n <= Cut(k) /\ Cut(k) \in 0..Len(text)
         /\ CodesHeld(j, w) = Codes(w, Cut(k - 1), n, ChunkParam(k, w))
  <1>1. IInv /\ TotalsOK /\ ChunksOK /\ HeldOK /\ BufferOK /\ ScratchOK
    BY DEF Inv, IInv, RunningOK
  <1>2. PICK h, c, s, e : /\ h = chunk_data[j] /\ c = chunk_file[k]
                          /\ s = Cut(k - 1) /\ e = Cut(k)
    OBVIOUS
  <1>3. /\ k \in 1..Len(cuts) /\ (j > disk_chunks => k = at)
        /\ h.params[w].p = F(e, w) - F(s, w) /\ CountsIn(c, w).fcnt = F(e, w) - F(s, w)
        /\ Sized(c) /\ Kept(j, c)
    BY <1>2, KeptChunk
  <1>4. /\ s \in 0..Len(text) /\ e \in 0..Len(text) /\ s <= e /\ Len(text) \in Nat
        /\ F(e, w) \in Nat /\ F(s, w) \in Nat /\ F(s, w) <= F(e, w)
    <2>1. s \in 0..Len(text) /\ e \in 0..Len(text) /\ e - s \in 1..(Shl(MaxLog) - 1)
      BY <1>1, <1>2, <1>3, ChunkFacts
    <2>2. Len(text) \in Nat /\ Shl(MaxLog) \in Nat
      BY <1>1, Places, ShlType DEF MaxLog
    <2>3. s <= e
      BY ONLY <2>1, <2>2
    <2> QED
      BY <1>1, <2>1, <2>2, <2>3, CountMonotone
  <1>5. /\ n = IF j = Len(chunk_data) THEN callnum ELSE e
        /\ j <= disk_chunks /\ j = Len(chunk_data) => callnum = e
    BY <1>2, ChunkBegins
  <1>6. CASE j > disk_chunks
    <2>1. /\ Len(chunk_data) <= disk_chunks + 1 /\ disk_chunks \in Nat /\ Len(chunk_data) \in Nat
      <3>1. IsSeq(chunk_data) /\ ChunkLimit \in Nat
        BY <1>1 DEF HeldOK, Inv, DescribedOK, OptionsOK
      <3> QED
        BY <1>1, <3>1 DEF HeldOK, IsSeq
    <2>2. j = Len(chunk_data) /\ n = callnum /\ k = at /\ at > 0
      <3>1. j = Len(chunk_data)
        BY <1>6, <2>1
      <3>2. Len(cuts) \in Nat
        BY <1>1, Places
      <3> QED
        BY <1>3, <1>5, <1>6, <3>1, <3>2
    <2>3. /\ callnum \in 0..Len(text) /\ s <= callnum /\ callnum <= e
      <3>1. /\ callnum \in 0..Len(text) /\ docs_left \in Nat /\ docs_left = Cut(at) - callnum
            /\ Cut(at - 1) <= callnum
        BY <1>1, <2>2, Places
      <3> QED
        BY <1>2, <1>4, <2>2, <3>1
    <2>4. CodesHeld(j, w) = wr[w].codes
      BY <1>6 DEF CodesHeld
    <2>5. wr[w].codes = Codes(w, s, n, ChunkParam(k, w))
      BY <1>1, <1>2, <2>2 DEF BufferOK
    <2> QED
      BY <1>2, <1>4, <2>2, <2>3, <2>4, <2>5
  <1>7. CASE ~(j > disk_chunks)
    <2>1. j \in 1..disk_chunks /\ n = e
      <3>1. disk_chunks \in Nat
        BY <1>1 DEF HeldOK, Inv, DescribedOK, OptionsOK
      <3> QED
        BY <1>5, <1>7, <3>1
    <2>2. CodesHeld(j, w) = Codes(w, s, e, ChunkParam(k, w))
      <3>1. CASE F(e, w) = F(s, w)
        <4>1. h.params[w].p = 0
          BY <1>3, <1>4, <3>1
        <4>2. CodesHeld(j, w) = <<>>
          BY <1>2, <1>7, <4>1 DEF CodesHeld
        <4> QED
          BY <1>1, <1>4, <3>1, <4>2, NoCodes
      <3>2. CASE F(e, w) # F(s, w)
        <4>1. F(e, w) > F(s, w) /\ CountsIn(c, w).fcnt > 0 /\ h.params[w].p # 0
          BY <1>3, <1>4, <3>2
        <4>2. ChunkPtr(j, w) = RegionStart(c, w)
          BY <1>3, <4>1, ChunkPtrIs
        <4>3. (CHOOSE f \in chunks : f.pos = chunk_data[j].disk_pos).image = ChunkImage(k)
          BY <1>1, <2>1, ScratchLookup
        <4>4. (CHOOSE r \in ChunkImage(k) : r.start = RegionStart(chunk_file[k], w)).codes
                = ChunkCodes(k, w)
          BY <1>1, <1>2, <1>3, <4>1, ImageLookup
        <4> DEFINE image == (CHOOSE f \in chunks : f.pos = chunk_data[j].disk_pos).image
        <4>5. CodesHeld(j, w) = (CHOOSE r \in image : r.start = ChunkPtr(j, w)).codes
          BY <1>2, <1>7, <4>1, Zenon DEF CodesHeld
        <4>6. image = ChunkImage(k)
          BY <4>3
        <4> HIDE DEF image
        <4>7. CodesHeld(j, w) = ChunkCodes(k, w)
          BY ONLY <1>2, <4>2, <4>4, <4>5, <4>6
        <4> QED
          BY <1>2, <4>7 DEF ChunkCodes
      <3> QED
        BY <3>1, <3>2
    <2> QED
      BY <1>2, <1>4, <2>1, <2>2
  <1> QED
    BY <1>6, <1>7

\* A chunk read back by what is kept of it has the postings of its documents.
LEMMA ChunkReadBack ==
  ASSUME Inv, Running, NEW w \in Words, NEW j \in 1..Len(chunk_data)
  PROVE  Lists(ReadBack(j, w), w, Begins(j), Begins(j + 1))
  <1>1. PICK k, h, s, e, n, b :
          /\ k = First + j /\ h = chunk_data[j] /\ s = Cut(k - 1) /\ e = Cut(k)
          /\ n = Begins(j + 1) /\ b = Shl(FloorLog2(BblockInitW(h.N, h.params[w].p)))
    OBVIOUS
  <1>2. TotalsOK /\ ChunksOK
    BY DEF Inv, IInv
  <1>3. /\ k \in 1..Len(cuts) /\ h.start_doc = s /\ h.N = e - s
        /\ h.params[w].p = F(e, w) - F(s, w)
    BY <1>1, KeptChunk
  <1>4. /\ s \in 0..Len(text) /\ n \in 0..Len(text) /\ s <= n /\ n <= e /\ e \in 0..Len(text)
        /\ CodesHeld(j, w) = Codes(w, s, n, ChunkParam(k, w))
    BY <1>1, HeldAre
  <1>5. Begins(j) = s
    BY <1>1, ChunkBegins
  <1>6. ReadBack(j, w) = Decoded(Codes(w, s, n, ChunkParam(k, w)), s, b)
    BY <1>1, <1>3, <1>4 DEF ReadBack
  <1>7. /\ F(s, w) \in Nat /\ F(n, w) \in Nat /\ F(e, w) \in Nat
        /\ F(s, w) <= F(n, w) /\ F(n, w) <= F(e, w)
    BY <1>2, <1>4, CountMonotone
  <1>8. Decoded(Codes(w, s, n, ChunkParam(k, w)), s, b) = ListedFrom(w, s, n)
    <2>1. CASE F(e, w) = F(s, w)
      <3>1. F(n, w) = F(s, w)
        BY <1>7, <2>1
      <3>2. Codes(w, s, n, ChunkParam(k, w)) = <<>> /\ Codes(w, s, n, 1) = <<>>
        BY <1>2, <1>4, <3>1, NoCodes
      <3>3. Decoded(<<>>, s, b) = <<>> /\ ListedFrom(w, s, n) = <<>>
        <4>1. DOMAIN <<>> = {} /\ 1..(F(n, w) - F(s, w)) = {}
          BY <1>7, <3>1
        <4>2. Decoded(<<>>, s, b) = [i \in {} |-> i] /\ <<>> = [i \in {} |-> i]
          BY <4>1 DEF Decoded
        <4>3. ListedFrom(w, s, n) = [i \in {} |-> i]
          BY <4>1 DEF ListedFrom
        <4> QED
          BY <4>2, <4>3
      <3> QED
        BY <3>2, <3>3
    <2>2. CASE F(e, w) # F(s, w)
      <3>1. PICK N, p : N = e - s /\ p = F(e, w) - F(s, w)
        OBVIOUS
      <3>2. p > 0 /\ p # 0
        BY <1>7, <2>2, <3>1
      <3>3. BblockInitW(N, p) \in Operand /\ Shl(FloorLog2(BblockInitW(N, p))) = BblockInitW(N, p)
        BY <1>1, <1>2, <1>3, <3>1, <3>2, ChunkFacts
      <3>4. b = BblockInitW(N, p)
        BY <1>1, <1>3, <3>1, <3>3
      <3>5. ChunkParam(k, w) = BblockInitW(N, p)
        BY <1>1, <3>1, <3>2 DEF ChunkParam
      <3> QED
        BY <1>2, <1>4, <3>3, <3>4, <3>5, CodesDecoded
    <2> QED
      BY <2>1, <2>2
  <1>9. Lists(ListedFrom(w, s, n), w, s, n)
    BY <1>2, <1>4, ListedLists
  <1> QED
    BY <1>1, <1>5, <1>6, <1>8, <1>9

LEMMA InvChunksHeld == Inv => ChunksHeld
  <1> SUFFICES ASSUME Inv, stage \in {"pass2", "merge", "done"}, NEW w \in Words
               PROVE  /\ Lists(Entry(w), w, 0, Begins(1))
                      /\ \A j \in DOMAIN chunk_data :
                           Lists(ReadBack(j, w), w, Begins(j), Begins(j + 1))
    BY Zenon DEF ChunksHeld
  <1>1. Running /\ HeldOK /\ EntryOK /\ TotalsOK
    BY DEF Inv, IInv, RunningOK, Running
  <1>2. PICK n : n = Begins(1)
    OBVIOUS
  <1>3. n = Cut(First)
    BY <1>1, <1>2, ChunkBegins
  <1>4. n \in 0..Len(text) /\ 0 \in 0..Len(text) /\ 0 <= n
    <2>1. First \in 0..Len(cuts)
      <3>1. IsSeq(chunk_data) /\ Len(chunk_data) <= at
        BY <1>1 DEF HeldOK
      <3>2. at \in 0..Len(cuts) /\ Len(cuts) \in Nat
        BY Places DEF Inv
      <3> QED
        BY <3>1, <3>2 DEF First, IsSeq
    <2>2. Cut(First) \in 0..Len(text)
      BY <2>1 DEF Inv, IInv, ChunksOK
    <2>3. Len(text) \in Nat
      BY Places DEF Inv
    <2> QED
      BY <1>3, <2>2, <2>3
  <1>5. isr[w].B \in Operand /\ isr[w].codes = Codes(w, 0, n, isr[w].B)
    BY <1>1, <1>3 DEF EntryOK, EntryUpTo
  <1>6. Entry(w) = ListedFrom(w, 0, n)
    BY <1>1, <1>4, <1>5, CodesDecoded DEF Entry
  <1>7. Lists(Entry(w), w, 0, Begins(1))
    BY <1>1, <1>2, <1>4, <1>6, ListedLists
  <1>8. DOMAIN chunk_data = 1..Len(chunk_data)
    BY <1>1 DEF HeldOK, IsSeq
  <1> QED
    BY <1>1, <1>7, <1>8, ChunkReadBack

\* The number of pointers in the header is the number of postings of the file.
LEMMA InvPointersCounted == Inv => PointersCounted
  <1> SUFFICES ASSUME Inv, stage = "done"
               PROVE  no_of_ptrs = SumFunctionOnSet([w \in Vocabulary |-> Len(isr[w].codes)],
                                                    Vocabulary)
    BY DEF PointersCounted
  <1>1. PICK f, g, L : /\ f = [w \in Words |-> F(L, w)] /\ L = Len(text)
                       /\ g = [w \in Vocabulary |-> Len(isr[w].codes)]
    <2>1. PICK L : L = Len(text)
      OBVIOUS
    <2> QED
      BY <2>1
  <1>2. callnum = L /\ TotalsOK /\ L \in Nat /\ L \in 0..L
    BY <1>1, Places DEF Inv, IInv, StageOK
  <1>3. Vocabulary = {w \in Words : F(L, w) > 0}
    BY <1>1, VocabIs
  <1>4. \A w \in Words : f[w] \in Int /\ (w \notin Vocabulary => f[w] = 0)
    <2> SUFFICES ASSUME NEW w \in Words
                 PROVE  f[w] \in Int /\ (w \notin Vocabulary => f[w] = 0)
      OBVIOUS
    <2>1. F(L, w) \in Nat
      BY <1>1, <1>2 DEF TotalsOK
    <2> QED
      BY <1>1, <1>3, <2>1
  <1>5. Vocabulary \in SUBSET Words /\ IsFiniteSet(Vocabulary)
    BY <1>3, WordsFinite, FS_Subset
  <1>6. \A w \in Vocabulary : f[w] \in Int /\ g[w] = f[w]
    <2> SUFFICES ASSUME NEW w \in Vocabulary PROVE f[w] \in Int /\ g[w] = f[w]
      OBVIOUS
    <2>1. w \in Words
      BY <1>5
    <2>2. Len(isr[w].codes) = F(L, w)
      BY <1>1, <1>2, <2>1, EntriesListed
    <2> QED
      BY <1>1, <1>4, <2>1, <2>2
  <1>7. SumFunctionOnSet(f, Words) = SumFunctionOnSet(f, Vocabulary)
    BY <1>4, <1>5, WordsFinite, SumSupport
  <1>8. SumFunctionOnSet(f, Vocabulary) = SumFunctionOnSet(g, Vocabulary)
    BY <1>5, <1>6, SumSame
  <1>9. no_of_ptrs = SumFunctionOnSet(f, Words)
    <2>1. PtrsOK
      BY DEF Inv, RunningOK, Running
    <2> QED
      BY <1>1, <1>2, <2>1, Zenon DEF PtrsOK
  <1> QED
    BY ONLY <1>1, <1>7, <1>8, <1>9

\* At any moment of pass 2 every posting of the documents coded so far is in the
\* inverted file, on the scratch file or in the memory buffer, once and in order, and
\* the header of the finished file counts them right.
THEOREM PostingsAlwaysHeld == Spec => []PostingsHeld
  <1>1. Init => Inv
    BY InitInv
  <1>2. Inv /\ [Next]_vars => Inv'
    BY StepInv
  <1>3. Inv => PostingsHeld
    BY InvChunksHeld, InvPointersCounted DEF PostingsHeld
  <1> QED
    BY <1>1, <1>2, <1>3, PTL DEF Spec
----------------------------------------------------------------------------
(* The refinement.                                                         *)

\* The file that comes out is the one InvertedIndex describes.
LEMMA IndexIs ==
  ASSUME Inv, stage \in {"pass2", "done"}, callnum = Len(text)
  PROVE  [w \in Vocabulary |-> Entry(w)]
           = [w \in Abstract!Vocabulary(text) |-> Abstract!Postings(text, w)]
  <1>1. Vocabulary = Abstract!Vocabulary(text)
        /\ Vocabulary = {w \in Words : F(Len(text), w) > 0}
    BY VocabIs
  <1>2. ASSUME NEW w \in Vocabulary PROVE Entry(w) = Abstract!Postings(text, w)
    <2>1. w \in Words
      BY <1>1
    <2>2. TotalsOK /\ InvfLevel \in {1, 2, 3}
      BY DEF Inv, IInv, CountsOK
    <2> QED
      BY <2>1, <2>2, EntriesListed, PostingsListed
  <1> QED
    BY ONLY <1>1, <1>2

\* The index a step leaves is that of the entries before it.
LEMMA EntriesSame ==
  ASSUME isr' = isr, first_occr' = first_occr
  PROVE  [w \in Vocabulary |-> Entry(w)]' = [w \in Vocabulary |-> Entry(w)]
  BY DEF Vocabulary, Known, Entry

LEMMA AbstractInit == Init => Abstract!Init
  <1> SUFFICES ASSUME Init PROVE Abstract!Init
    OBVIOUS
  <1>1. InvfLevel \in {1, 2, 3} /\ stage = "pass1" /\ text = <<>>
    BY DEF Init
  <1> QED
    BY <1>1 DEF Abstract!Init, Abstract!NoIndex

\* A step that keeps the collection and the stage, or goes from one stage of the
\* building to another, is none of the abstract one.
LEMMA BuildingStutters ==
  ASSUME Static, stage \notin {"done", "failed"}, stage' \notin {"done", "failed"}
  PROVE  UNCHANGED Abstract!vars
  <1>1. InvfLevel' = InvfLevel /\ text' = text
    BY StaticText
  <1> QED
    BY <1>1 DEF Abstract!vars

\* Every step of the two passes is one of InvertedIndex, or none.
LEMMA AbstractStep == Inv /\ [Next]_vars => [Abstract!Next]_Abstract!vars
  <1> SUFFICES ASSUME Inv, [Next]_vars PROVE [Abstract!Next]_Abstract!vars
    OBVIOUS
  <1>1. TotalsOK /\ CountsOK /\ ChunksOK /\ DescribedOK
    BY DEF Inv, IInv
  <1>2. ASSUME NEW d \in Documents, NEW fresh \in FirstOccurrences(d), ProcessDoc1(d, fresh)
        PROVE  Abstract!Next
    <2>1. /\ stage = "pass1" /\ stage' = "pass1" /\ text' = Append(text, d)
          /\ InvfLevel' = InvfLevel
      <3>1. /\ stage = "pass1" /\ text' = Append(text, d)
            /\ UNCHANGED <<options, stage, memory, disk, invf_idx>>
        BY <1>2, ZenonT(60) DEF ProcessDoc1
      <3> QED
        BY ONLY <3>1 DEF options
    <2>2. Abstract!Arrive(d)
      BY <2>1 DEF Abstract!Arrive
    <2> QED
      BY <2>2 DEF Abstract!Next
  <1>3. ASSUME Done1 PROVE [Abstract!Next]_Abstract!vars
    <2>1. /\ stage = "pass1" /\ stage' \in {"built", "failed"} /\ text' = text
          /\ InvfLevel' = InvfLevel /\ first_occr' = first_occr
          /\ (stage' = "failed" <=> first_occr' = <<>>)
      <3>1. /\ stage = "pass1" /\ text' = text /\ first_occr' = first_occr
            /\ InvfLevel' = InvfLevel
        BY <1>3 DEF Done1, options
      <3> QED
        BY <1>1, <1>3, <3>1, DoneDescribed
    <2>2. CASE stage' = "failed"
      <3>1. Abstract!Vocabulary(text) = {}
        BY <2>1, <2>2, VocabIs
      <3>2. Abstract!Abandon
        BY <2>1, <2>2, <3>1 DEF Abstract!Abandon
      <3> QED
        BY <3>2 DEF Abstract!Next
    <2>3. CASE stage' = "built"
      BY <2>1, <2>3 DEF Abstract!vars
    <2> QED
      BY <2>1, <2>2, <2>3
  <1>4. CASE init_ivf_2
    <2>1. Static /\ stage = "built" /\ stage' = "pass2"
      BY <1>4 DEF init_ivf_2, Static
    <2> QED
      BY <2>1, BuildingStutters
  <1>5. CASE LoadCounts
    <2>1. Static
      BY <1>5 DEF LoadCounts, Static
    <2>2. stage = "pass2" /\ stage' = "pass2"
      BY <1>5, LoadFacts
    <2> QED
      BY <2>1, <2>2, BuildingStutters
  <1>6. CASE ProcessDoc2
    <2>1. Static /\ stage = "pass2" /\ stage' \in {"merge", "pass2"}
      BY <1>6 DEF ProcessDoc2, Static
    <2> QED
      BY <2>1, BuildingStutters
  <1>7. CASE DumpChunk
    <2>1. Static /\ stage = "merge" /\ stage' = "pass2"
      BY <1>7 DEF DumpChunk, Static
    <2> QED
      BY <2>1, BuildingStutters
  <1>8. CASE DiskMerge
    <2>1. Static /\ stage = "merge" /\ stage' = "pass2"
      BY <1>8 DEF DiskMerge, Static
    <2> QED
      BY <2>1, BuildingStutters
  <1>9. ASSUME done_ivf_2 PROVE Abstract!Next
    <2>1. /\ Static /\ UNCHANGED disk
          /\ stage = "pass2" /\ stage' = "done" /\ callnum = Len(text)
      BY <1>9 DEF done_ivf_2, Static
    <2>2. isr' = isr /\ first_occr' = first_occr /\ text' = text /\ InvfLevel' = InvfLevel
      BY <2>1, StaticText DEF disk
    <2>3. [w \in Vocabulary |-> Entry(w)]'
            = [w \in Abstract!Vocabulary(text) |-> Abstract!Postings(text, w)]
      BY <2>1, <2>2, EntriesSame, IndexIs
    <2>4. Abstract!Vocabulary(text) # {}
      <3>1. first_occr # <<>>
        BY <2>1 DEF Inv, StageOK
      <3> QED
        BY <3>1, VocabIs
    <2>5. Abstract!Publish
      BY <2>1, <2>2, <2>3, <2>4 DEF Abstract!Publish
    <2> QED
      BY <2>5 DEF Abstract!Next
  <1>10. CASE UNCHANGED vars
    <2>1. /\ InvfLevel' = InvfLevel /\ text' = text /\ stage' = stage
          /\ isr' = isr /\ first_occr' = first_occr
      BY <1>10 DEF vars, options, pass1, disk
    <2>2. [w \in Vocabulary |-> Entry(w)]' = [w \in Vocabulary |-> Entry(w)]
      BY <2>1, EntriesSame
    <2> QED
      BY <2>1, <2>2 DEF Abstract!vars
  <1> QED
    BY <1>2, <1>3, <1>4, <1>5, <1>6, <1>7, <1>8, <1>9, <1>10
       DEF Next, Pass1, Pass2

\* The two passes implement InvertedIndex: for every collection, vocabulary,
\* buffer size and ChunkLimit the file that comes out lists, for every word, the
\* documents that hold it and how often.
THEOREM BuildImplementsIndex == Spec => ImplementsIndex
  <1>1. Init => Inv /\ Abstract!Init
    BY InitInv, AbstractInit
  <1>2. Inv /\ [Next]_vars => Inv'
    BY StepInv
  <1>3. Inv /\ [Next]_vars => [Abstract!Next]_Abstract!vars
    BY AbstractStep
  <1> QED
    BY <1>1, <1>2, <1>3, PTL DEF Spec, ImplementsIndex, Abstract!Spec
----------------------------------------------------------------------------
(* Room on disk.                                                           *)

\* The bound pass 2 reserves room by for the counts of a word (init_ivf_2) is
\* one: a fact about logarithms, and none about the program.  At level 1 there
\* are no counts.
GammaRoom ==
  InvfLevel >= 2 =>
    \A w \in Vocabulary :
      /\ GammaBound(ent[w].wcnt, ent[w].fcnt) \in Nat
      /\ CountBits(w, F(Len(text), w)) <= GammaBound(ent[w].wcnt, ent[w].fcnt)

\* Where an entry on disk stands.
LEMMA EntryPlace ==
  ASSUME Inv, Running
  PROVE  Cut(First) \in 0..Len(text) /\ Len(text) \in Nat
  <1>1. /\ at \in 0..Len(cuts) /\ Len(cuts) \in Nat /\ Len(text) \in Nat
    BY Places DEF Inv
  <1>2. Len(chunk_data) \in Nat /\ Len(chunk_data) <= at
    BY AppendIsSeq DEF Inv, RunningOK, HeldOK
  <1>3. First \in 0..Len(cuts)
    BY <1>1, <1>2 DEF First
  <1> QED
    BY <1>1, <1>3 DEF Inv, IInv, ChunksOK

\* The region of a word holds its entry.
LEMMA EntryFits ==
  ASSUME Inv, Running, GammaRoom, NEW w \in Vocabulary
  PROVE  /\ isr[w].used \in Nat /\ isr[w].used <= DiskRegion(w)
         /\ Bytes(isr[w].used) \in Nat /\ DiskRegion(w) \in Nat
         /\ 8 * Bytes(isr[w].used) <= DiskRegion(w)
  <1>1. w \in Words /\ TotalsOK /\ CountsOK /\ EntryOK /\ InvfLevel \in {1, 2, 3}
    BY VocabIs DEF Inv, IInv, RunningOK, CountsOK
  <1>2. PICK L, p, c, B, m : /\ L = Len(text) /\ p = F(Len(text), w) /\ c = Cut(First)
                             /\ B = isr[w].B /\ m = F(Cut(First), w)
    OBVIOUS
  <1>3. /\ L \in Nat /\ c \in 0..L /\ L \in 0..L /\ c <= L
    BY <1>2, EntryPlace
  <1>4. p \in Nat /\ m \in Nat /\ m \in 0..p
    <2>1. F(c, w) \in Nat /\ F(L, w) \in Nat /\ F(c, w) <= F(L, w)
      BY <1>1, <1>2, <1>3, CountMonotone
    <2> QED
      BY <1>2, <2>1
  <1>5. B \in Operand /\ isr[w].used = GapBits(w, m, B) + CountBits(w, m)
    BY <1>1, <1>2 DEF EntryOK, EntryUpTo
  <1>6. /\ GapBits(w, m, B) \in Nat /\ CountBits(w, m) \in Nat
        /\ GapBits(w, m, B) <= BblockBoundB(L, p, B) /\ BblockBoundB(L, p, B) \in Int
    BY <1>1, <1>2, <1>4, <1>5, BitsType, GapBitsFit
  <1>7. ent[w].fcnt = p
    BY <1>1, <1>2 DEF CountsOK, CountedSince
  <1>8. PICK r : r = IF InvfLevel >= 2 THEN GammaBound(ent[w].wcnt, ent[w].fcnt) ELSE 0
    OBVIOUS
  <1>9. CountBits(w, m) <= r /\ r \in Nat
    <2>1. CASE InvfLevel >= 2
      <3>1. r \in Nat /\ CountBits(w, p) <= r
        BY <1>2, <1>8, <2>1 DEF GammaRoom
      <3>2. CountBits(w, m) <= CountBits(w, p)
        BY <1>1, <1>2, <1>4, CountBitsGrow
      <3>3. CountBits(w, p) \in Nat
        <4>1. p \in 0..F(Len(text), w)
          BY <1>2, <1>4
        <4> QED
          BY <1>1, <1>5, <4>1, BitsType
      <3> QED
        BY ONLY <1>6, <3>1, <3>2, <3>3
    <2>2. CASE ~(InvfLevel >= 2)
      <3>1. [i \in 1..m |-> CountLength(w, i)] = [i \in 1..m |-> 0]
        BY <2>2 DEF CountLength
      <3>2. IsFiniteSet(1..m)
        BY <1>4, FS_Interval
      <3>3. SumFunctionOnSet([i \in 1..m |-> 0], 1..m) = 0
        BY <3>2, SumZero
      <3>4. CountBits(w, m) = 0
        BY <3>1, <3>3, Zenon DEF CountBits
      <3> QED
        BY <1>8, <2>2, <3>4
    <2> QED
      BY <2>1, <2>2
  <1>10. PICK u, x : u = isr[w].used /\ x = BblockBoundB(L, p, B) + r
    OBVIOUS
  <1>11. u \in Nat /\ x \in Nat /\ u <= x
    BY ONLY <1>5, <1>6, <1>9, <1>10
  <1>12. DiskRegion(w) = 8 * Bytes(x)
    <2>1. DiskRegion(w) = 8 * Bytes(BblockBoundB(Len(text), ent[w].fcnt, isr[w].B)
              + IF InvfLevel >= 2 THEN GammaBound(ent[w].wcnt, ent[w].fcnt) ELSE 0)
      BY Zenon DEF DiskRegion
    <2> QED
      BY ONLY <1>2, <1>7, <1>8, <1>10, <2>1, Zenon
  <1>13. Bytes(x) \in Nat /\ x <= 8 * Bytes(x) /\ Bytes(u) \in Nat
    BY <1>11, BytesType
  <1>14. Bytes(u) <= Bytes(x)
    <2>1. u + 7 \in Int /\ x + 7 \in Int /\ u + 7 <= x + 7
      BY <1>11
    <2>2. (x + 7) \div 8 \in Int /\ x + 7 <= ((x + 7) \div 8 + 1) * 8
      BY <1>11
    <2> QED
      BY <1>11 DEF Bytes
  <1> QED
    BY ONLY <1>10, <1>11, <1>12, <1>13, <1>14

LEMMA InvDiskFits == Inv /\ GammaRoom => DiskFits
  <1> SUFFICES ASSUME Inv, GammaRoom, stage \notin {"pass1", "built", "failed"},
                      NEW w \in Vocabulary
               PROVE  isr[w].used <= DiskRegion(w)
    BY DEF DiskFits
  <1>1. Running
    BY DEF Inv, StageOK, Running
  <1> QED
    BY <1>1, EntryFits

\* A merge never writes past the end of a word's region of the inverted file
\* (ivf.pass2.c:646-704), given that the bound its counts were given room by is
\* one; at level 1 there is nothing to be given.
THEOREM DiskAlwaysFits == Spec => [](GammaRoom => DiskFits)
  <1>1. Init => Inv
    BY InitInv
  <1>2. Inv /\ [Next]_vars => Inv'
    BY StepInv
  <1>3. Inv => (GammaRoom => DiskFits)
    BY InvDiskFits
  <1> QED
    BY <1>1, <1>2, <1>3, PTL DEF Spec

COROLLARY DiskFitsLevelOne == Spec => [](InvfLevel = 1 => DiskFits)
  <1>1. (GammaRoom => DiskFits) => (InvfLevel = 1 => DiskFits)
    BY DEF GammaRoom
  <1> QED
    BY <1>1, DiskAlwaysFits, PTL

\* The place of the entry of w in the compacted file.
Compacted(w) ==
  168 + SumFunctionOnSet([v \in Vocabulary |-> Bytes(isr[v].used)],
                         {v \in Vocabulary : v < w})

PlacedOK == stage = "done" => invf_idx = [w \in Vocabulary |-> Compacted(w)]

LEMMA CompactedSame ==
  ASSUME isr' = isr, first_occr' = first_occr
  PROVE  [w \in Vocabulary |-> Compacted(w)]' = [w \in Vocabulary |-> Compacted(w)]
  BY DEF Vocabulary, Known, Compacted

LEMMA StepPlaced == Inv /\ PlacedOK /\ [Next]_vars => PlacedOK'
  <1> SUFFICES ASSUME Inv, PlacedOK, [Next]_vars, stage' = "done"
               PROVE  invf_idx' = [w \in Vocabulary |-> Compacted(w)]'
    BY DEF PlacedOK
  <1>1. CASE done_ivf_2
    <2>1. Static /\ UNCHANGED disk
          /\ invf_idx' = [w \in Vocabulary |-> Compacted(w)]
      BY <1>1 DEF done_ivf_2, Static, Compacted
    <2>2. isr' = isr /\ first_occr' = first_occr
      BY <2>1, StaticText DEF disk
    <2> QED
      BY <2>1, <2>2, CompactedSame
  <1>2. CASE UNCHANGED vars
    <2>1. isr' = isr /\ first_occr' = first_occr /\ stage' = stage /\ invf_idx' = invf_idx
      BY <1>2 DEF vars, pass1, disk
    <2> QED
      BY <2>1, CompactedSame DEF PlacedOK
  <1>3. ASSUME NEW d \in Documents, NEW fresh \in FirstOccurrences(d), ProcessDoc1(d, fresh)
        PROVE  FALSE
    <2>1. stage = "pass1" /\ UNCHANGED <<options, stage, memory, disk, invf_idx>>
      BY <1>3, Zenon DEF ProcessDoc1
    <2> QED
      BY ONLY <2>1, stage' = "done"
  <1>4. CASE Done1
    BY <1>4 DEF Done1
  <1>5. CASE init_ivf_2 \/ DumpChunk \/ DiskMerge
    BY <1>5 DEF init_ivf_2, DumpChunk, DiskMerge
  <1>6. CASE LoadCounts
    BY <1>6, LoadFacts
  <1>7. CASE ProcessDoc2
    BY <1>7 DEF ProcessDoc2
  <1> QED
    BY <1>1, <1>2, <1>3, <1>4, <1>5, <1>6, <1>7 DEF Next, Pass1, Pass2

LEMMA InvCompactionSafe == Inv /\ PlacedOK /\ GammaRoom => CompactionSafe
  <1> SUFFICES ASSUME Inv, PlacedOK, GammaRoom, stage = "done", NEW w \in Vocabulary
               PROVE  8 * invf_idx[w] <= DiskStart(w)
    BY DEF CompactionSafe
  <1>1. PICK T, f, g, h : /\ T = {v \in Vocabulary : v < w}
                          /\ f = [v \in Vocabulary |-> Bytes(isr[v].used)]
                          /\ g = [v \in Vocabulary |-> 8 * Bytes(isr[v].used)]
                          /\ h = [v \in Vocabulary |-> DiskRegion(v)]
    OBVIOUS
  <1>2. T \subseteq Vocabulary /\ IsFiniteSet(T)
    <2>1. Vocabulary \subseteq Words /\ T \subseteq Words
      BY <1>1, VocabIs
    <2> QED
      BY <1>1, <2>1, WordsFinite, FS_Subset
  <1>3. ASSUME NEW v \in T
        PROVE  f[v] \in Int /\ g[v] = 8 * f[v] /\ g[v] \in Int /\ h[v] \in Int /\ g[v] <= h[v]
    <2>1. v \in Vocabulary /\ Running
      BY <1>2 DEF Running
    <2>2. /\ Bytes(isr[v].used) \in Nat /\ DiskRegion(v) \in Nat
          /\ 8 * Bytes(isr[v].used) <= DiskRegion(v)
      BY <2>1, EntryFits
    <2> QED
      BY <1>1, <2>1, <2>2
  <1>4. PICK s, t, u : /\ s = SumFunctionOnSet(f, T) /\ t = SumFunctionOnSet(g, T)
                       /\ u = SumFunctionOnSet(h, T)
    OBVIOUS
  <1>5. t = 8 * s
    BY <1>2, <1>3, <1>4, SumScaled
  <1>6. t <= u /\ s \in Int /\ u \in Int
    BY <1>2, <1>3, <1>4, SumMonotone, SumInt
  <1>7. invf_idx[w] = 168 + s
    <2>1. invf_idx[w] = Compacted(w)
      BY DEF PlacedOK
    <2> QED
      BY <1>1, <1>4, <2>1, Zenon DEF Compacted
  <1>8. DiskStart(w) = 8 * 208 + u
    BY <1>1, <1>4, Zenon DEF DiskStart
  <1> QED
    BY ONLY <1>5, <1>6, <1>7, <1>8

\* done_ivf_2 compacts the file in place and never writes where it has still to
\* read (ivf.pass2.c:976-1012), under the same condition.
THEOREM CompactionAlwaysSafe == Spec => [](GammaRoom => CompactionSafe)
  <1>1. Init => Inv /\ PlacedOK
    BY InitInv DEF Init, PlacedOK
  <1>2. Inv /\ PlacedOK /\ [Next]_vars => (Inv /\ PlacedOK)'
    BY StepInv, StepPlaced
  <1>3. Inv /\ PlacedOK => (GammaRoom => CompactionSafe)
    BY InvCompactionSafe
  <1> QED
    BY <1>1, <1>2, <1>3, PTL DEF Spec
=============================================================================
