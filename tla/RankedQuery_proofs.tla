------------------------- MODULE RankedQuery_proofs -------------------------
(***************************************************************************)
(* The accumulators of a ranked query, for any number of documents, any    *)
(* terms and weights, any limits and any skips: the sums of the documents  *)
(* that have an accumulator are exact, without the limit none is missing,  *)
(* no table is written beyond its end, and a query at the limit stays      *)
(* there.  The invariant says where the decoder stands in the entry, which *)
(* accumulators the Anding loop has left behind, and what the postings     *)
(* left are still worth to each document.                                  *)
(*                                                                         *)
(* Then CosineGet: a heap of any size over any accumulators keeps the best *)
(* by their approximate weights, then by their exact ones, and empties in  *)
(* order, so what is answered is what a full sort would put first.         *)
(***************************************************************************)
EXTENDS RankedQuery, ArithmeticTheorems, SequenceTheorems

----------------------------------------------------------------------------
(* Documents in order.                                                     *)

Increasing(s) == \A x, y \in DOMAIN s : x < y => s[x] < s[y]

\* How many of a set of documents come before one.
Before(docs, d) == Cardinality({e \in docs : e < d})

\* Documents before one: fewer than there are, and more for each later document.
LEMMA BeforeFacts ==
  ASSUME NEW docs \in SUBSET Nat, IsFiniteSet(docs)
  PROVE  /\ Cardinality(docs) \in Nat
         /\ \A d \in docs : Before(docs, d) \in 0 .. Cardinality(docs) - 1
         /\ \A d, e \in docs : d < e => Before(docs, d) < Before(docs, e)
  <1>1. Cardinality(docs) \in Nat
    BY FS_CardinalityType
  <1>2. ASSUME NEW T \in SUBSET docs, NEW U \in SUBSET docs, T \subseteq U, NEW d \in U, d \notin T
        PROVE  Cardinality(T) \in Nat /\ Cardinality(U) \in Nat /\ Cardinality(T) < Cardinality(U)
    <2>1. IsFiniteSet(U) /\ IsFiniteSet(T) /\ Cardinality(T) \in Nat /\ Cardinality(U) \in Nat
      BY FS_Subset, FS_CardinalityType
    <2>2. Cardinality(T) <= Cardinality(U) /\ (Cardinality(T) = Cardinality(U) => U = T)
      BY <1>2, <2>1, FS_Subset
    <2> QED
      BY <1>2, <2>1, <2>2
  <1>3. ASSUME NEW d \in docs PROVE Before(docs, d) \in 0 .. Cardinality(docs) - 1
    <2>1. PICK T : T = {e \in docs : e < d}
      OBVIOUS
    <2>2. T \in SUBSET docs /\ d \notin T /\ docs \in SUBSET docs /\ T \subseteq docs
      BY <2>1
    <2>3. Cardinality(T) \in Nat /\ Cardinality(T) < Cardinality(docs)
      BY <1>2, <2>2
    <2>4. Before(docs, d) = Cardinality(T)
      BY <2>1 DEF Before
    <2> QED
      BY <1>1, <2>3, <2>4
  <1>4. ASSUME NEW d \in docs, NEW e \in docs, d < e PROVE Before(docs, d) < Before(docs, e)
    <2>1. PICK T : T = {a \in docs : a < d}
      OBVIOUS
    <2>2. PICK U : U = {a \in docs : a < e}
      OBVIOUS
    <2>3. T \in SUBSET docs /\ U \in SUBSET docs
      BY <2>1, <2>2
    <2>4. T \subseteq U /\ d \in U /\ d \notin T
      <3>1. d \in Nat /\ e \in Nat
        OBVIOUS
      <3>2. \A a \in Nat : a < d => a < e
        BY <1>4, <3>1
      <3>3. ~(d < d)
        BY <3>1
      <3> QED
        BY <1>4, <2>1, <2>2, <3>2, <3>3
    <2>5. Cardinality(T) < Cardinality(U)
      BY <1>2, <2>3, <2>4
    <2> QED
      BY <2>1, <2>2, <2>5 DEF Before
  <1> QED
    BY <1>1, <1>3, <1>4

\* The documents of a set in order: all of them, each once.
LEMMA InOrderIs ==
  ASSUME NEW docs \in SUBSET Nat, IsFiniteSet(docs)
  PROVE  /\ InOrder(docs) \in Seq(docs) /\ Len(InOrder(docs)) = Cardinality(docs)
         /\ DOMAIN InOrder(docs) = 1 .. Cardinality(docs) /\ Cardinality(docs) \in Nat
         /\ Increasing(InOrder(docs))
         /\ \A d \in docs : \E x \in DOMAIN InOrder(docs) : InOrder(docs)[x] = d
  <1>1. PICK n \in Nat : n = Cardinality(docs)
    BY FS_CardinalityType
  <1>2. PICK f : f = [d \in docs |-> Before(docs, d)]
    OBVIOUS
  <1>3. f \in [docs -> 0 .. n - 1] /\ \A d \in docs : f[d] = Before(docs, d)
    BY <1>1, <1>2, BeforeFacts
  <1>4. \A d, e \in docs : f[d] = f[e] => d = e
    <2>1. \A d, e \in docs : d < e => Before(docs, d) < Before(docs, e)
      BY BeforeFacts
    <2>2. SUFFICES ASSUME NEW d \in docs, NEW e \in docs, f[d] = f[e] PROVE d = e
      OBVIOUS
    <2>3. Before(docs, d) = Before(docs, e) /\ Before(docs, d) \in Int /\ d \in Nat /\ e \in Nat
      BY <1>3, <2>2, BeforeFacts
    <2>4. ~(d < e) /\ ~(e < d)
      BY <2>1, <2>3
    <2> QED
      BY <2>3, <2>4
  <1>5. f \in Injection(docs, 0 .. n - 1)
    BY <1>3, <1>4 DEF Injection, IsInjective
  <1>6. IsFiniteSet(0 .. n - 1) /\ Cardinality(0 .. n - 1) = n
    <2>1. 0 \in Int /\ n - 1 \in Int /\ (IF 0 > n - 1 THEN 0 ELSE (n - 1) - 0 + 1) = n
      OBVIOUS
    <2> QED
      BY <2>1, FS_Interval
  <1>7. f \in Surjection(docs, 0 .. n - 1)
    BY <1>1, <1>5, <1>6, FS_Injection
  <1>8. \A x \in 1 .. n : \E d \in docs : Before(docs, d) = x - 1
    <2> SUFFICES ASSUME NEW x \in 1 .. n PROVE \E d \in docs : Before(docs, d) = x - 1
      OBVIOUS
    <2>1. x - 1 \in 0 .. n - 1
      OBVIOUS
    <2> QED
      BY <1>3, <1>7, <2>1 DEF Surjection
  <1>9. InOrder(docs) = [x \in 1 .. n |-> CHOOSE d \in docs : Before(docs, d) = x - 1]
    BY <1>1 DEF InOrder, Before
  <1>10. \A x \in 1 .. n : InOrder(docs)[x] \in docs /\ Before(docs, InOrder(docs)[x]) = x - 1
    BY <1>8, <1>9
  <1>11. InOrder(docs) \in Seq(docs) /\ Len(InOrder(docs)) = n /\ DOMAIN InOrder(docs) = 1 .. n
    <2>1. InOrder(docs) \in [1 .. n -> docs]
      BY <1>9, <1>10
    <2> QED
      BY <2>1
  <1>12. Increasing(InOrder(docs))
    <2> SUFFICES ASSUME NEW x \in 1 .. n, NEW y \in 1 .. n, x < y
                 PROVE  InOrder(docs)[x] < InOrder(docs)[y]
      BY <1>11 DEF Increasing
    <2>1. PICK d \in docs : d = InOrder(docs)[x]
      BY <1>10
    <2>2. PICK e \in docs : e = InOrder(docs)[y]
      BY <1>10
    <2>3. Before(docs, d) < Before(docs, e)
      BY <1>10, <2>1, <2>2
    <2>4. d # e /\ ~(e < d)
      <3>1. e < d => Before(docs, e) < Before(docs, d)
        BY BeforeFacts
      <3>2. Before(docs, d) \in Int /\ Before(docs, e) \in Int
        BY BeforeFacts
      <3> QED
        BY <2>3, <3>1, <3>2
    <2> QED
      BY <2>1, <2>2, <2>4
  <1>13. ASSUME NEW d \in docs PROVE \E x \in DOMAIN InOrder(docs) : InOrder(docs)[x] = d
    <2>1. PICK x \in 1 .. n : x = Before(docs, d) + 1
      <3>1. Before(docs, d) \in 0 .. n - 1
        BY <1>1, BeforeFacts
      <3> QED
        BY <3>1
    <2>2. f[InOrder(docs)[x]] = x - 1 /\ f[d] = x - 1 /\ InOrder(docs)[x] \in docs
      <3>1. PICK b \in Int : b = Before(docs, d)
        BY BeforeFacts
      <3>2. x - 1 = b
        BY <2>1, <3>1
      <3>3. PICK e \in docs : e = InOrder(docs)[x] /\ Before(docs, e) = x - 1
        BY <1>10
      <3> QED
        BY <1>3, <3>1, <3>2, <3>3
    <2>3. InOrder(docs)[x] = d
      BY <1>4, <2>2
    <2> QED
      BY <1>11, <2>3
  <1> QED
    BY <1>1, <1>11, <1>12, <1>13

----------------------------------------------------------------------------
(* Entries of the tables.                                                  *)

OneEach(s) == \A x, y \in DOMAIN s : s[x].doc = s[y].doc => x = y

DocOrder(s) == \A x, y \in DOMAIN s : x < y => s[x].doc < s[y].doc

\* What SumOf adds up.
Sums(s) == [x \in DOMAIN s |-> s[x].sum]

Of(s, d) == {x \in DOMAIN s : s[x].doc = d}

\* SumOf by its parts.
LEMMA SumOfIs ==
  ASSUME NEW s, NEW d
  PROVE  SumOf(s, d) = SumFunctionOnSet(Sums(s), Of(s, d))
  BY DEF SumOf, Sums, Of

\* What entries are made of.
LEMMA EntryFacts ==
  ASSUME NEW s \in Seq(Entry)
  PROVE  /\ DOMAIN s = 1 .. Len(s) /\ Len(s) \in Nat
         /\ \A x \in DOMAIN s : s[x] \in Entry /\ s[x].doc \in Docs /\ s[x].sum \in Nat
                                /\ s[x].doc \in DocsIn(s)
         /\ DocsIn(s) \subseteq Docs /\ DocsIn(s) \in SUBSET Nat /\ IsFiniteSet(DocsIn(s))
         /\ \A d : Of(s, d) \in SUBSET (1 .. Len(s)) /\ IsFiniteSet(Of(s, d))
  <1>1. DOMAIN s = 1 .. Len(s) /\ Len(s) \in Nat /\ \A x \in DOMAIN s : s[x] \in Entry
    OBVIOUS
  <1>2. \A e \in Entry : e.doc \in Docs /\ e.sum \in Nat
    BY DEF Entry
  <1>3. DocsIn(s) \subseteq Docs
    BY <1>1, <1>2 DEF DocsIn
  <1>4. Docs \subseteq Nat /\ IsFiniteSet(Docs)
    <2>1. 0 \in Int /\ NumDocs - 1 \in Int
      BY AccumulatorsAssumption
    <2> QED
      BY <2>1, FS_Interval DEF Docs
  <1>5. IsFiniteSet(DocsIn(s))
    BY <1>3, <1>4, FS_Subset
  <1>6. IsFiniteSet(1 .. Len(s))
    BY <1>1, FS_Interval
  <1>7. \A d : Of(s, d) \in SUBSET (1 .. Len(s))
    BY <1>1 DEF Of
  <1>8. \A d : IsFiniteSet(Of(s, d))
    BY <1>6, <1>7, FS_Subset
  <1>9. \A x \in DOMAIN s : s[x].doc \in DocsIn(s)
    BY DEF DocsIn
  <1> QED
    BY <1>1, <1>2, <1>3, <1>4, <1>5, <1>7, <1>8, <1>9

\* The place of a document that has an entry.
LEMMA PlaceIs ==
  ASSUME NEW s, NEW d \in DocsIn(s)
  PROVE  Place(s, d) \in DOMAIN s /\ s[Place(s, d)].doc = d
  BY DEF Place, DocsIn

\* There are no more documents than entries, and as many where each has one.
LEMMA DocsCounted ==
  ASSUME NEW s \in Seq(Entry)
  PROVE  /\ Cardinality(DocsIn(s)) \in Nat /\ Cardinality(DocsIn(s)) <= Len(s)
         /\ OneEach(s) => Cardinality(DocsIn(s)) = Len(s)
  <1>1. DOMAIN s = 1 .. Len(s) /\ Len(s) \in Nat /\ IsFiniteSet(DocsIn(s))
    BY EntryFacts
  <1>2. PICK f : f = [x \in 1 .. Len(s) |-> s[x].doc]
    OBVIOUS
  <1>3. f \in Surjection(1 .. Len(s), DocsIn(s))
    BY <1>1, <1>2 DEF Surjection, DocsIn
  <1>4. IsFiniteSet(1 .. Len(s)) /\ Cardinality(1 .. Len(s)) = Len(s)
    <2>1. 1 \in Int /\ Len(s) \in Int /\ (IF 1 > Len(s) THEN 0 ELSE Len(s) - 1 + 1) = Len(s)
      BY <1>1
    <2> QED
      BY <2>1, FS_Interval
  <1>5. Cardinality(DocsIn(s)) \in Nat
    BY <1>1, FS_CardinalityType
  <1>6. /\ Cardinality(DocsIn(s)) <= Len(s)
        /\ Cardinality(DocsIn(s)) = Len(s) <=> f \in Injection(1 .. Len(s), DocsIn(s))
    BY <1>3, <1>4, FS_Surjection
  <1>7. OneEach(s) => f \in Injection(1 .. Len(s), DocsIn(s))
    BY <1>1, <1>2, <1>3 DEF OneEach, Injection, IsInjective, Surjection
  <1> QED
    BY <1>5, <1>6, <1>7

\* A sum is a number.
LEMMA SumType ==
  ASSUME NEW s \in Seq(Entry), NEW d
  PROVE  SumOf(s, d) \in Nat
  <1>1. IsFiniteSet(Of(s, d)) /\ \A x \in Of(s, d) : Sums(s)[x] \in Nat
    BY EntryFacts DEF Of, Sums
  <1> QED
    BY <1>1, SumNat, SumOfIs

\* A document without an entry has nothing.
LEMMA SumAbsent ==
  ASSUME NEW s, NEW d, d \notin DocsIn(s)
  PROVE  SumOf(s, d) = 0
  <1>1. Of(s, d) = {}
    BY DEF Of, DocsIn
  <1> QED
    BY <1>1, SumEmpty, SumOfIs

\* A document with one entry has what that comes to.
LEMMA SumOne ==
  ASSUME NEW s \in Seq(Entry), OneEach(s), NEW x \in DOMAIN s
  PROVE  SumOf(s, s[x].doc) = s[x].sum
  <1>1. Of(s, s[x].doc) = {} \cup {x}
    BY DEF Of, OneEach
  <1>2. IsFiniteSet({}) /\ x \notin {} /\ \A y \in {} \cup {x} : Sums(s)[y] \in Int
    BY EntryFacts, FS_EmptySet DEF Sums
  <1>3. SumFunctionOnSet(Sums(s), {} \cup {x}) = SumFunctionOnSet(Sums(s), {}) + Sums(s)[x]
    BY <1>2, SumAdd
  <1>4. SumFunctionOnSet(Sums(s), {}) = 0 /\ Sums(s)[x] = s[x].sum /\ s[x].sum \in Nat
    BY SumEmpty, EntryFacts DEF Sums
  <1>5. SumOf(s, s[x].doc) = SumFunctionOnSet(Sums(s), Of(s, s[x].doc))
    BY SumOfIs
  <1>6. SumOf(s, s[x].doc) = SumFunctionOnSet(Sums(s), {} \cup {x})
    BY <1>1, <1>5
  <1> QED
    BY <1>3, <1>4, <1>6

\* The two ways entries change: more for an entry, and an entry more.
Bumped(s, x, w) == [s EXCEPT ![x].sum = @ + w]

Grown(s, d, w) == Append(s, [doc |-> d, sum |-> w])

\* What more for an entry does to sums and documents.
LEMMA BumpedIs ==
  ASSUME NEW s \in Seq(Entry), NEW x \in DOMAIN s, NEW w \in Nat
  PROVE  /\ Bumped(s, x, w) \in Seq(Entry) /\ Len(Bumped(s, x, w)) = Len(s)
         /\ DOMAIN Bumped(s, x, w) = DOMAIN s
         /\ \A y \in DOMAIN s : Bumped(s, x, w)[y].doc = s[y].doc
         /\ DocsIn(Bumped(s, x, w)) = DocsIn(s)
         /\ \A d : SumOf(Bumped(s, x, w), d) = SumOf(s, d) + IF d = s[x].doc THEN w ELSE 0
         /\ (DocOrder(s) => DocOrder(Bumped(s, x, w))) /\ (OneEach(s) => OneEach(Bumped(s, x, w)))
  <1>0. PICK t : t = Bumped(s, x, w)
    OBVIOUS
  <1>1. /\ DOMAIN s = 1 .. Len(s) /\ Len(s) \in Nat
        /\ \A y \in DOMAIN s : s[y] \in Entry /\ s[y].doc \in Docs /\ s[y].sum \in Nat
    BY EntryFacts
  <1>2. [s[x] EXCEPT !.sum = @ + w] = [doc |-> s[x].doc, sum |-> s[x].sum + w]
    BY <1>1 DEF Entry
  <1>3. \A y \in DOMAIN s : t[y] = IF y = x THEN [doc |-> s[x].doc, sum |-> s[x].sum + w] ELSE s[y]
    BY <1>0, <1>2 DEF Bumped
  <1>4. [doc |-> s[x].doc, sum |-> s[x].sum + w] \in Entry
    BY <1>1 DEF Entry
  <1>5. t \in Seq(Entry) /\ Len(t) = Len(s) /\ DOMAIN t = DOMAIN s
    <2>1. DOMAIN t = 1 .. Len(s) /\ \A y \in 1 .. Len(s) : t[y] \in Entry
      BY <1>0, <1>1, <1>3, <1>4 DEF Bumped
    <2>2. t \in [1 .. Len(s) -> Entry]
      BY <1>0, <2>1 DEF Bumped
    <2> QED
      BY <1>1, <2>2
  <1>6. \A y \in DOMAIN s : t[y].doc = s[y].doc
    BY <1>3
  <1>7. DocsIn(t) = DocsIn(s)
    BY <1>5, <1>6 DEF DocsIn
  <1>8. ASSUME NEW d PROVE SumOf(t, d) = SumOf(s, d) + IF d = s[x].doc THEN w ELSE 0
    <2>1. Of(t, d) = Of(s, d)
      BY <1>5, <1>6 DEF Of
    <2>2. PICK S : S = Of(s, d)
      OBVIOUS
    <2>3. PICK f : f = Sums(s)
      OBVIOUS
    <2>4. PICK g : g = Sums(t)
      OBVIOUS
    <2>5. /\ S \subseteq DOMAIN s /\ IsFiniteSet(S)
          /\ \A y \in DOMAIN s : /\ f[y] \in Int /\ g[y] \in Int
                                 /\ g[y] = f[y] + IF y = x THEN w ELSE 0
      <3>1. S \subseteq DOMAIN s /\ IsFiniteSet(S)
        BY <2>2, EntryFacts DEF Of
      <3>2. \A y \in DOMAIN s : f[y] = s[y].sum /\ g[y] = t[y].sum
        BY <1>5, <2>3, <2>4 DEF Sums
      <3> QED
        BY <1>1, <1>3, <3>1, <3>2
    <2>6. SumOf(s, d) = SumFunctionOnSet(f, S) /\ SumOf(t, d) = SumFunctionOnSet(g, S)
      BY <2>1, <2>2, <2>3, <2>4, SumOfIs
    <2>7. SumFunctionOnSet(f, S) \in Int
      BY <2>5, SumInt
    <2>8. CASE d = s[x].doc
      <3>1. x \in S
        BY <2>2, <2>8 DEF Of
      <3>2. PICK T : T = S \ {x}
        OBVIOUS
      <3>3. IsFiniteSet(T) /\ \A y \in T : f[y] \in Int /\ g[y] = f[y]
        <4>1. IsFiniteSet(T)
          BY <2>5, <3>2, FS_Subset
        <4>2. \A y \in T : y \in DOMAIN s /\ y # x
          BY <2>5, <3>2
        <4> QED
          BY <2>5, <4>1, <4>2
      <3>4. SumFunctionOnSet(f, T) = SumFunctionOnSet(g, T) /\ SumFunctionOnSet(f, T) \in Int
        BY <3>3, SumSame, SumInt
      <3>5. \A y \in S : f[y] \in Int /\ g[y] \in Int
        BY <2>5
      <3>6. /\ SumFunctionOnSet(f, S) = f[x] + SumFunctionOnSet(f, T)
            /\ SumFunctionOnSet(g, S) = g[x] + SumFunctionOnSet(g, T)
        BY <2>5, <3>1, <3>2, <3>5, SumTake
      <3>7. g[x] = f[x] + w /\ f[x] \in Int
        BY <2>5
      <3> QED
        BY <2>6, <2>8, <3>4, <3>6, <3>7
    <2>9. CASE d # s[x].doc
      <3>1. \A y \in S : f[y] \in Int /\ g[y] = f[y]
        <4>1. \A y \in S : y \in DOMAIN s /\ y # x
          BY <2>2, <2>9 DEF Of
        <4> QED
          BY <2>5, <4>1
      <3>2. SumFunctionOnSet(f, S) = SumFunctionOnSet(g, S)
        BY <2>5, <3>1, SumSame
      <3> QED
        BY <2>6, <2>7, <2>9, <3>2
    <2> QED
      BY <2>8, <2>9
  <1>9. (DocOrder(s) => DocOrder(t)) /\ (OneEach(s) => OneEach(t))
    BY <1>5, <1>6 DEF DocOrder, OneEach
  <1> QED
    BY <1>0, <1>5, <1>6, <1>7, <1>8, <1>9

\* What an entry more does to sums and documents.
LEMMA GrownIs ==
  ASSUME NEW s \in Seq(Entry), NEW d \in Docs, NEW w \in Nat
  PROVE  /\ Grown(s, d, w) \in Seq(Entry) /\ Len(Grown(s, d, w)) = Len(s) + 1
         /\ DocsIn(Grown(s, d, w)) = DocsIn(s) \cup {d}
         /\ \A e : SumOf(Grown(s, d, w), e) = SumOf(s, e) + IF e = d THEN w ELSE 0
         /\ OneEach(s) /\ d \notin DocsIn(s) => OneEach(Grown(s, d, w))
  <1>0. PICK t : t = Grown(s, d, w)
    OBVIOUS
  <1>1. /\ DOMAIN s = 1 .. Len(s) /\ Len(s) \in Nat
        /\ \A y \in DOMAIN s : s[y] \in Entry /\ s[y].doc \in Docs /\ s[y].sum \in Nat
    BY EntryFacts
  <1>2. PICK n \in Nat : n = Len(s) + 1
    BY <1>1
  <1>3. [doc |-> d, sum |-> w] \in Entry
    BY DEF Entry
  <1>4. /\ t \in Seq(Entry) /\ Len(t) = n /\ DOMAIN t = 1 .. n /\ DOMAIN t = DOMAIN s \cup {n}
        /\ n \notin DOMAIN s
        /\ \A y \in DOMAIN s : t[y] = s[y]
        /\ t[n] = [doc |-> d, sum |-> w]
    BY <1>0, <1>1, <1>2, <1>3 DEF Grown
  <1>5. DocsIn(t) = DocsIn(s) \cup {d}
    <2>1. \A y \in DOMAIN s : t[y].doc = s[y].doc
      BY <1>4
    <2>2. t[n].doc = d /\ DOMAIN t = DOMAIN s \cup {n}
      BY <1>4
    <2> QED
      BY <2>1, <2>2 DEF DocsIn
  <1>8. DOMAIN t = DOMAIN s \cup {n} /\ n \notin DOMAIN s /\ t[n].doc = d /\ \A y \in DOMAIN s : t[y].doc = s[y].doc
    <2>1. \A y \in DOMAIN s : t[y].doc = s[y].doc
      BY <1>4
    <2>2. t[n].doc = d /\ DOMAIN t = DOMAIN s \cup {n} /\ n \notin DOMAIN s
      BY <1>4
    <2> QED
      BY <2>1, <2>2
  <1>6. ASSUME NEW e PROVE SumOf(t, e) = SumOf(s, e) + IF e = d THEN w ELSE 0
    <2>1. PICK S : S = Of(s, e)
      OBVIOUS
    <2>2. PICK f : f = Sums(s)
      OBVIOUS
    <2>3. PICK g : g = Sums(t)
      OBVIOUS
    <2>4. /\ S \subseteq DOMAIN s /\ IsFiniteSet(S) /\ n \notin S
          /\ \A y \in DOMAIN s : f[y] \in Int /\ g[y] = f[y]
          /\ g[n] = w
      <3>1. S \subseteq DOMAIN s /\ IsFiniteSet(S)
        BY <2>1, EntryFacts DEF Of
      <3>2. \A y \in DOMAIN s : f[y] = s[y].sum /\ g[y] = t[y].sum
        BY <1>4, <2>2, <2>3 DEF Sums
      <3>3. g[n] = w
        BY <1>4, <2>3 DEF Sums
      <3> QED
        BY <1>1, <1>4, <3>1, <3>2, <3>3
    <2>5. SumOf(s, e) = SumFunctionOnSet(f, S) /\ SumOf(t, e) = SumFunctionOnSet(g, Of(t, e))
      BY <2>1, <2>2, <2>3, SumOfIs
    <2>6. SumFunctionOnSet(f, S) = SumFunctionOnSet(g, S) /\ SumFunctionOnSet(f, S) \in Int
      <3>1. \A y \in S : f[y] \in Int /\ g[y] = f[y]
        BY <2>4
      <3> QED
        BY <2>4, <3>1, SumSame, SumInt
    <2>7. CASE e = d
      <3>1. Of(t, e) = S \cup {n}
        BY <1>8, <2>1, <2>7 DEF Of
      <3>2. \A y \in S \cup {n} : g[y] \in Int
        BY <2>4
      <3>3. SumFunctionOnSet(g, S \cup {n}) = SumFunctionOnSet(g, S) + g[n]
        BY <2>4, <3>2, SumAdd
      <3> QED
        BY <2>4, <2>5, <2>6, <2>7, <3>1, <3>3
    <2>8. CASE e # d
      <3>1. Of(t, e) = S
        BY <1>8, <2>1, <2>8 DEF Of
      <3> QED
        BY <2>5, <2>6, <2>8, <3>1
    <2> QED
      BY <2>7, <2>8
  <1>7. OneEach(s) /\ d \notin DocsIn(s) => OneEach(t)
    <2> SUFFICES ASSUME OneEach(s), d \notin DocsIn(s), NEW x \in DOMAIN t, NEW y \in DOMAIN t,
                        t[x].doc = t[y].doc
                 PROVE  x = y
      BY DEF OneEach
    <2>1. \A z \in DOMAIN s : t[z].doc = s[z].doc /\ t[z].doc # d
      BY <1>4 DEF DocsIn
    <2>2. t[n].doc = d
      BY <1>4
    <2> QED
      BY <1>4, <2>1, <2>2 DEF OneEach
  <1> QED
    BY <1>0, <1>2, <1>4, <1>5, <1>6, <1>7

\* Entries in order of documents are one of each.
LEMMA OrderOneEach ==
  ASSUME NEW s \in Seq(Entry), DocOrder(s)
  PROVE  OneEach(s)
  <1> SUFFICES ASSUME NEW x \in DOMAIN s, NEW y \in DOMAIN s, s[x].doc = s[y].doc PROVE x = y
    BY DEF OneEach
  <1>1. x \in Nat /\ y \in Nat /\ s[x].doc \in Nat /\ s[y].doc \in Nat
    <2>1. DOMAIN s = 1 .. Len(s) /\ Len(s) \in Nat /\ DocsIn(s) \in SUBSET Nat
          /\ s[x].doc \in DocsIn(s) /\ s[y].doc \in DocsIn(s)
      BY EntryFacts
    <2> QED
      BY <2>1
  <1>2. ~(x < y) /\ ~(y < x)
    <2>1. x < y => s[x].doc < s[y].doc
      BY DEF DocOrder
    <2>2. y < x => s[y].doc < s[x].doc
      BY DEF DocOrder
    <2> QED
      BY <1>1, <2>1, <2>2
  <1> QED
    BY <1>1, <1>2

\* Entries listed by document: for each document one entry of it.
LEMMA ListedByDoc ==
  ASSUME NEW s \in Seq(Entry), NEW t, DOMAIN t = DOMAIN InOrder(DocsIn(s)), t = [x \in DOMAIN t |-> t[x]],
         \A x \in DOMAIN t : t[x] \in Entry /\ t[x].doc = InOrder(DocsIn(s))[x]
  PROVE  /\ t \in Seq(Entry) /\ Len(t) = Cardinality(DocsIn(s)) /\ Cardinality(DocsIn(s)) \in Nat
         /\ DocOrder(t) /\ OneEach(t) /\ DocsIn(t) = DocsIn(s)
  <1>1. DocsIn(s) \in SUBSET Nat /\ IsFiniteSet(DocsIn(s))
    BY EntryFacts
  <1>2. PICK u : u = InOrder(DocsIn(s))
    OBVIOUS
  <1>3. PICK n \in Nat : n = Cardinality(DocsIn(s))
    BY <1>1, FS_CardinalityType
  <1>4. /\ DOMAIN u = 1 .. n /\ Increasing(u) /\ u \in Seq(DocsIn(s)) /\ Len(u) = n
        /\ \A d \in DocsIn(s) : \E x \in DOMAIN u : u[x] = d
    BY <1>1, <1>2, <1>3, InOrderIs
  <1>5. DOMAIN t = 1 .. n /\ \A x \in 1 .. n : t[x] \in Entry /\ t[x].doc = u[x]
    BY <1>2, <1>4
  <1>6. t \in Seq(Entry) /\ Len(t) = n
    <2>1. PICK v \in [1 .. n -> Entry] : v = [x \in 1 .. n |-> t[x]]
      BY <1>5
    <2> QED
      BY <1>3, <1>5, <2>1
  <1>7. DocOrder(t)
    BY <1>4, <1>5 DEF DocOrder, Increasing
  <1>8. DocsIn(t) = DocsIn(s)
    <2>1. \A x \in 1 .. n : u[x] \in DocsIn(s)
      BY <1>4
    <2>2. \A d : d \in DocsIn(t) <=> \E x \in 1 .. n : u[x] = d
      BY <1>5 DEF DocsIn
    <2>3. \A d : d \in DocsIn(t) <=> d \in DocsIn(s)
      BY <1>4, <2>1, <2>2
    <2> QED
      BY <2>3
  <1> QED
    BY <1>3, <1>6, <1>7, <1>8, OrderOneEach

\* Sorting one entry of each document.
LEMMA ByDocIs ==
  ASSUME NEW s \in Seq(Entry), OneEach(s), NEW t, t = ByDoc(s)
  PROVE  /\ t \in Seq(Entry) /\ Len(t) = Len(s) /\ DocOrder(t) /\ OneEach(t)
         /\ DocsIn(t) = DocsIn(s) /\ \A d : SumOf(t, d) = SumOf(s, d)
  <1>1. DocsIn(s) \in SUBSET Nat /\ IsFiniteSet(DocsIn(s))
    BY EntryFacts
  <1>2. PICK u : u = InOrder(DocsIn(s))
    OBVIOUS
  <1>3. u \in Seq(DocsIn(s))
    BY <1>1, <1>2, InOrderIs
  <1>4. /\ DOMAIN t = DOMAIN u /\ \A x \in DOMAIN u : t[x] = s[Place(s, u[x])]
        /\ t = [x \in DOMAIN t |-> t[x]]
    BY <1>2 DEF ByDoc
  <1>5. \A x \in DOMAIN u : Place(s, u[x]) \in DOMAIN s /\ s[Place(s, u[x])].doc = u[x]
    <2>1. \A x \in DOMAIN u : u[x] \in DocsIn(s)
      BY <1>3
    <2> QED
      BY <2>1, PlaceIs
  <1>6. \A x \in DOMAIN t : t[x] \in Entry /\ t[x].doc = u[x]
    BY <1>4, <1>5, EntryFacts
  <1>7. /\ t \in Seq(Entry) /\ Len(t) = Cardinality(DocsIn(s))
        /\ DocOrder(t) /\ OneEach(t) /\ DocsIn(t) = DocsIn(s)
    BY <1>2, <1>4, <1>6, ListedByDoc
  <1>8. Len(t) = Len(s)
    BY <1>7, DocsCounted
  <1>9. ASSUME NEW d \in DocsIn(s) PROVE SumOf(t, d) = SumOf(s, d)
    <2>1. PICK x \in DOMAIN t : t[x].doc = d
      BY <1>7 DEF DocsIn
    <2>2. PICK y \in DOMAIN s : t[x] = s[y]
      BY <1>4, <1>5, <2>1
    <2>3. SumOf(t, t[x].doc) = t[x].sum /\ SumOf(s, s[y].doc) = s[y].sum
      BY <1>7, SumOne
    <2> QED
      BY <2>1, <2>2, <2>3
  <1>10. ASSUME NEW d, d \notin DocsIn(s) PROVE SumOf(t, d) = SumOf(s, d)
    BY <1>7, <1>10, SumAbsent
  <1> QED
    BY <1>7, <1>8, <1>9, <1>10

\* Packing: one entry of each document, with all its entries came to.
LEMMA PackedIs ==
  ASSUME NEW s \in Seq(Entry), NEW t, t = Packed(s)
  PROVE  /\ t \in Seq(Entry) /\ Len(t) <= Len(s) /\ Len(t) \in Nat /\ DocOrder(t) /\ OneEach(t)
         /\ DocsIn(t) = DocsIn(s) /\ \A d : SumOf(t, d) = SumOf(s, d)
  <1>1. DocsIn(s) \in SUBSET Nat /\ IsFiniteSet(DocsIn(s)) /\ DocsIn(s) \subseteq Docs
    BY EntryFacts
  <1>2. PICK u : u = InOrder(DocsIn(s))
    OBVIOUS
  <1>3. u \in Seq(DocsIn(s))
    BY <1>1, <1>2, InOrderIs
  <1>4. /\ DOMAIN t = DOMAIN u /\ \A x \in DOMAIN u : t[x] = [doc |-> u[x], sum |-> SumOf(s, u[x])]
        /\ t = [x \in DOMAIN t |-> t[x]]
    BY <1>2 DEF Packed
  <1>5. \A x \in DOMAIN t : t[x] \in Entry /\ t[x].doc = u[x]
    <2>1. \A x \in DOMAIN u : u[x] \in Docs
      BY <1>1, <1>3
    <2>2. \A x \in DOMAIN u : SumOf(s, u[x]) \in Nat
      BY SumType
    <2> QED
      BY <1>4, <2>1, <2>2 DEF Entry
  <1>6. /\ t \in Seq(Entry) /\ Len(t) = Cardinality(DocsIn(s))
        /\ DocOrder(t) /\ OneEach(t) /\ DocsIn(t) = DocsIn(s)
    BY <1>2, <1>4, <1>5, ListedByDoc
  <1>7. Len(t) <= Len(s) /\ Len(t) \in Nat
    BY <1>6, DocsCounted
  <1>8. ASSUME NEW d \in DocsIn(s) PROVE SumOf(t, d) = SumOf(s, d)
    <2>1. PICK x \in DOMAIN t : t[x].doc = d
      BY <1>6 DEF DocsIn
    <2>2. t[x].doc = u[x] /\ t[x].sum = SumOf(s, u[x])
      BY <1>4, <2>1
    <2>3. SumOf(t, t[x].doc) = t[x].sum
      BY <1>6, SumOne
    <2> QED
      BY <2>1, <2>2, <2>3
  <1>9. ASSUME NEW d, d \notin DocsIn(s) PROVE SumOf(t, d) = SumOf(s, d)
    BY <1>6, <1>9, SumAbsent
  <1> QED
    BY <1>6, <1>7, <1>8, <1>9

----------------------------------------------------------------------------
(* The inductive invariant.                                                *)

Types ==
  /\ query \in [method : Methods, limit : Limits, stop : BOOLEAN, k : Skips]
  /\ acc \in Seq(Entry) /\ sup \in Seq(Entry)
  /\ room \in [acc : Nat, sup : Nat]
  /\ anding \in BOOLEAN /\ sorted \in BOOLEAN /\ abort \in BOOLEAN
  /\ term \in 0 .. Len(TermWeights) /\ stage \in {"term", "post", "added"}
  /\ post \in Seq(1 .. NumDocs) /\ Increasing(post)
  /\ dec \in [i : Nat, kd : Int, next_i : Nat, next_doc_num : Int, cur : Nat]
  /\ next \in 1 .. Len(acc) + 1
  /\ total \in [Docs -> Nat] /\ had \in Nat
  /\ stage = "post" => term > 0
  /\ stage # "post" => post = <<>> /\ dec.i = 0 /\ next = 1

\* Both parts of the tables: entries are sorted, packed and one for each document as
\* their method has it, and the hash table has a supplement only when it is full.
Tables ==
  /\ query.method # "H" \/ sorted => sup = <<>>
  /\ query.method \in {"A", "S"} \/ sorted => DocOrder(acc)
  /\ query.method # "L" \/ sorted => OneEach(acc \o sup)
  /\ query.method = "A" => DocsIn(acc) = Docs /\ ~anding
  /\ anding => sorted
  /\ stage # "added" => (sorted => anding)
  /\ query.method = "H" /\ ~sorted /\ sup # <<>> => Len(acc) = room.acc

\* The supplement has a place for each posting left of the term.
Rooms ==
  /\ query.method = "H" /\ ~sorted => /\ room.acc = query.limit /\ Len(acc) <= room.acc
                                      /\ Len(sup) <= room.sup
                                      /\ sup # <<>> /\ stage = "post" => Len(sup) + (p - dec.i) <= room.sup
  /\ query.method = "H" => Len(acc) <= room.acc + room.sup
  /\ query.method = "L" => Len(acc) <= room.acc /\ room.acc >= 2

Limit ==
  term > 0 => /\ anding => Cardinality(DocsIn(acc \o sup)) = had
              /\ ~anding /\ Limited => had < query.limit

\* The decoder stands behind posting s.i.  At the start of a block it has not read
\* the header, or it has and is about to hop; within one it knows the next block.
Fresh(s) == s.next_i = s.i /\ s.next_doc_num = s.cur

Known(s) == IF s.i + s.kd + 1 < p THEN s.next_i = s.i + s.kd + 1 /\ s.next_doc_num = post[s.i + s.kd + 1]
            ELSE s.next_doc_num = -1

Stands(s) == s.i \in 0 .. p /\ s.cur = IF s.i = 0 THEN 0 ELSE post[s.i]

Decodes(s) ==
  /\ Stands(s)
  /\ query.k > 0 /\ s.i < p =>
       /\ s.kd \in 0 .. query.k - 1
       /\ s.kd = query.k - 1 => Fresh(s) \/ (Known(s) /\ Hopping(s))
       /\ s.kd < query.k - 1 => Known(s)

\* The accumulators left behind are of documents the decoder has passed, the others not;
\* and what is in the supplement was put there by the term at hand.
Swept(s) ==
  /\ anding => /\ \A x \in 1 .. next - 1 : acc[x].doc < s.cur
               /\ \A x \in next .. Len(acc) : acc[x].doc >= s.cur
  /\ ~anding => next = 1 /\ \A d \in DocsIn(sup) : d < s.cur

\* What the postings left are worth to a document, and the sums but for that.
Left(s) == {post[x] - 1 : x \in s.i + 1 .. p}

Due(s, d) == IF d \in Left(s) THEN TermWeights[term] ELSE 0

Summed(s) ==
  \A d \in Docs : (anding => d \in DocsIn(acc)) => SumOf(acc \o sup, d) + Due(s, d) = total[d]

IInv ==
  /\ Types /\ Tables /\ Rooms /\ Limit
  /\ stage = "post" => Decodes(dec) /\ Swept(dec)
  /\ Summed(dec)

----------------------------------------------------------------------------
(* The decoder.                                                            *)

Decoder == [i : Nat, kd : Int, next_i : Nat, next_doc_num : Int, cur : Nat]

\* Behind a header if it is in a block, before it at the start of one.
Settled(s) ==
  /\ s \in Decoder /\ Stands(s) /\ s.i < p
  /\ query.k > 0 => /\ s.kd \in 0 .. query.k - 1
                    /\ s.kd = query.k - 1 => Fresh(s)
                    /\ s.kd < query.k - 1 => Known(s)

\* Nothing of an accumulator lies between two places in an entry.
SameLeft(s, t) == \A d \in Docs : (anding => d \in DocsIn(acc)) => (d \in Left(t) <=> d \in Left(s))

\* The numbers of an entry and of the accumulators.
LEMMA PostFacts ==
  ASSUME Types
  PROVE  /\ p \in Nat /\ DOMAIN post = 1 .. p /\ query.k \in Nat
         /\ \A x \in 1 .. p : post[x] \in Nat /\ post[x] >= 1 /\ post[x] - 1 \in Docs
         /\ \A x, y \in 1 .. p : x < y => post[x] < post[y]
         /\ DOMAIN acc = 1 .. Len(acc) /\ Len(acc) \in Nat /\ next \in Nat /\ next >= 1
         /\ \A x \in 1 .. Len(acc) : acc[x].doc \in Nat
  <1>1. p \in Nat /\ DOMAIN post = 1 .. p /\ \A x \in 1 .. p : post[x] \in 1 .. NumDocs
    <2>1. PICK S : S = 1 .. NumDocs
      OBVIOUS
    <2>2. post \in Seq(S)
      BY <2>1 DEF Types
    <2>3. Len(post) \in Nat /\ DOMAIN post = 1 .. Len(post) /\ \A x \in 1 .. Len(post) : post[x] \in S
      BY <2>2
    <2> QED
      BY <2>1, <2>3 DEF p
  <1>2. \A x, y \in 1 .. p : x < y => post[x] < post[y]
    BY <1>1 DEF Types, Increasing
  <1>3. query.k \in Nat
    BY AccumulatorsAssumption DEF Types
  <1>4. \A n \in 1 .. NumDocs : n \in Nat /\ n >= 1 /\ n - 1 \in Docs
    BY AccumulatorsAssumption DEF Docs
  <1>5. DOMAIN acc = 1 .. Len(acc) /\ Len(acc) \in Nat /\ next \in Nat /\ next >= 1
    BY DEF Types
  <1>6. \A x \in 1 .. Len(acc) : acc[x].doc \in Nat
    <2>1. acc \in Seq(Entry)
      BY DEF Types
    <2>2. \A x \in DOMAIN acc : acc[x].doc \in DocsIn(acc)
      BY <2>1, EntryFacts
    <2>3. DocsIn(acc) \in SUBSET Nat
      BY <2>1, EntryFacts
    <2> QED
      BY <1>5, <2>2, <2>3
  <1> QED
    BY <1>1, <1>2, <1>3, <1>4, <1>5, <1>6

\* A hop, field by field.
LEMMA HopIs ==
  ASSUME NEW s \in Decoder, NEW k \in Nat, k = query.k, s.next_doc_num >= 0
  PROVE  /\ Hop(s) \in Decoder /\ Hop(s).i = s.next_i /\ Hop(s).cur = s.next_doc_num
         /\ Hop(s).kd = k - 1 /\ Hop(s).next_i = s.next_i /\ Hop(s).next_doc_num = s.next_doc_num
  <1>1. s.i \in Nat /\ s.kd \in Int /\ s.next_i \in Nat /\ s.next_doc_num \in Nat /\ s.cur \in Nat
    BY DEF Decoder
  <1>2. Hop(s) = [s EXCEPT !.i = s.next_i, !.cur = s.next_doc_num, !.kd = k - 1]
    BY DEF Hop
  <1>3. k - 1 \in Int
    OBVIOUS
  <1> QED
    BY <1>1, <1>2, <1>3 DEF Decoder

\* A hop goes to the start of a block, and leaves out no posting of an accumulator.
LEMMA Hopped ==
  ASSUME Types, Tables, NEW s \in Decoder, Stands(s), s.i < p, Swept(s), Hopping(s),
         s.kd \in 0 .. query.k - 1, (s.kd = query.k - 1 /\ Fresh(s)) \/ Known(s)
  PROVE  Settled(Hop(s)) /\ Swept(Hop(s)) /\ SameLeft(s, Hop(s)) /\ Hop(s).i >= s.i
  <1> DEFINE h == Hop(s)
  <1>k. PICK k \in Nat : k = query.k
    BY PostFacts
  <1>0. /\ p \in Nat /\ DOMAIN post = 1 .. p
        /\ \A x \in 1 .. p : post[x] \in Nat /\ post[x] >= 1 /\ post[x] - 1 \in Docs
        /\ \A x, y \in 1 .. p : x < y => post[x] < post[y]
        /\ DOMAIN acc = 1 .. Len(acc) /\ Len(acc) \in Nat /\ next \in Nat /\ next >= 1
        /\ \A x \in 1 .. Len(acc) : acc[x].doc \in Nat
    BY PostFacts
  <1>1. s.i \in Nat /\ s.kd \in Int /\ s.next_i \in Nat /\ s.next_doc_num \in Int /\ s.cur \in Nat
    BY DEF Decoder
  <1>2. /\ k > 0 /\ anding /\ s.i + k < p /\ s.next_doc_num >= 0 /\ acc[next].doc > s.next_doc_num
        /\ s.kd >= 0 /\ s.kd <= k - 1
    BY <1>k, <1>1 DEF Hopping, Behind
  <1>3. /\ h \in Decoder /\ h.i = s.next_i /\ h.cur = s.next_doc_num /\ h.kd = k - 1
        /\ h.next_i = s.next_i /\ h.next_doc_num = s.next_doc_num
    BY <1>k, <1>2, HopIs
  <1> HIDE DEF h
  <1>4. \/ s.next_i = s.i /\ s.next_doc_num = s.cur
        \/ s.next_i \in s.i + 1 .. p - 1 /\ s.next_doc_num = post[s.next_i]
    <2>1. CASE Fresh(s)
      BY <2>1 DEF Fresh
    <2>2. CASE Known(s)
      <3>1. PICK n \in Int : n = s.i + s.kd + 1
        BY <1>1
      <3>2. n < p /\ n \in s.i + 1 .. p - 1
        <4>1. p \in Int /\ s.i \in Int /\ s.kd \in Int
          BY <1>0, <1>1
        <4>2. s.kd <= k - 1 /\ s.kd >= 0 /\ s.i + k < p
          BY <1>2
        <4> QED
          BY <3>1, <4>1, <4>2
      <3>3. s.next_i = n /\ s.next_doc_num = post[n]
        BY <2>2, <3>1, <3>2 DEF Known
      <3> QED
        BY <3>2, <3>3
    <2> QED
      BY <2>1, <2>2
  <1>5. Stands(h) /\ h.i < p /\ h.i >= s.i
    <2>1. p \in Nat /\ s.i \in Nat /\ s.next_i \in Nat
      BY <1>0, <1>1
    <2>2. CASE s.next_i = s.i /\ s.next_doc_num = s.cur
      BY <1>3, <2>1, <2>2 DEF Stands
    <2>3. CASE s.next_i \in s.i + 1 .. p - 1 /\ s.next_doc_num = post[s.next_i]
      <3>1. s.next_i \in 0 .. p /\ s.next_i # 0 /\ s.next_i < p /\ s.next_i >= s.i
        BY <2>1, <2>3
      <3> QED
        BY <1>3, <2>3, <3>1 DEF Stands
    <2> QED
      BY <1>4, <2>2, <2>3
  <1>6. Settled(h)
    <2>1. h.kd \in 0 .. k - 1
      BY <1>2, <1>3
    <2> QED
      BY <1>k, <1>3, <1>5, <2>1 DEF Settled, Fresh
  <1>7. \A x \in s.i + 1 .. h.i : post[x] <= s.next_doc_num /\ post[x] > s.cur
    <2> SUFFICES ASSUME NEW x \in s.i + 1 .. h.i PROVE post[x] <= s.next_doc_num /\ post[x] > s.cur
      OBVIOUS
    <2>1. s.next_i \in s.i + 1 .. p - 1 /\ s.next_doc_num = post[s.next_i] /\ x \in 1 .. p /\ s.next_i \in 1 .. p
      <3>1. x \in s.i + 1 .. s.next_i
        BY <1>3
      <3>2. s.next_i # s.i
        BY <1>1, <3>1
      <3>3. s.next_i \in s.i + 1 .. p - 1 /\ s.next_doc_num = post[s.next_i]
        BY <1>4, <3>2
      <3>4. p \in Nat /\ s.i \in Nat /\ s.next_i \in Nat
        BY <1>0, <1>1
      <3>5. s.next_i \in 1 .. p /\ x \in 1 .. p
        BY <3>1, <3>3, <3>4
      <3> QED
        BY <3>3, <3>5
    <2>2. post[x] <= post[s.next_i]
      <3>1. x <= s.next_i /\ x \in Int /\ s.next_i \in Int
        BY <1>1, <1>3
      <3>2. x < s.next_i \/ x = s.next_i
        BY <3>1
      <3> QED
        BY <1>0, <2>1, <3>2
    <2>3. post[x] > s.cur
      <3>1. CASE s.i = 0
        BY <1>0, <2>1, <3>1 DEF Stands
      <3>2. CASE s.i # 0
        <4>1. s.i \in 1 .. p /\ s.i < x /\ s.cur = post[s.i]
          BY <1>0, <1>1, <3>2 DEF Stands
        <4> QED
          BY <1>0, <2>1, <4>1
      <3> QED
        BY <3>1, <3>2
    <2> QED
      BY <2>1, <2>2, <2>3
  <1>8. \A y \in 1 .. Len(acc) : acc[y].doc < s.cur \/ acc[y].doc > s.next_doc_num
    <2> SUFFICES ASSUME NEW y \in 1 .. Len(acc), ~(y < next) PROVE acc[y].doc > s.next_doc_num
      <3>1. \A y \in 1 .. Len(acc) : y < next => y \in 1 .. next - 1
        BY <1>0
      <3> QED
        BY <1>2, <3>1 DEF Swept
    <2>1. next \in 1 .. Len(acc) /\ (y = next \/ next < y)
      BY <1>0
    <2>2. next < y => acc[next].doc < acc[y].doc
      BY <1>0, <1>2, <2>1 DEF Tables, DocOrder
    <2> QED
      BY <1>0, <1>1, <1>2, <2>1, <2>2
  <1>9. SameLeft(s, h)
    <2> SUFFICES ASSUME NEW d \in DocsIn(acc) PROVE d \in Left(h) <=> d \in Left(s)
      BY <1>2 DEF SameLeft
    <2>1. PICK y \in 1 .. Len(acc) : d = acc[y].doc
      BY <1>0 DEF DocsIn
    <2>2. \A x \in s.i + 1 .. p : x \in h.i + 1 .. p \/ x \in s.i + 1 .. h.i
      BY <1>0, <1>1, <1>3
    <2>3. \A x \in h.i + 1 .. p : x \in s.i + 1 .. p
      BY <1>0, <1>1, <1>3, <1>5, SMTT(60)
    <2>4. \A x \in s.i + 1 .. h.i : d # post[x] - 1
      <3> SUFFICES ASSUME NEW x \in s.i + 1 .. h.i, d = post[x] - 1 PROVE FALSE
        OBVIOUS
      <3>1. x \in 1 .. p
        BY <1>0, <1>1, <1>3, <1>5
      <3>2. post[x] <= s.next_doc_num /\ post[x] > s.cur /\ post[x] \in Nat /\ d \in Nat
        BY <1>0, <1>7, <2>1, <3>1
      <3> QED
        BY <1>1, <1>8, <2>1, <3>2
    <2> QED
      BY <2>2, <2>3, <2>4 DEF Left
  <1>10. Swept(h)
    <2>1. \A x \in 1 .. next - 1 : acc[x].doc < s.cur /\ x \in 1 .. Len(acc)
      <3>1. \A x \in 1 .. next - 1 : x \in 1 .. Len(acc)
        BY <1>0 DEF Types
      <3> QED
        BY <1>2, <3>1 DEF Swept
    <2>2. \A x \in next .. Len(acc) : acc[x].doc > s.next_doc_num
      <3>1. \A x \in next .. Len(acc) : x \in 1 .. Len(acc) /\ acc[x].doc >= s.cur
        BY <1>0, <1>2 DEF Swept
      <3>2. \A x \in next .. Len(acc) : ~(acc[x].doc < s.cur)
        BY <1>0, <1>1, <3>1
      <3> QED
        BY <1>8, <3>1, <3>2
    <2>3. s.cur <= s.next_doc_num
      <3>1. CASE s.next_doc_num = s.cur
        BY <1>1, <3>1
      <3>2. CASE s.next_doc_num = post[s.next_i] /\ s.next_i \in s.i + 1 .. p - 1
        <4>1. s.next_i \in s.i + 1 .. h.i
          BY <1>1, <1>3, <3>2
        <4>2. s.next_i \in 1 .. p
          <5>1. p \in Nat /\ s.i \in Nat /\ s.next_i \in Nat
            BY <1>0, <1>1
          <5>2. s.next_i \in s.i + 1 .. p - 1
            BY <3>2
          <5> QED
            BY <5>1, <5>2
        <4>3. post[s.next_i] > s.cur
          BY <1>7, <4>1
        <4> QED
          BY <1>0, <1>1, <3>2, <4>2, <4>3
      <3> QED
        BY <1>4, <3>1, <3>2
    <2>4. \A x \in 1 .. next - 1 : acc[x].doc < h.cur
      <3>1. \A x \in 1 .. next - 1 : acc[x].doc \in Nat
        BY <1>0, <2>1
      <3>2. \A x \in 1 .. next - 1 : acc[x].doc < s.next_doc_num
        BY <1>1, <2>1, <2>3, <3>1
      <3> QED
        BY <1>3, <3>2
    <2>5. \A x \in next .. Len(acc) : acc[x].doc >= h.cur
      <3>1. \A x \in next .. Len(acc) : acc[x].doc \in Nat
        BY <1>0
      <3> QED
        BY <1>1, <1>3, <2>2, <3>1
    <2> QED
      BY <1>2, <2>4, <2>5 DEF Swept
  <1> QED
    BY <1>5, <1>6, <1>9, <1>10 DEF h

\* A header tells where the next block is.
LEMMA HeaderIs ==
  ASSUME Types, NEW s \in Decoder, Settled(s), query.k > 0, AtBlock(s)
  PROVE  /\ Header(s) \in Decoder /\ Known(Header(s))
         /\ Header(s).i = s.i /\ Header(s).cur = s.cur /\ Header(s).kd = s.kd
  <1>1. PICK k \in Nat : k = query.k
    BY PostFacts
  <1>2. p \in Nat /\ \A x \in 1 .. p : post[x] \in Nat
    BY PostFacts
  <1>3. s.i \in Nat /\ s.kd \in Int /\ s.next_i \in Nat /\ s.next_doc_num \in Int /\ s.cur \in Nat
    BY DEF Decoder
  <1>4. s.kd = k - 1 /\ s.next_i = s.i /\ s.i < p
    BY <1>1 DEF Settled, AtBlock, Fresh
  <1>5. PICK n \in Nat : n = s.i + k
    BY <1>1, <1>3
  <1>6. s.i + s.kd + 1 = n
    BY <1>1, <1>3, <1>4, <1>5
  <1>7. CASE n < p
    <2>1. n \in 1 .. p
      BY <1>1, <1>2, <1>3, <1>5, <1>7
    <2>2. post[n] \in Int
      BY <1>2, <2>1
    <2>3. Header(s) = [s EXCEPT !.next_i = n, !.next_doc_num = post[n]]
      BY <1>1, <1>4, <1>5, <1>7 DEF Header, Decoder
    <2>4. /\ Header(s) \in Decoder /\ Header(s).i = s.i /\ Header(s).cur = s.cur /\ Header(s).kd = s.kd
          /\ Header(s).next_i = n /\ Header(s).next_doc_num = post[n]
      BY <2>2, <2>3 DEF Decoder
    <2> QED
      BY <1>6, <1>7, <2>4 DEF Known
  <1>8. CASE ~(n < p)
    <2>1. Header(s) = [s EXCEPT !.next_doc_num = -1]
      BY <1>1, <1>5, <1>8 DEF Header
    <2>2. /\ Header(s) \in Decoder /\ Header(s).i = s.i /\ Header(s).cur = s.cur /\ Header(s).kd = s.kd
          /\ Header(s).next_doc_num = -1
      BY <2>1 DEF Decoder
    <2> QED
      BY <1>6, <1>8, <2>2 DEF Known
  <1> QED
    BY <1>7, <1>8

\* A posting is passed: the decoder has its document, whether or not it had a gap.
LEMMA PassedIs ==
  ASSUME Types, NEW s \in Decoder, Stands(s), s.i < p,
         query.k > 0 => s.kd \in 0 .. query.k - 1 /\ Known(s)
  PROVE  /\ Passed(s) \in Decoder /\ Passed(s).i = s.i + 1 /\ Passed(s).cur = post[s.i + 1]
         /\ Stands(Passed(s)) /\ (Passed(s).i < p => Settled(Passed(s)))
  <1>1. PICK k \in Nat : k = query.k
    BY PostFacts
  <1>2. p \in Nat /\ \A x \in 1 .. p : post[x] \in Nat
    BY PostFacts
  <1>3. s.i \in Nat /\ s.kd \in Int /\ s.next_i \in Nat /\ s.next_doc_num \in Int /\ s.cur \in Nat
    BY DEF Decoder
  <1>4. PICK i \in Nat, n \in Nat : i = s.i /\ n = i + 1
    BY <1>3
  <1>5. n \in 1 .. p /\ post[n] \in Nat /\ (i # 0 => i \in 1 .. p) /\ i < p
    BY <1>2, <1>4
  <1>6. CurrDocNum(s) = post[n]
    <2>1. CASE query.k > 0 /\ s.kd = 0 /\ s.i # p - 1
      <3>1. n < p /\ s.i + s.kd + 1 = n
        BY <1>2, <1>4, <1>5, <2>1
      <3>2. s.next_doc_num = post[n]
        BY <2>1, <3>1 DEF Known
      <3> QED
        BY <2>1, <3>2 DEF CurrDocNum
    <2>2. CASE ~(query.k > 0 /\ s.kd = 0 /\ s.i # p - 1)
      <3>1. CurrDocNum(s) = s.cur + post[n] - (IF i = 0 THEN 0 ELSE post[i])
        BY <1>4, <2>2 DEF CurrDocNum
      <3>2. PICK r \in Nat : r = IF i = 0 THEN 0 ELSE post[i]
        BY <1>2, <1>5
      <3>3. s.cur = r
        BY <1>4, <3>2 DEF Stands
      <3>4. CurrDocNum(s) = r + post[n] - r
        BY <3>1, <3>2, <3>3
      <3> QED
        BY <1>5, <3>2, <3>4
    <2> QED
      BY <2>1, <2>2
  <1>7. PICK kd \in Int : kd = IF s.kd - 1 < 0 THEN k - 1 ELSE s.kd - 1
    BY <1>1, <1>3
  <1>8. PICK t : t = Passed(s)
    OBVIOUS
  <1>9. /\ t \in Decoder /\ t.i = n /\ t.cur = post[n] /\ t.kd = kd
        /\ t.next_i = s.next_i /\ t.next_doc_num = s.next_doc_num
    <2>1. t = [s EXCEPT !.i = n, !.cur = post[n], !.kd = kd]
      BY <1>1, <1>4, <1>6, <1>7, <1>8 DEF Passed, Decoder
    <2> QED
      BY <1>4, <1>5, <1>7, <2>1 DEF Decoder
  <1>10. Stands(t)
    <2>1. n \in 0 .. p /\ n # 0
      BY <1>2, <1>5
    <2> QED
      BY <1>9, <2>1 DEF Stands
  <1>11. ASSUME n < p PROVE Settled(t)
    <2>1. CASE k = 0
      BY <1>1, <1>9, <1>10, <1>11, <2>1 DEF Settled
    <2>2. CASE k > 0
      <3>1. s.kd >= 0 /\ s.kd <= k - 1 /\ Known(s)
        BY <1>1, <1>3, <2>2
      <3>2. CASE s.kd = 0
        <4>1. kd = k - 1 /\ s.i + s.kd + 1 = n
          BY <1>4, <1>7, <3>2
        <4>2. s.next_i = n /\ s.next_doc_num = post[n]
          BY <1>11, <3>1, <4>1 DEF Known
        <4>3. Fresh(t)
          BY <1>9, <4>2 DEF Fresh
        <4>4. kd \in 0 .. k - 1 /\ ~(kd < k - 1)
          BY <2>2, <4>1
        <4> QED
          BY <1>1, <1>9, <1>10, <1>11, <4>3, <4>4 DEF Settled
      <3>3. CASE s.kd # 0
        <4>1. kd = s.kd - 1 /\ kd \in 0 .. k - 1 /\ kd < k - 1
          BY <1>3, <1>7, <3>1, <3>3
        <4>2. t.i + t.kd + 1 = s.i + s.kd + 1
          BY <1>3, <1>4, <1>9, <4>1
        <4>3. Known(t)
          BY <1>9, <3>1, <4>2 DEF Known
        <4> QED
          BY <1>1, <1>9, <1>10, <1>11, <4>1, <4>3 DEF Settled
      <3> QED
        BY <3>2, <3>3
    <2> QED
      BY <2>1, <2>2
  <1> QED
    BY <1>4, <1>8, <1>9, <1>10, <1>11

\* Up to the posting, a round of the loop passes nothing of an accumulator.
LEMMA Round ==
  ASSUME Types, Tables, Decodes(dec), Swept(dec), dec.i < p,
         NEW h, h = IF Hopping(dec) THEN Hop(dec) ELSE dec,
         NEW s, s = IF AtBlock(h) THEN Header(h) ELSE h
  PROVE  /\ s \in Decoder /\ Stands(s) /\ s.i < p /\ s.i >= dec.i
         /\ query.k > 0 => s.kd \in 0 .. query.k - 1 /\ Known(s)
         /\ Swept(s) /\ SameLeft(dec, s) /\ (~anding => s.i = dec.i)
  <1>1. PICK k \in Nat : k = query.k
    BY PostFacts
  <1>2. dec \in Decoder /\ dec.i \in Nat
    BY DEF Types, Decoder
  <1>3. /\ Settled(h) /\ Swept(h) /\ SameLeft(dec, h) /\ h.i >= dec.i /\ (~anding => h.i = dec.i)
    <2>1. CASE Hopping(dec)
      <3>1. k > 0 /\ anding
        BY <1>1, <2>1 DEF Hopping
      <3>2. dec.kd \in 0 .. query.k - 1 /\ (dec.kd = query.k - 1 \/ dec.kd < query.k - 1)
        BY <1>1, <3>1 DEF Decodes
      <3>3. (dec.kd = query.k - 1 /\ Fresh(dec)) \/ Known(dec)
        BY <1>1, <3>1, <3>2 DEF Decodes
      <3>4. Settled(Hop(dec)) /\ Swept(Hop(dec)) /\ SameLeft(dec, Hop(dec)) /\ Hop(dec).i >= dec.i
        BY <1>2, <2>1, <3>2, <3>3, Hopped DEF Decodes
      <3> QED
        BY <2>1, <3>1, <3>4
    <2>2. CASE ~Hopping(dec)
      <3>1. Settled(dec)
        BY <1>2, <2>2 DEF Decodes, Settled
      <3>2. dec.i >= dec.i /\ SameLeft(dec, dec)
        BY <1>2 DEF SameLeft
      <3> QED
        BY <2>2, <3>1, <3>2
    <2> QED
      BY <2>1, <2>2
  <1>4. h \in Decoder /\ Stands(h) /\ h.i < p
    BY <1>3 DEF Settled
  <1>5. CASE AtBlock(h)
    <2>1. query.k > 0
      BY <1>5 DEF AtBlock
    <2>2. s \in Decoder /\ Known(s) /\ s.i = h.i /\ s.cur = h.cur /\ s.kd = h.kd
      BY <1>3, <1>4, <1>5, <2>1, HeaderIs
    <2>3. Stands(s) /\ Swept(s) /\ SameLeft(dec, s)
      BY <1>3, <1>4, <2>2 DEF Stands, Swept, SameLeft, Left
    <2> QED
      BY <1>3, <1>4, <2>1, <2>2, <2>3 DEF Settled
  <1>6. CASE ~AtBlock(h)
    <2>1. query.k > 0 => h.kd \in 0 .. query.k - 1 /\ Known(h)
      <3> SUFFICES ASSUME query.k > 0 PROVE h.kd \in 0 .. query.k - 1 /\ Known(h)
        OBVIOUS
      <3>1. h.kd \in 0 .. k - 1 /\ h.kd # k - 1
        BY <1>1, <1>3, <1>6 DEF AtBlock, Settled
      <3>2. h.kd < k - 1
        BY <3>1
      <3> QED
        BY <1>1, <1>3, <3>1, <3>2 DEF Settled
    <2> QED
      BY <1>3, <1>4, <1>6, <2>1
  <1> QED
    BY <1>5, <1>6

----------------------------------------------------------------------------
(* A posting without the limit.                                            *)

\* Both parts of a table as one.
LEMMA ConcatFacts ==
  ASSUME NEW a \in Seq(Entry), NEW b \in Seq(Entry)
  PROVE  /\ a \o b \in Seq(Entry) /\ Len(a \o b) = Len(a) + Len(b)
         /\ \A x \in DOMAIN a : x \in DOMAIN (a \o b) /\ (a \o b)[x] = a[x]
         /\ DocsIn(a \o b) = DocsIn(a) \cup DocsIn(b)
         /\ b = <<>> => a \o b = a /\ DocsIn(b) = {}
  <1>1. PICK la \in Nat, lb \in Nat : la = Len(a) /\ lb = Len(b)
    OBVIOUS
  <1>2. DOMAIN a = 1 .. la /\ DOMAIN b = 1 .. lb
    BY <1>1
  <1>3. /\ a \o b \in Seq(Entry) /\ Len(a \o b) = la + lb /\ DOMAIN (a \o b) = 1 .. la + lb
        /\ \A x \in 1 .. la + lb : (a \o b)[x] = IF x <= la THEN a[x] ELSE b[x - la]
    BY <1>1
  <1>4. \A x \in DOMAIN a : x \in DOMAIN (a \o b) /\ (a \o b)[x] = a[x]
    BY <1>2, <1>3
  <1>5. \A y \in 1 .. lb : y + la \in 1 .. la + lb /\ (a \o b)[y + la] = b[y]
    <2> SUFFICES ASSUME NEW y \in 1 .. lb PROVE y + la \in 1 .. la + lb /\ (a \o b)[y + la] = b[y]
      OBVIOUS
    <2>1. PICK x \in 1 .. la + lb : x = y + la
      OBVIOUS
    <2>2. ~(x <= la) /\ x - la = y
      BY <2>1
    <2> QED
      BY <1>3, <2>1, <2>2
  <1>6. DocsIn(a \o b) = DocsIn(a) \cup DocsIn(b)
    <2>1. \A x \in DOMAIN (a \o b) : x \in 1 .. la \/ x - la \in 1 .. lb
      BY <1>3
    <2>2. \A x \in DOMAIN (a \o b) : (a \o b)[x].doc \in DocsIn(a) \cup DocsIn(b)
      BY <1>2, <1>3, <2>1 DEF DocsIn
    <2>3. \A d \in DocsIn(a) : d \in DocsIn(a \o b)
      BY <1>4 DEF DocsIn
    <2>4. ASSUME NEW d \in DocsIn(b) PROVE d \in DocsIn(a \o b)
      <3>1. PICK y \in 1 .. lb : d = b[y].doc
        BY <1>2 DEF DocsIn
      <3>2. PICK x \in DOMAIN (a \o b) : (a \o b)[x] = b[y]
        BY <1>3, <1>5
      <3> QED
        BY <3>1, <3>2 DEF DocsIn
    <2>5. DocsIn(a \o b) \subseteq DocsIn(a) \cup DocsIn(b)
      BY <2>2 DEF DocsIn
    <2> QED
      BY <2>3, <2>4, <2>5
  <1>7. b = <<>> => a \o b = a /\ DocsIn(b) = {}
    <2>1. b = <<>> => DOMAIN b = {}
      BY <1>1, <1>2
    <2> QED
      BY <2>1 DEF DocsIn
  <1> QED
    BY <1>1, <1>3, <1>4, <1>6, <1>7

\* More for an entry of the first part is more for it in both.
LEMMA BumpedConcat ==
  ASSUME NEW a \in Seq(Entry), NEW b \in Seq(Entry), NEW x \in DOMAIN a, NEW w \in Nat
  PROVE  Bumped(a, x, w) \o b = Bumped(a \o b, x, w)
  <1>0. PICK t : t = Bumped(a, x, w)
    OBVIOUS
  <1>1. PICK la \in Nat, lb \in Nat : la = Len(a) /\ lb = Len(b)
    OBVIOUS
  <1>2. DOMAIN a = 1 .. la /\ DOMAIN t = 1 .. la /\ Len(t) = la /\ t \in Seq(Entry)
    BY <1>0, <1>1, BumpedIs
  <1>3. /\ t \o b \in Seq(Entry) /\ Len(t \o b) = la + lb
        /\ \A y \in 1 .. la + lb : (t \o b)[y] = IF y <= la THEN t[y] ELSE b[y - la]
    BY <1>1, <1>2, SMTT(60)
  <1>4. /\ a \o b \in Seq(Entry) /\ Len(a \o b) = la + lb /\ DOMAIN (a \o b) = 1 .. la + lb
        /\ \A y \in 1 .. la + lb : (a \o b)[y] = IF y <= la THEN a[y] ELSE b[y - la]
    BY <1>1, <1>2
  <1>5. x \in 1 .. la + lb /\ x <= la /\ (a \o b)[x] = a[x] /\ x \in DOMAIN (a \o b)
    BY <1>1, <1>2, <1>4
  <1>6. PICK u : u = Bumped(a \o b, x, w)
    OBVIOUS
  <1>7. u \in Seq(Entry) /\ Len(u) = la + lb
    BY <1>4, <1>5, <1>6, BumpedIs
  <1>8. \A y \in 1 .. la + lb : u[y] = IF y = x THEN [a[x] EXCEPT !.sum = @ + w] ELSE (a \o b)[y]
    BY <1>4, <1>5, <1>6 DEF Bumped
  <1>9. \A y \in 1 .. la : t[y] = IF y = x THEN [a[x] EXCEPT !.sum = @ + w] ELSE a[y]
    BY <1>0, <1>2 DEF Bumped
  <1>10. \A y \in 1 .. la + lb : (t \o b)[y] = u[y]
    <2> SUFFICES ASSUME NEW y \in 1 .. la + lb PROVE (t \o b)[y] = u[y]
      OBVIOUS
    <2>1. CASE y <= la
      <3>1. y \in 1 .. la
        BY <2>1
      <3> QED
        BY <1>3, <1>4, <1>8, <1>9, <2>1, <3>1
    <2>2. CASE ~(y <= la)
      <3>1. y # x
        BY <1>5, <2>2
      <3> QED
        BY <1>3, <1>4, <1>8, <2>2, <3>1
    <2> QED
      BY <2>1, <2>2
  <1> QED
    BY <1>0, <1>3, <1>6, <1>7, <1>10, SeqEqual

\* An entry at the end of the second part is at the end of both.
LEMMA ConcatAppend ==
  ASSUME NEW a \in Seq(Entry), NEW b \in Seq(Entry), NEW e \in Entry
  PROVE  a \o Append(b, e) = Append(a \o b, e)
  <1>1. PICK la \in Nat, lb \in Nat, n \in Nat : la = Len(a) /\ lb = Len(b) /\ n = la + lb + 1
    OBVIOUS
  <1>2. /\ Append(b, e) \in Seq(Entry) /\ Len(Append(b, e)) = lb + 1
        /\ \A y \in 1 .. lb + 1 : Append(b, e)[y] = IF y <= lb THEN b[y] ELSE e
    BY <1>1
  <1>3. /\ a \o b \in Seq(Entry) /\ Len(a \o b) = la + lb
        /\ \A y \in 1 .. la + lb : (a \o b)[y] = IF y <= la THEN a[y] ELSE b[y - la]
    BY <1>1
  <1>4. /\ a \o Append(b, e) \in Seq(Entry) /\ Len(a \o Append(b, e)) = n
        /\ \A y \in 1 .. n : (a \o Append(b, e))[y] = IF y <= la THEN a[y] ELSE Append(b, e)[y - la]
    BY <1>1, <1>2
  <1>5. /\ Append(a \o b, e) \in Seq(Entry) /\ Len(Append(a \o b, e)) = n
        /\ \A y \in 1 .. n : Append(a \o b, e)[y] = IF y < n THEN (a \o b)[y] ELSE e
    BY <1>1, <1>3
  <1>6. \A y \in 1 .. n : (a \o Append(b, e))[y] = Append(a \o b, e)[y]
    <2> SUFFICES ASSUME NEW y \in 1 .. n PROVE (a \o Append(b, e))[y] = Append(a \o b, e)[y]
      OBVIOUS
    <2>1. CASE y <= la
      <3>1. y < n /\ y \in 1 .. la + lb
        BY <1>1, <2>1
      <3> QED
        BY <1>3, <1>4, <1>5, <2>1, <3>1
    <2>2. CASE la < y /\ y < n
      <3>0. y \in Int /\ la \in Int /\ lb \in Int /\ y < la + lb + 1
        BY <1>1, <2>2
      <3>1. PICK z \in 1 .. lb : z = y - la
        BY <2>2, <3>0
      <3>2. y \in 1 .. la + lb /\ ~(y <= la) /\ z \in 1 .. lb + 1 /\ z <= lb
        BY <1>1, <2>2, <3>1
      <3> QED
        BY <1>2, <1>3, <1>4, <1>5, <2>2, <3>1, <3>2
    <2>3. CASE y = n
      <3>1. PICK z \in 1 .. lb + 1 : z = y - la /\ ~(z <= lb)
        BY <1>1, <2>3
      <3>2. ~(y <= la) /\ ~(y < n)
        BY <1>1, <2>3
      <3> QED
        BY <1>2, <1>4, <1>5, <3>1, <3>2
    <2> QED
      BY <1>1, <2>1, <2>2, <2>3
  <1> QED
    BY <1>4, <1>5, <1>6, SeqEqual

\* An entry more in the second part is one more in both.
LEMMA GrownConcat ==
  ASSUME NEW a \in Seq(Entry), NEW b \in Seq(Entry), NEW d \in Docs, NEW w \in Nat
  PROVE  a \o Grown(b, d, w) = Grown(a \o b, d, w)
  <1>1. [doc |-> d, sum |-> w] \in Entry
    BY DEF Entry
  <1> QED
    BY <1>1, ConcatAppend DEF Grown

\* What a posting worth w adds to document d, in any of the tables; the decoder stands
\* behind posting n then.
Accumulated(d, w, n) ==
  /\ acc' \in Seq(Entry) /\ sup' \in Seq(Entry) /\ room' \in [acc : Nat, sup : Nat]
  /\ DocsIn(sup') \subseteq DocsIn(sup) \cup {d}
  /\ \A e : SumOf(acc' \o sup', e) = SumOf(acc \o sup, e) + IF e = d THEN w ELSE 0
  /\ query.method # "H" => sup' = <<>>
  /\ query.method \in {"A", "S"} => DocOrder(acc')
  /\ query.method # "L" => OneEach(acc' \o sup')
  /\ query.method = "A" => DocsIn(acc') = Docs
  /\ query.method = "H" => /\ room'.acc = query.limit /\ Len(acc') <= room'.acc
                           /\ Len(sup') <= room'.sup
                           /\ sup' # <<>> => Len(acc') = room'.acc /\ Len(sup') + (p - n) <= room'.sup
  /\ query.method = "L" => Len(acc') <= room'.acc /\ room'.acc >= 2

\* Places and limits are numbers.
LEMMA RoomFacts ==
  ASSUME Types
  PROVE  room.acc \in Nat /\ room.sup \in Nat /\ query.limit \in Nat /\ query.limit >= 2
  <1>1. query.limit \in Limits
    BY DEF Types
  <1>2. \A n \in Nat \ {0, 1} : n \in Nat /\ n >= 2
    OBVIOUS
  <1> QED
    BY <1>1, <1>2, AccumulatorsAssumption DEF Types

\* The array of all documents.
LEMMA ArrayAdds ==
  ASSUME Types, Tables, NEW d \in Docs, NEW w \in Nat, NEW n \in Nat, query.method = "A",
         acc' = AddTo(d, w), UNCHANGED <<sup, room>>
  PROVE  Accumulated(d, w, n)
  <1>1. acc \in Seq(Entry) /\ sup = <<>> /\ sup \in Seq(Entry)
    BY DEF Types, Tables
  <1>2. PICK x \in DOMAIN acc : x = Place(acc, d) /\ acc[x].doc = d
    BY PlaceIs DEF Tables
  <1>3. acc' = Bumped(acc, x, w)
    BY <1>2 DEF AddTo, Bumped
  <1>4. /\ acc' \in Seq(Entry) /\ DOMAIN acc' = DOMAIN acc /\ DocsIn(acc') = DocsIn(acc)
        /\ \A y \in DOMAIN acc : acc'[y].doc = acc[y].doc
        /\ \A e : SumOf(acc', e) = SumOf(acc, e) + IF e = acc[x].doc THEN w ELSE 0
    BY <1>1, <1>3, BumpedIs
  <1>5. acc \o sup = acc /\ acc' \o sup' = acc' /\ DocsIn(sup') = {} /\ sup' = <<>> /\ sup' \in Seq(Entry)
    BY <1>1, <1>4, ConcatFacts
  <1>6. DocOrder(acc') /\ OneEach(acc')
    <2>1. DocOrder(acc)
      BY DEF Tables
    <2>2. DocOrder(acc')
      BY <1>1, <1>3, <2>1, BumpedIs
    <2> QED
      BY <1>4, <2>2, OrderOneEach
  <1> QED
    BY <1>2, <1>4, <1>5, <1>6 DEF Accumulated, Types, Tables

\* The splay tree.
LEMMA SplayAdds ==
  ASSUME Types, Tables, NEW d \in Docs, NEW w \in Nat, NEW n \in Nat, query.method = "S",
         SplayAdd(d, w)
  PROVE  Accumulated(d, w, n)
  <1>1. acc \in Seq(Entry) /\ sup = <<>> /\ sup \in Seq(Entry) /\ sup' = sup /\ room' = room /\ DocOrder(acc)
    BY DEF Types, Tables, SplayAdd
  <1>2. /\ acc' \in Seq(Entry) /\ DocOrder(acc')
        /\ \A e : SumOf(acc', e) = SumOf(acc, e) + IF e = d THEN w ELSE 0
    <2>1. CASE d \in DocsIn(acc)
      <3>1. PICK x \in DOMAIN acc : x = Place(acc, d) /\ acc[x].doc = d
        BY <2>1, PlaceIs
      <3>2. acc' = Bumped(acc, x, w)
        BY <2>1, <3>1 DEF AddTo, SplayAdd, Bumped
      <3>3. /\ acc' \in Seq(Entry) /\ DOMAIN acc' = DOMAIN acc
            /\ \A e : SumOf(acc', e) = SumOf(acc, e) + IF e = acc[x].doc THEN w ELSE 0
            /\ DocOrder(acc')
        BY <1>1, <3>2, BumpedIs
      <3> QED
        BY <3>1, <3>3
    <2>2. CASE d \notin DocsIn(acc)
      <3>1. PICK t : t = Grown(acc, d, w)
        OBVIOUS
      <3>2. acc' = ByDoc(t)
        BY <2>2, <3>1 DEF Added, SplayAdd, Grown
      <3>3. OneEach(acc)
        BY <1>1, OrderOneEach
      <3>4. /\ t \in Seq(Entry) /\ OneEach(t)
            /\ \A e : SumOf(t, e) = SumOf(acc, e) + IF e = d THEN w ELSE 0
        <4>1. /\ Grown(acc, d, w) \in Seq(Entry) /\ (OneEach(acc) /\ d \notin DocsIn(acc) => OneEach(Grown(acc, d, w)))
              /\ \A e : SumOf(Grown(acc, d, w), e) = SumOf(acc, e) + IF e = d THEN w ELSE 0
          BY <1>1, GrownIs, Zenon
        <4> QED
          BY <2>2, <3>1, <3>3, <4>1
      <3>5. acc' \in Seq(Entry) /\ DocOrder(acc') /\ \A e : SumOf(acc', e) = SumOf(t, e)
        BY <3>2, <3>4, ByDocIs
      <3> QED
        BY <3>4, <3>5
    <2> QED
      BY <2>1, <2>2
  <1>3. acc \o sup = acc /\ acc' \o sup' = acc' /\ DocsIn(sup') = {} /\ sup' = <<>> /\ sup' \in Seq(Entry)
    BY <1>1, <1>2, ConcatFacts
  <1>4. OneEach(acc')
    BY <1>2, OrderOneEach
  <1> QED
    BY <1>1, <1>2, <1>3, <1>4 DEF Accumulated, Types

\* The list, which grows.
LEMMA ListAdds ==
  ASSUME Types, Tables, Rooms, NEW d \in Docs, NEW w \in Nat, NEW n \in Nat, query.method = "L",
         ListAdd(d, w)
  PROVE  Accumulated(d, w, n)
  <1>1. acc \in Seq(Entry) /\ sup = <<>> /\ sup \in Seq(Entry) /\ sup' = sup
    BY DEF Types, Tables, ListAdd
  <1>2. acc' = Grown(acc, d, w)
    BY DEF ListAdd, Added, Grown
  <1>3. /\ acc' \in Seq(Entry) /\ Len(acc') = Len(acc) + 1 /\ Len(acc) \in Nat
        /\ \A e : SumOf(acc', e) = SumOf(acc, e) + IF e = d THEN w ELSE 0
    <2>1. /\ Grown(acc, d, w) \in Seq(Entry) /\ Len(Grown(acc, d, w)) = Len(acc) + 1
          /\ \A e : SumOf(Grown(acc, d, w), e) = SumOf(acc, e) + IF e = d THEN w ELSE 0
      BY <1>1, GrownIs, Zenon
    <2> QED
      BY <1>1, <1>2, <2>1
  <1>4. acc \o sup = acc /\ acc' \o sup' = acc' /\ DocsIn(sup') = {} /\ sup' = <<>> /\ sup' \in Seq(Entry)
    BY <1>1, <1>3, ConcatFacts
  <1>5. room.acc \in Nat /\ room.sup \in Nat /\ Len(acc) <= room.acc /\ room.acc >= 2
    BY RoomFacts DEF Rooms
  <1>6. room' \in [acc : Nat, sup : Nat] /\ Len(acc') <= room'.acc /\ room'.acc >= 2
    <2>1. CASE Len(acc) = room.acc
      <3>1. PICK m \in Nat : m = room.acc + room.acc \div 2 /\ m >= room.acc + 1
        BY <1>5
      <3>2. room' = [room EXCEPT !.acc = m]
        BY <2>1, <3>1 DEF ListAdd, Types
      <3>3. room' \in [acc : Nat, sup : Nat] /\ room'.acc = m
        BY <3>2 DEF Types
      <3> QED
        BY <1>3, <1>5, <2>1, <3>1, <3>3
    <2>2. CASE Len(acc) # room.acc
      <3>1. room' = room
        BY <2>2 DEF ListAdd
      <3> QED
        BY <1>3, <1>5, <2>2, <3>1 DEF Types
    <2> QED
      BY <2>1, <2>2
  <1> QED
    BY <1>1, <1>3, <1>4, <1>6 DEF Accumulated

\* The hash table, and its supplement.
LEMMA HashAdds ==
  ASSUME Types, Tables, Rooms, ~sorted, NEW d \in Docs, NEW w \in Nat, NEW n \in Nat, query.method = "H",
         stage = "post", dec.i < p, n = dec.i + 1, n = dec'.i, d \notin DocsIn(sup),
         HashAdd(d, w)
  PROVE  Accumulated(d, w, n)
  <1>1. acc \in Seq(Entry) /\ sup \in Seq(Entry) /\ OneEach(acc \o sup) /\ acc \o sup \in Seq(Entry)
    BY ConcatFacts DEF Types, Tables
  <1>2. /\ room.acc \in Nat /\ room.sup \in Nat /\ room.acc = query.limit /\ Len(acc) <= room.acc
        /\ Len(sup) <= room.sup /\ Len(acc) \in Nat /\ Len(sup) \in Nat
        /\ (sup # <<>> => Len(acc) = room.acc /\ Len(sup) + (p - dec.i) <= room.sup)
    BY <1>1, RoomFacts DEF Rooms, Tables
  <1>3. dec.i \in Nat /\ p \in Nat
    BY PostFacts DEF Types
  <1>4. CASE d \in DocsIn(acc)
    <2>1. sup' = sup /\ room' = room /\ acc' = AddTo(d, w)
      BY <1>4 DEF HashAdd
    <2>2. PICK x \in DOMAIN acc : x = Place(acc, d) /\ acc[x].doc = d
      BY <1>4, PlaceIs
    <2>3. acc' = Bumped(acc, x, w)
      BY <2>1, <2>2 DEF AddTo, Bumped
    <2>4. acc' \in Seq(Entry) /\ Len(acc') = Len(acc)
      BY <1>1, <2>3, BumpedIs
    <2>5. acc' \o sup' = Bumped(acc \o sup, x, w)
      <3>1. Bumped(acc, x, w) \o sup = Bumped(acc \o sup, x, w)
        BY <1>1, BumpedConcat
      <3> QED
        BY <2>1, <2>3, <3>1
    <2>6. x \in DOMAIN (acc \o sup) /\ (acc \o sup)[x].doc = d
      BY <1>1, <2>2, ConcatFacts
    <2>7. /\ \A e : SumOf(acc' \o sup', e) = SumOf(acc \o sup, e) + IF e = (acc \o sup)[x].doc THEN w ELSE 0
          /\ OneEach(acc' \o sup')
      <3>1. PICK s \in Seq(Entry) : s = acc \o sup
        BY <1>1
      <3>2. x \in DOMAIN s
        BY <2>6, <3>1
      <3>3. /\ \A e : SumOf(Bumped(s, x, w), e) = SumOf(s, e) + IF e = s[x].doc THEN w ELSE 0
            /\ OneEach(s) => OneEach(Bumped(s, x, w))
        BY <3>2, BumpedIs, Zenon
      <3> QED
        BY <1>1, <2>5, <3>1, <3>3
    <2>9. sup' # <<>> => Len(sup') + (p - n) <= room'.sup
      BY <1>2, <1>3, <2>1, SMTT(60)
    <2> QED
      BY <1>1, <1>2, <2>1, <2>4, <2>6, <2>7, <2>9 DEF Accumulated, Types
  <1>5. CASE d \notin DocsIn(acc) /\ Len(acc) < room.acc
    <2>1. sup' = sup /\ room' = room /\ acc' = Grown(acc, d, w)
      BY <1>5 DEF HashAdd, Added, Grown
    <2>2. sup = <<>>
      BY <1>2, <1>5
    <2>3. acc \o sup = acc
      BY <1>1, <2>2, ConcatFacts
    <2>4. /\ acc' \in Seq(Entry) /\ Len(acc') = Len(acc) + 1
          /\ \A e : SumOf(acc', e) = SumOf(acc, e) + IF e = d THEN w ELSE 0
          /\ OneEach(acc')
      <3>1. /\ Grown(acc, d, w) \in Seq(Entry) /\ Len(Grown(acc, d, w)) = Len(acc) + 1
            /\ \A e : SumOf(Grown(acc, d, w), e) = SumOf(acc, e) + IF e = d THEN w ELSE 0
            /\ OneEach(acc) /\ d \notin DocsIn(acc) => OneEach(Grown(acc, d, w))
        BY <1>1, GrownIs, Zenon
      <3>2. OneEach(acc)
        BY <1>1, <2>3
      <3> QED
        BY <1>5, <2>1, <3>1, <3>2
    <2>5. acc' \o sup' = acc'
      BY <2>1, <2>2, <2>4, ConcatFacts
    <2>6. Len(acc') <= room'.acc
      BY <1>2, <1>5, <2>1, <2>4
    <2> QED
      BY <1>1, <1>2, <2>1, <2>2, <2>3, <2>4, <2>5, <2>6 DEF Accumulated, Types
  <1>6. CASE d \notin DocsIn(acc) /\ ~(Len(acc) < room.acc)
    <2>1. /\ acc' = acc /\ sup' = Grown(sup, d, w)
          /\ room' = IF sup = <<>> THEN [room EXCEPT !.sup = SupRoom] ELSE room
      BY <1>6 DEF HashAdd, Grown
    <2>2. Len(acc) = room.acc
      BY <1>2, <1>6
    <2>4. acc' \o sup' = Grown(acc \o sup, d, w)
      BY <1>1, <2>1, GrownConcat
    <2>5. d \notin DocsIn(acc \o sup)
      BY <1>1, <1>6, ConcatFacts
    <2>6. /\ \A e : SumOf(acc' \o sup', e) = SumOf(acc \o sup, e) + IF e = d THEN w ELSE 0
          /\ OneEach(acc' \o sup')
      <3>1. PICK s \in Seq(Entry) : s = acc \o sup
        BY <1>1
      <3>2. /\ \A e : SumOf(Grown(s, d, w), e) = SumOf(s, e) + IF e = d THEN w ELSE 0
            /\ OneEach(s) /\ d \notin DocsIn(s) => OneEach(Grown(s, d, w))
        BY <3>1, GrownIs, Zenon
      <3> QED
        BY <1>1, <2>4, <2>5, <3>1, <3>2
    <2>7. sup' \in Seq(Entry) /\ Len(sup') = Len(sup) + 1 /\ DocsIn(sup') = DocsIn(sup) \cup {d}
      BY <1>1, <2>1, GrownIs
    <2>8. /\ room' \in [acc : Nat, sup : Nat] /\ room'.acc = room.acc
          /\ Len(sup') <= room'.sup /\ Len(sup') + (p - n) <= room'.sup
      <3>1. CASE sup = <<>>
        <4>1. PICK m \in Nat : m = SupRoom /\ m = p - n + 1
          <5>1. SupRoom = p - n + 1
            BY DEF SupRoom, p
          <5> QED
            BY <1>3, <5>1
        <4>2. room' = [room EXCEPT !.sup = m]
          BY <2>1, <3>1, <4>1
        <4>3. room' \in [acc : Nat, sup : Nat] /\ room'.acc = room.acc /\ room'.sup = m
          BY <4>2 DEF Types
        <4>4. Len(sup') = 1
          BY <2>7, <3>1
        <4>5. PICK q \in Nat : q = p - n
          BY <1>3
        <4>6. 1 <= m /\ 1 + q <= m
          BY <4>1, <4>5
        <4>7. Len(sup') <= room'.sup
          BY <4>3, <4>4, <4>6
        <4>8. Len(sup') + (p - n) <= room'.sup
          BY <4>3, <4>4, <4>5, <4>6
        <4> QED
          BY <4>3, <4>7, <4>8
      <3>2. CASE sup # <<>>
        <4>1. room' = room /\ Len(sup) + (p - dec.i) <= room.sup
          BY <1>2, <2>1, <3>2
        <4>2. PICK i \in Nat, q \in Nat, a \in Nat, r \in Nat : i = dec.i /\ q = p /\ a = Len(sup) /\ r = room.sup
          BY <1>2, <1>3
        <4>3. i < q /\ n = i + 1 /\ a + (q - i) <= r
          BY <4>1, <4>2
        <4>4. a + 1 <= r /\ a + 1 + (q - n) <= r
          BY <4>2, <4>3, SMTT(60)
        <4>5. Len(sup') <= room'.sup /\ Len(sup') + (p - n) <= room'.sup
          BY <2>7, <4>1, <4>2, <4>4
        <4> QED
          BY <4>1, <4>5 DEF Types
      <3> QED
        BY <3>1, <3>2
    <2> QED
      BY <1>1, <1>2, <2>1, <2>2, <2>6, <2>7, <2>8 DEF Accumulated
  <1> QED
    BY <1>4, <1>5, <1>6

\* Whatever the method.
LEMMA Adding ==
  ASSUME Types, Tables, Rooms, ~anding, stage = "post", NEW d \in Docs, NEW w \in Nat, NEW n \in Nat,
         dec.i < p, n = dec.i + 1, n = dec'.i, d \notin DocsIn(sup), Add(d, w)
  PROVE  Accumulated(d, w, n)
  <1>1. ~sorted
    BY DEF Tables
  <1>2. query.method \in {"A", "S", "H", "L"}
    BY AccumulatorsAssumption DEF Types
  <1>3. CASE query.method = "A"
    BY <1>3, ArrayAdds DEF Add
  <1>4. CASE query.method = "S"
    BY <1>4, SplayAdds DEF Add
  <1>5. CASE query.method = "H"
    BY <1>1, <1>5, HashAdds DEF Add
  <1>6. CASE query.method = "L"
    BY <1>6, ListAdds DEF Add
  <1> QED
    BY <1>2, <1>3, <1>4, <1>5, <1>6

\* The posting passed is the first of those left.
LEMMA LeftPassed ==
  ASSUME Types, NEW s \in Decoder, s.i < p, NEW t \in Decoder, t.i = s.i + 1
  PROVE  /\ post[s.i + 1] \in Nat /\ post[s.i + 1] >= 1 /\ post[s.i + 1] - 1 \in Docs
         /\ post[s.i + 1] - 1 \in Left(s) /\ post[s.i + 1] - 1 \notin Left(t)
         /\ \A e : e # post[s.i + 1] - 1 => (e \in Left(s) <=> e \in Left(t))
         /\ Stands(s) => s.cur < post[s.i + 1]
  <1>1. /\ p \in Nat /\ \A x \in 1 .. p : post[x] \in Nat /\ post[x] >= 1 /\ post[x] - 1 \in Docs
        /\ \A x, y \in 1 .. p : x < y => post[x] < post[y]
    BY PostFacts
  <1>2. PICK i \in Nat, n \in Nat : i = s.i /\ n = i + 1
    BY DEF Decoder
  <1>3. n \in 1 .. p /\ n \in i + 1 .. p /\ t.i = n /\ i + 1 = n /\ s.i + 1 = n
    BY <1>1, <1>2
  <1>4. Left(s) = {post[x] - 1 : x \in i + 1 .. p} /\ Left(t) = {post[x] - 1 : x \in n + 1 .. p}
    BY <1>2, <1>3 DEF Left
  <1>5. \A x \in n + 1 .. p : x \in 1 .. p /\ n < x
    BY <1>1, <1>2
  <1>6. \A x \in n + 1 .. p : post[x] - 1 # post[n] - 1
    <2> SUFFICES ASSUME NEW x \in n + 1 .. p PROVE post[x] - 1 # post[n] - 1
      OBVIOUS
    <2>1. post[n] < post[x] /\ post[n] \in Nat /\ post[x] \in Nat
      BY <1>1, <1>3, <1>5
    <2> QED
      BY <2>1
  <1>7. post[n] - 1 \in Left(s) /\ post[n] - 1 \notin Left(t)
    BY <1>3, <1>4, <1>6
  <1>8. \A x : x \in i + 1 .. p <=> x = n \/ x \in n + 1 .. p
    BY <1>1, <1>2, <1>3
  <1>9. ASSUME NEW e, e # post[n] - 1 PROVE e \in Left(s) <=> e \in Left(t)
    BY <1>4, <1>8, <1>9
  <1>10. Stands(s) => s.cur < post[n]
    <2>1. CASE i = 0
      <3>1. Stands(s) => s.cur = 0
        BY <1>2, <2>1 DEF Stands
      <3>2. post[n] \in Nat /\ post[n] >= 1
        BY <1>1, <1>3
      <3> QED
        BY <3>1, <3>2
    <2>2. CASE i # 0
      <3>1. i \in 1 .. p /\ i < n
        <4>1. p \in Nat /\ i \in Nat /\ n \in Nat /\ n = i + 1 /\ n <= p
          BY <1>1, <1>2, <1>3
        <4> QED
          BY <2>2, <4>1
      <3>2. post[i] < post[n]
        BY <1>1, <1>3, <3>1
      <3>3. Stands(s) => s.cur = post[i]
        BY <1>2, <2>2 DEF Stands
      <3> QED
        BY <3>2, <3>3
    <2> QED
      BY <2>1, <2>2
  <1> QED
    BY <1>1, <1>3, <1>7, <1>9, <1>10

\* The first accumulator from a place on that is not before a document.
LEMMA First ==
  ASSUME Types, DocOrder(acc), NEW d \in Nat, NEW here, here = FirstFrom(d)
  PROVE  /\ here \in Nat /\ here >= next /\ here <= Len(acc) + 1
         /\ \A x \in next .. Len(acc) : x < here => acc[x].doc < d
         /\ here <= Len(acc) => acc[here].doc >= d
         /\ \A x \in 1 .. Len(acc) : x > here => acc[x].doc > d
  <1>1. /\ DOMAIN acc = 1 .. Len(acc) /\ Len(acc) \in Nat /\ next \in Nat /\ next >= 1
        /\ \A x \in 1 .. Len(acc) : acc[x].doc \in Nat
    BY PostFacts
  <1>2. next <= Len(acc) + 1
    BY <1>1 DEF Types
  <1>3. PICK S : S = {x \in next .. Len(acc) : acc[x].doc >= d}
    OBVIOUS
  <1>4. here = IF S = {} THEN Len(acc) + 1 ELSE CHOOSE x \in S : \A y \in S : x <= y
    BY <1>3 DEF FirstFrom
  <1>5. \A x \in next .. Len(acc) : x \in 1 .. Len(acc) /\ x \in Nat
    BY <1>1
  <1>6. \A x \in next .. Len(acc) : x \notin S => acc[x].doc < d
    BY <1>1, <1>3, <1>5
  <1>7. CASE S = {}
    <2>1. here = Len(acc) + 1
      BY <1>4, <1>7
    <2> QED
      BY <1>1, <1>2, <1>6, <1>7, <2>1
  <1>8. CASE S # {}
    <2>1. S \in SUBSET Nat
      BY <1>3, <1>5
    <2>2. here \in S /\ \A y \in S : here <= y
      <3>1. \E x \in S : \A y \in S : x <= y
        BY <1>8, <2>1, LeastNat
      <3> QED
        BY <1>4, <1>8, <3>1
    <2>3. here \in next .. Len(acc) /\ acc[here].doc >= d /\ here \in 1 .. Len(acc)
      BY <1>3, <1>5, <2>2
    <2>4. \A x \in next .. Len(acc) : x < here => x \notin S
      <3> SUFFICES ASSUME NEW x \in next .. Len(acc), x < here, x \in S PROVE FALSE
        OBVIOUS
      <3>1. here <= x
        BY <2>2
      <3>2. here \in Nat /\ x \in Nat
        BY <2>1, <2>2
      <3> QED
        BY <3>1, <3>2
    <2>5. \A x \in 1 .. Len(acc) : x > here => acc[x].doc > d
      <3> SUFFICES ASSUME NEW x \in 1 .. Len(acc), x > here PROVE acc[x].doc > d
        OBVIOUS
      <3>1. here < x
        BY <2>3
      <3>2. acc[here].doc < acc[x].doc
        BY <1>1, <2>3, <3>1 DEF DocOrder
      <3> QED
        BY <1>1, <2>3, <3>2
    <2>6. here \in Nat /\ here >= next /\ here <= Len(acc) + 1
      <3>1. here >= next /\ here <= Len(acc) /\ here \in Nat
        BY <2>3
      <3>2. Len(acc) <= Len(acc) + 1 /\ Len(acc) \in Nat
        BY <1>1
      <3> QED
        BY <3>1, <3>2
    <2> QED
      BY <1>6, <2>3, <2>4, <2>5, <2>6
  <1> QED
    BY <1>7, <1>8

----------------------------------------------------------------------------
(* A round of the loop.                                                    *)

\* What a round of the loop does, as a step from behind its hop and its header.
LEMMA PostingIs ==
  ASSUME IInv, Posting
  PROVE  /\ stage = "post" /\ dec.i < p /\ term \in 1 .. Len(TermWeights) /\ TermWeights[term] \in Nat
         /\ UNCHANGED <<query, anding, sorted, term, post, stage, total, had>>
         /\ \E s \in Decoder :
              /\ Stands(s) /\ s.i < p /\ Swept(s) /\ SameLeft(dec, s) /\ (~anding => s.i = dec.i)
              /\ query.k > 0 => s.kd \in 0 .. query.k - 1 /\ Known(s)
              /\ \/ /\ Hopping(s) /\ dec' = s /\ UNCHANGED <<acc, sup, room, next, abort>>
                 \/ /\ dec' = Passed(s) /\ abort' \in BOOLEAN
                    /\ anding => AndTo(dec'.cur - 1, TermWeights[term])
                    /\ ~anding => Add(dec'.cur - 1, TermWeights[term]) /\ next' = next
  <1>1. Types /\ Tables /\ stage = "post" /\ dec.i < p /\ Decodes(dec) /\ Swept(dec)
    BY DEF IInv, Posting, Looping
  <1>2. PICK h : h = IF Hopping(dec) THEN Hop(dec) ELSE dec
    OBVIOUS
  <1>3. PICK s : s = IF AtBlock(h) THEN Header(h) ELSE h
    OBVIOUS
  <1>4. /\ s \in Decoder /\ Stands(s) /\ s.i < p /\ (~anding => s.i = dec.i)
        /\ query.k > 0 => s.kd \in 0 .. query.k - 1 /\ Known(s)
        /\ Swept(s) /\ SameLeft(dec, s)
    BY <1>1, <1>2, <1>3, Round
  <1>5. term \in 1 .. Len(TermWeights) /\ TermWeights[term] \in Nat
    <2>1. term \in 0 .. Len(TermWeights) /\ term > 0
      BY <1>1 DEF Types
    <2>2. TermWeights \in Seq(Nat)
      BY AccumulatorsAssumption
    <2> QED
      BY <2>1, <2>2
  <1>6. UNCHANGED <<query, anding, sorted, term, post, stage, total, had>>
    BY DEF Posting
  <1>7. CASE Hopping(s)
    <2>1. dec' = s /\ UNCHANGED <<acc, sup, room, next, abort>>
      BY <1>2, <1>3, <1>7 DEF Posting
    <2> QED
      BY <1>1, <1>4, <1>5, <1>6, <1>7, <2>1
  <1>8. CASE ~Hopping(s)
    <2>1. dec' = Passed(s)
      BY <1>2, <1>3, <1>8 DEF Posting
    <2>2. anding => AndTo(dec'.cur - 1, TermWeights[term]) /\ UNCHANGED abort
      BY <1>2, <1>3, <1>8 DEF Posting
    <2>3. ~anding => /\ Add(dec'.cur - 1, TermWeights[term]) /\ UNCHANGED next
                     /\ abort' = (abort \/ /\ Limited /\ query.stop
                                           /\ Len(acc') >= query.limit)
      BY <1>2, <1>3, <1>8 DEF Posting
    <2>4. abort' \in BOOLEAN
      BY <1>1, <2>2, <2>3 DEF Types
    <2> QED
      BY <1>1, <1>4, <1>5, <1>6, <2>1, <2>2, <2>3, <2>4
  <1> QED
    BY <1>7, <1>8

\* The decoder hops once more in the next round.
LEMMA PostingHops ==
  ASSUME IInv, stage = "post", UNCHANGED <<query, anding, sorted, term, post, stage, total, had>>,
         NEW s \in Decoder, Stands(s), s.i < p, Swept(s), SameLeft(dec, s),
         query.k > 0 => s.kd \in 0 .. query.k - 1 /\ Known(s),
         Hopping(s), dec' = s, UNCHANGED <<acc, sup, room, next, abort>>
  PROVE  IInv'
  <1>1. Types'
    BY DEF IInv, Types, Decoder
  <1>2. anding /\ sorted /\ p' = p /\ Left(s)' = Left(s)
    BY DEF Hopping, IInv, Tables, p, Left
  <1>3. Tables'
    BY DEF IInv, Tables
  <1>4. Rooms'
    BY <1>2 DEF IInv, Rooms
  <1>5. Limit'
    BY DEF IInv, Limit, Limited
  <1>6. Decodes(dec)' /\ Swept(dec)'
    <2>1. Decodes(s)
      <3>1. query.k \in Nat
        BY PostFacts DEF IInv
      <3>2. CASE query.k > 0
        BY <3>1, <3>2 DEF Decodes
      <3>3. CASE ~(query.k > 0)
        BY <3>3 DEF Decodes
      <3> QED
        BY <3>2, <3>3
    <2>2. Decodes(dec)'
      BY <1>2, <2>1 DEF Decodes, Stands, Fresh, Known, Hopping, Behind
    <2>3. Swept(dec)'
      BY DEF Swept
    <2> QED
      BY <2>2, <2>3
  <1>7. Summed(dec)'
    <2>1. \A d \in Docs : d \in DocsIn(acc) => SumOf(acc \o sup, d) + Due(dec, d) = total[d]
      BY <1>2 DEF IInv, Summed
    <2>2. \A d \in Docs : d \in DocsIn(acc) => Due(s, d) = Due(dec, d)
      BY <1>2 DEF SameLeft, Due
    <2>3. \A d : Due(dec, d)' = Due(s, d)
      BY <1>2 DEF Due, Left
    <2>4. acc' \o sup' = acc \o sup /\ total' = total /\ anding'
      BY <1>2
    <2>5. \A d \in Docs : d \in DocsIn(acc') => SumOf(acc' \o sup', d) + Due(dec, d)' = total'[d]
      BY <2>1, <2>2, <2>3, <2>4
    <2> QED
      BY <2>4, <2>5 DEF Summed
  <1> QED
    BY <1>1, <1>3, <1>4, <1>5, <1>6, <1>7 DEF IInv

\* A posting is passed: the decoder's part.
LEMMA PassedStep ==
  ASSUME Types, UNCHANGED <<query, post>>, NEW s \in Decoder, Stands(s), s.i < p,
         query.k > 0 => s.kd \in 0 .. query.k - 1 /\ Known(s), dec' = Passed(s)
  PROVE  /\ dec' \in Decoder /\ dec'.i = s.i + 1 /\ dec'.cur = post[s.i + 1] /\ dec'.cur - 1 \in Docs
         /\ dec'.cur \in Nat /\ s.cur < dec'.cur /\ s.cur \in Nat
         /\ Decodes(dec)' /\ p' = p
         /\ dec'.cur - 1 \in Left(s) /\ dec'.cur - 1 \notin Left(dec)'
         /\ \A e : e # dec'.cur - 1 => (e \in Left(s) <=> e \in Left(dec)')
  <1>1. PICK t : t = Passed(s)
    OBVIOUS
  <1>2. /\ t \in Decoder /\ t.i = s.i + 1 /\ t.cur = post[s.i + 1]
        /\ Stands(t) /\ (t.i < p => Settled(t))
    BY <1>1, PassedIs
  <1>3. /\ post[s.i + 1] \in Nat /\ post[s.i + 1] - 1 \in Docs /\ s.cur < post[s.i + 1]
        /\ post[s.i + 1] - 1 \in Left(s) /\ post[s.i + 1] - 1 \notin Left(t)
        /\ \A e : e # post[s.i + 1] - 1 => (e \in Left(s) <=> e \in Left(t))
    BY <1>2, LeftPassed
  <1>4. dec' = t /\ p' = p /\ Left(dec)' = Left(t) /\ s.cur \in Nat
    BY <1>1 DEF p, Left, Decoder
  <1>5. Decodes(dec)'
    <2>1. Stands(dec)'
      BY <1>2, <1>4 DEF Stands
    <2>2. ASSUME query.k > 0, t.i < p
          PROVE  /\ t.kd \in 0 .. query.k - 1 /\ (t.kd = query.k - 1 => t.next_i = t.i /\ t.next_doc_num = t.cur)
                 /\ t.kd < query.k - 1 => Known(t)
      BY <1>2, <2>2 DEF Settled, Fresh
    <2>3. Known(t) => Known(dec)'
      BY <1>4 DEF Known
    <2>4. t.next_i = t.i /\ t.next_doc_num = t.cur => Fresh(dec)'
      BY <1>4 DEF Fresh
    <2> QED
      BY <1>4, <2>1, <2>2, <2>3, <2>4 DEF Decodes
  <1> QED
    BY <1>2, <1>3, <1>4, <1>5

\* What a posting is worth to its document is in its sum, or the document is one the
\* limit left out.
LEMMA DueMoved ==
  ASSUME UNCHANGED term, NEW s, NEW d, NEW w \in Nat, w = TermWeights[term],
         d \in Left(s), d \notin Left(dec)', \A e : e # d => (e \in Left(s) <=> e \in Left(dec)')
  PROVE  \A e : Due(s, e) = Due(dec, e)' + (IF e = d THEN w ELSE 0) /\ Due(dec, e)' \in Nat
  <1> SUFFICES ASSUME NEW e
               PROVE  Due(s, e) = Due(dec, e)' + (IF e = d THEN w ELSE 0) /\ Due(dec, e)' \in Nat
    OBVIOUS
  <1>1. Due(s, e) = IF e \in Left(s) THEN w ELSE 0
    BY DEF Due
  <1>2. Due(dec, e)' = IF e \in Left(dec)' THEN w ELSE 0
    BY DEF Due
  <1>3. CASE e = d
    BY <1>1, <1>2, <1>3
  <1>4. CASE e # d
    BY <1>1, <1>2, <1>4
  <1> QED
    BY <1>3, <1>4

\* Without the limit: an accumulator more, or more in the one there is.
LEMMA PostingAdds ==
  ASSUME IInv, stage = "post", dec.i < p, term \in 1 .. Len(TermWeights), TermWeights[term] \in Nat,
         UNCHANGED <<query, anding, sorted, term, post, stage, total, had>>,
         NEW s \in Decoder, Stands(s), s.i < p, Swept(s), SameLeft(dec, s), s.i = dec.i,
         query.k > 0 => s.kd \in 0 .. query.k - 1 /\ Known(s),
         ~anding, dec' = Passed(s), abort' \in BOOLEAN, next' = next,
         Add(dec'.cur - 1, TermWeights[term])
  PROVE  IInv'
  <1>1. PICK d \in Docs : d = dec'.cur - 1
    BY PassedStep DEF IInv
  <1>2. PICK w \in Nat : w = TermWeights[term]
    OBVIOUS
  <1>3. Types /\ Tables /\ Rooms /\ Limit /\ Summed(dec) /\ query.method \in Methods
    BY DEF IInv, Types
  <1>4. /\ dec' \in Decoder /\ dec'.i = s.i + 1 /\ dec'.cur \in Nat /\ s.cur < dec'.cur /\ s.cur \in Nat
        /\ Decodes(dec)' /\ p' = p
        /\ d \in Left(s) /\ d \notin Left(dec)'
        /\ \A e : e # d => (e \in Left(s) <=> e \in Left(dec)')
    BY <1>1, <1>3, PassedStep
  <1>5. d \in Nat /\ s.cur <= d /\ dec'.cur = d + 1
    BY <1>1, <1>4
  <1>6. next = 1 /\ \A e \in DocsIn(sup) : e < s.cur
    BY DEF Swept
  <1>7. DocsIn(sup) \in SUBSET Nat
    BY <1>3, EntryFacts DEF Types
  <1>8. d \notin DocsIn(sup)
    BY <1>4, <1>5, <1>6, <1>7
  <1>9. PICK n \in Nat : n = dec.i + 1 /\ n = dec'.i
    BY <1>4 DEF Decoder
  <1>10. Accumulated(d, w, n)
    BY <1>1, <1>2, <1>3, <1>8, <1>9, Adding
  <1>11. /\ acc' \in Seq(Entry) /\ sup' \in Seq(Entry) /\ room' \in [acc : Nat, sup : Nat]
         /\ DocsIn(sup') \subseteq DocsIn(sup) \cup {d}
         /\ \A e : SumOf(acc' \o sup', e) = SumOf(acc \o sup, e) + IF e = d THEN w ELSE 0
    BY <1>10 DEF Accumulated
  <1>12. Types'
    <2>1. next' \in 1 .. Len(acc') + 1
      <3>1. Len(acc') \in Nat
        BY <1>11
      <3> QED
        BY <1>6, <3>1
    <2> QED
      BY <1>3, <1>4, <1>11, <2>1 DEF Types, Decoder
  <1>13. ~sorted /\ ~sorted' /\ ~anding'
    BY <1>3 DEF Tables
  <1>14. Tables'
    <2>1. query'.method # "H" => sup' = <<>>
      BY <1>10 DEF Accumulated
    <2>2. query'.method \in {"A", "S"} => DocOrder(acc')
      BY <1>10 DEF Accumulated
    <2>3. query'.method # "L" => OneEach(acc' \o sup')
      BY <1>10 DEF Accumulated
    <2>4. query'.method = "A" => DocsIn(acc') = Docs
      BY <1>10 DEF Accumulated
    <2>5. query'.method = "H" /\ sup' # <<>> => Len(acc') = room'.acc
      BY <1>10 DEF Accumulated
    <2> QED
      BY <1>13, <2>1, <2>2, <2>3, <2>4, <2>5 DEF Tables
  <1>15. Rooms'
    <2>1. query'.method = "H" => /\ room'.acc = query'.limit /\ Len(acc') <= room'.acc
                                 /\ Len(sup') <= room'.sup
                                 /\ sup' # <<>> => Len(sup') + (p' - dec'.i) <= room'.sup
      BY <1>4, <1>9, <1>10 DEF Accumulated
    <2>2. query'.method = "L" => Len(acc') <= room'.acc /\ room'.acc >= 2
      BY <1>10 DEF Accumulated
    <2>3. Len(acc') \in Nat /\ room'.acc \in Nat /\ room'.sup \in Nat
      BY <1>11
    <2>4. query'.method = "H" => Len(acc') <= room'.acc + room'.sup
      BY <2>1, <2>3
    <2> QED
      BY <2>1, <2>2, <2>4 DEF Rooms
  <1>16. Limit'
    BY <1>3, <1>13 DEF Limit, Limited
  <1>17. Swept(dec)'
    <2>1. \A e \in DocsIn(sup') : e < dec'.cur
      <3>1. \A e \in DocsIn(sup) : e < dec'.cur
        <4>1. \A e \in Nat : e < s.cur => e < dec'.cur
          BY <1>4
        <4> QED
          BY <1>6, <1>7, <4>1
      <3>2. d < dec'.cur
        BY <1>5
      <3> QED
        BY <1>11, <3>1, <3>2
    <2> QED
      BY <1>6, <1>13, <2>1 DEF Swept
  <1>18. Summed(dec)'
    <2>1. \A e : Due(s, e) = Due(dec, e)' + (IF e = d THEN w ELSE 0) /\ Due(dec, e)' \in Nat
      BY <1>2, <1>4, DueMoved
    <2>2. ASSUME NEW e \in Docs PROVE SumOf(acc' \o sup', e) + Due(dec, e)' = total'[e]
      <3>1. PICK m \in Nat : m = SumOf(acc \o sup, e)
        <4>1. acc \o sup \in Seq(Entry)
          BY <1>3 DEF Types
        <4> QED
          BY <4>1, SumType
      <3>2. Due(s, e) = Due(dec, e)
        BY DEF SameLeft, Due
      <3>3. m + Due(s, e) = total[e]
        BY <1>3, <3>1, <3>2 DEF Summed
      <3>4. PICK v \in Nat, y \in Nat : v = Due(dec, e)' /\ y = IF e = d THEN w ELSE 0
        BY <2>1
      <3>5. SumOf(acc' \o sup', e) = m + y /\ Due(s, e) = v + y
        BY <1>11, <2>1, <3>1, <3>4
      <3>6. m + y + v = m + (v + y)
        OBVIOUS
      <3> QED
        BY <3>3, <3>4, <3>5, <3>6
    <2> QED
      BY <1>13, <2>2 DEF Summed
  <1> QED
    BY <1>4, <1>12, <1>14, <1>15, <1>16, <1>17, <1>18 DEF IInv

\* Within the limit the accumulators are what they were but for one that is met.
LEMMA AndToIs ==
  ASSUME Types, Tables, anding, NEW d \in Nat, NEW w \in Nat, NEW c \in Nat, c <= d,
         \A x \in 1 .. next - 1 : acc[x].doc < c,
         AndTo(d, w)
  PROVE  /\ sup' = sup /\ room' = room /\ sup = <<>>
         /\ \/ acc' = acc /\ d \notin DocsIn(acc)
            \/ \E x \in DOMAIN acc : acc[x].doc = d /\ acc' = Bumped(acc, x, w)
         /\ next' \in 1 .. Len(acc) + 1
         /\ \A x \in 1 .. next' - 1 : acc[x].doc < d + 1
         /\ \A x \in next' .. Len(acc) : acc[x].doc >= d + 1
  <1>1. /\ DOMAIN acc = 1 .. Len(acc) /\ Len(acc) \in Nat /\ next \in Nat /\ next >= 1
        /\ \A x \in 1 .. Len(acc) : acc[x].doc \in Nat
    BY PostFacts
  <1>2. DocOrder(acc) /\ sup = <<>>
    BY DEF Tables
  <1>3. PICK here : here = FirstFrom(d)
    OBVIOUS
  <1>4. PICK n \in Nat : n = Len(acc)
    BY <1>1
  <1>5. /\ here \in Nat /\ here >= next /\ here <= n + 1
        /\ \A x \in next .. n : x < here => acc[x].doc < d
        /\ here <= n => acc[here].doc >= d
        /\ \A x \in 1 .. n : x > here => acc[x].doc > d
    BY <1>2, <1>3, <1>4, First
  <1>6. PICK match \in BOOLEAN : match <=> here <= n /\ acc[here].doc = d
    OBVIOUS
  <1>7. /\ acc' = IF match THEN Bumped(acc, here, w) ELSE acc
        /\ next' = IF match THEN here + 1 ELSE here
        /\ sup' = sup /\ room' = room
    BY <1>3, <1>4, <1>6 DEF AndTo, After, Bumped
  <1>8. \A x \in 1 .. n : x < here => acc[x].doc < d
    <2> SUFFICES ASSUME NEW x \in 1 .. n, x < here PROVE acc[x].doc < d
      OBVIOUS
    <2>1. CASE x < next
      <3>1. x \in 1 .. next - 1
        BY <1>1, <2>1
      <3>2. acc[x].doc < c /\ acc[x].doc \in Nat
        BY <1>1, <1>4, <3>1
      <3> QED
        BY <3>2
    <2>2. CASE ~(x < next)
      <3>1. x \in next .. n
        BY <1>1, <2>2
      <3> QED
        BY <1>5, <3>1
    <2> QED
      BY <2>1, <2>2
  <1>9. here >= 1 /\ here <= n + 1 /\ (match => here \in 1 .. n)
    BY <1>1, <1>5, <1>6
  <1>10. next' \in 1 .. n + 1
    BY <1>5, <1>7, <1>9
  <1>11. \A x \in 1 .. next' - 1 : acc[x].doc < d + 1
    <2> SUFFICES ASSUME NEW x \in 1 .. next' - 1 PROVE acc[x].doc < d + 1
      OBVIOUS
    <2>1. x \in 1 .. n /\ (x < here \/ (match /\ x = here))
      BY <1>5, <1>7, <1>9, <1>10
    <2>2. acc[x].doc \in Nat
      BY <1>1, <1>4, <2>1
    <2>3. acc[x].doc < d \/ acc[x].doc = d
      BY <1>6, <1>8, <2>1
    <2> QED
      BY <2>2, <2>3
  <1>12. \A x \in next' .. n : acc[x].doc >= d + 1
    <2> SUFFICES ASSUME NEW x \in next' .. n PROVE acc[x].doc >= d + 1
      OBVIOUS
    <2>1. x \in 1 .. n /\ (x > here \/ (~match /\ x = here /\ here <= n))
      BY <1>5, <1>7, <1>9, <1>10
    <2>2. acc[x].doc \in Nat
      BY <1>1, <1>4, <2>1
    <2>3. acc[x].doc > d
      <3>1. CASE x > here
        BY <1>5, <2>1, <3>1
      <3>2. CASE ~match /\ x = here /\ here <= n
        BY <1>5, <1>6, <2>2, <3>2
      <3> QED
        BY <2>1, <3>1, <3>2
    <2> QED
      BY <2>2, <2>3
  <1>13. ~match => d \notin DocsIn(acc)
    <2> SUFFICES ASSUME ~match, NEW x \in 1 .. n, acc[x].doc = d PROVE FALSE
      BY <1>1, <1>4 DEF DocsIn
    <2>1. x < here \/ x = here \/ x > here
      BY <1>5
    <2>2. ~(x < here) /\ ~(x > here)
      <3>1. ~(d < d) /\ ~(d > d)
        OBVIOUS
      <3> QED
        BY <1>5, <1>8, <3>1
    <2> QED
      BY <1>6, <2>1, <2>2
  <1>14. match => here \in DOMAIN acc /\ acc[here].doc = d
    BY <1>1, <1>4, <1>6, <1>9
  <1> QED
    BY <1>2, <1>4, <1>7, <1>10, <1>11, <1>12, <1>13, <1>14

\* At the limit: the posting is added to its accumulator if there is one, and passed.
LEMMA PostingAnds ==
  ASSUME IInv, stage = "post", term \in 1 .. Len(TermWeights), TermWeights[term] \in Nat,
         UNCHANGED <<query, anding, sorted, term, post, stage, total, had>>,
         NEW s \in Decoder, Stands(s), s.i < p, Swept(s), SameLeft(dec, s),
         query.k > 0 => s.kd \in 0 .. query.k - 1 /\ Known(s),
         anding, dec' = Passed(s), abort' \in BOOLEAN,
         AndTo(dec'.cur - 1, TermWeights[term])
  PROVE  IInv'
  <1>1. PICK d \in Docs : d = dec'.cur - 1
    BY PassedStep DEF IInv
  <1>2. PICK w \in Nat : w = TermWeights[term]
    OBVIOUS
  <1>3. Types /\ Tables /\ Rooms /\ Limit /\ Summed(dec) /\ query.method \in Methods
    BY DEF IInv, Types
  <1>4. /\ dec' \in Decoder /\ dec'.i = s.i + 1 /\ dec'.cur \in Nat /\ s.cur < dec'.cur /\ s.cur \in Nat
        /\ Decodes(dec)' /\ p' = p
        /\ d \in Left(s) /\ d \notin Left(dec)'
        /\ \A e : e # d => (e \in Left(s) <=> e \in Left(dec)')
    BY <1>1, <1>3, PassedStep
  <1>5. d \in Nat /\ s.cur <= d /\ dec'.cur = d + 1
    BY <1>1, <1>4
  <1>6. \A x \in 1 .. next - 1 : acc[x].doc < s.cur
    BY DEF Swept
  <1>7. AndTo(d, w)
    BY <1>1, <1>2
  <1>8. /\ sup' = sup /\ room' = room /\ sup = <<>>
        /\ \/ acc' = acc /\ d \notin DocsIn(acc)
           \/ \E x \in DOMAIN acc : acc[x].doc = d /\ acc' = Bumped(acc, x, w)
        /\ next' \in 1 .. Len(acc) + 1
        /\ \A x \in 1 .. next' - 1 : acc[x].doc < d + 1
        /\ \A x \in next' .. Len(acc) : acc[x].doc >= d + 1
    BY <1>3, <1>4, <1>5, <1>6, <1>7, AndToIs
  <1>9. /\ acc \in Seq(Entry) /\ sup \in Seq(Entry) /\ acc \o sup = acc /\ DocsIn(sup) = {}
        /\ DOMAIN acc = 1 .. Len(acc) /\ Len(acc) \in Nat
    <2>1. acc \in Seq(Entry) /\ sup \in Seq(Entry) /\ sup = <<>>
      BY <1>3, <1>8 DEF Types
    <2>2. acc \o sup = acc /\ DocsIn(sup) = {}
      BY <2>1, ConcatFacts
    <2>3. DOMAIN acc = 1 .. Len(acc) /\ Len(acc) \in Nat
      BY <2>1
    <2> QED
      BY <2>1, <2>2, <2>3
  <1>10. DocOrder(acc) /\ OneEach(acc) /\ sorted
    BY <1>3, <1>9, OrderOneEach DEF Tables
  <1>11. /\ acc' \in Seq(Entry) /\ Len(acc') = Len(acc) /\ DocsIn(acc') = DocsIn(acc)
         /\ DocOrder(acc') /\ OneEach(acc')
         /\ \A y \in DOMAIN acc : acc'[y].doc = acc[y].doc
         /\ \A e \in DocsIn(acc) : SumOf(acc', e) = SumOf(acc, e) + IF e = d THEN w ELSE 0
    <2>1. CASE acc' = acc /\ d \notin DocsIn(acc)
      <3>1. \A e \in DocsIn(acc) : e # d
        BY <2>1
      <3>2. \A e : SumOf(acc, e) \in Nat
        BY <1>9, SumType
      <3>3. \A m \in Nat : m + 0 = m
        OBVIOUS
      <3>4. \A e \in DocsIn(acc) : SumOf(acc', e) = SumOf(acc, e) + 0
        BY <2>1, <3>2, <3>3
      <3>5. \A e \in DocsIn(acc) : SumOf(acc', e) = SumOf(acc, e) + IF e = d THEN w ELSE 0
        BY <3>1, <3>4
      <3> QED
        BY <1>9, <1>10, <2>1, <3>5
    <2>2. CASE \E x \in DOMAIN acc : acc[x].doc = d /\ acc' = Bumped(acc, x, w)
      <3>1. PICK x \in DOMAIN acc : acc[x].doc = d /\ acc' = Bumped(acc, x, w)
        BY <2>2
      <3>2. /\ Bumped(acc, x, w) \in Seq(Entry) /\ Len(Bumped(acc, x, w)) = Len(acc)
            /\ \A y \in DOMAIN acc : Bumped(acc, x, w)[y].doc = acc[y].doc
            /\ DocsIn(Bumped(acc, x, w)) = DocsIn(acc)
            /\ \A e : SumOf(Bumped(acc, x, w), e) = SumOf(acc, e) + IF e = acc[x].doc THEN w ELSE 0
            /\ (DocOrder(acc) => DocOrder(Bumped(acc, x, w))) /\ (OneEach(acc) => OneEach(Bumped(acc, x, w)))
        BY <1>9, BumpedIs, ZenonT(60)
      <3> QED
        BY <1>10, <3>1, <3>2
    <2> QED
      BY <1>8, <2>1, <2>2
  <1>12. acc' \o sup' = acc' /\ sup' = <<>> /\ sup' \in Seq(Entry)
    BY <1>8, <1>9, <1>11, ConcatFacts
  <1>13. Types'
    <2>1. next' \in 1 .. Len(acc') + 1
      BY <1>8, <1>11
    <2> QED
      BY <1>3, <1>4, <1>8, <1>11, <1>12, <2>1 DEF Types, Decoder
  <1>14. Tables'
    BY <1>3, <1>8, <1>10, <1>11, <1>12 DEF Tables
  <1>15. Rooms'
    <2>1. sorted' /\ Len(acc') = Len(acc) /\ room' = room
      BY <1>8, <1>10, <1>11
    <2> QED
      BY <1>3, <2>1 DEF Rooms
  <1>16. Limit'
    BY <1>3, <1>9, <1>11, <1>12 DEF Limit
  <1>17. Swept(dec)'
    <2>1. \A x \in 1 .. next' - 1 : acc'[x].doc < d + 1
      <3>1. \A x \in 1 .. next' - 1 : x \in DOMAIN acc
        <4>1. PICK n \in Nat : n = Len(acc)
          BY <1>9
        <4>2. next' \in 1 .. n + 1
          BY <1>8, <4>1
        <4>3. PICK y \in 1 .. n + 1 : y = next'
          BY <4>2
        <4>4. \A z \in 1 .. n + 1 : \A x \in 1 .. z - 1 : x \in 1 .. n
          BY <4>1
        <4> QED
          BY <1>9, <4>1, <4>3, <4>4
      <3> QED
        BY <1>8, <1>11, <3>1
    <2>2. \A x \in next' .. Len(acc') : acc'[x].doc >= d + 1
      <3>1. \A x \in next' .. Len(acc) : x \in DOMAIN acc
        BY <1>8, <1>9
      <3> QED
        BY <1>8, <1>11, <3>1
    <2> QED
      BY <1>5, <2>1, <2>2 DEF Swept
  <1>18. Summed(dec)'
    <2>1. \A e : Due(s, e) = Due(dec, e)' + (IF e = d THEN w ELSE 0) /\ Due(dec, e)' \in Nat
      BY <1>2, <1>4, DueMoved
    <2>2. ASSUME NEW e \in Docs, e \in DocsIn(acc') PROVE SumOf(acc' \o sup', e) + Due(dec, e)' = total'[e]
      <3>0. e \in DocsIn(acc)
        BY <1>11, <2>2
      <3>1. PICK m \in Nat : m = SumOf(acc, e)
        BY <1>9, SumType
      <3>2. Due(s, e) = Due(dec, e)
        BY <3>0 DEF SameLeft, Due
      <3>3. m + Due(s, e) = total[e]
        BY <1>3, <1>9, <3>0, <3>1, <3>2 DEF Summed
      <3>4. PICK v \in Nat, y \in Nat : v = Due(dec, e)' /\ y = IF e = d THEN w ELSE 0
        BY <2>1
      <3>5. SumOf(acc' \o sup', e) = m + y /\ Due(s, e) = v + y
        BY <1>11, <1>12, <2>1, <3>0, <3>1, <3>4
      <3>6. m + y + v = m + (v + y)
        OBVIOUS
      <3> QED
        BY <3>3, <3>4, <3>5, <3>6
    <2> QED
      BY <2>2 DEF Summed
  <1> QED
    BY <1>4, <1>13, <1>14, <1>15, <1>16, <1>17, <1>18 DEF IInv

\* A round of the loop, in its three outcomes.
LEMMA PostingKeeps ==
  ASSUME IInv, Posting
  PROVE  IInv'
  <1>1. /\ stage = "post" /\ dec.i < p /\ term \in 1 .. Len(TermWeights) /\ TermWeights[term] \in Nat
        /\ UNCHANGED <<query, anding, sorted, term, post, stage, total, had>>
    BY PostingIs
  <1>2. PICK s \in Decoder :
              /\ Stands(s) /\ s.i < p /\ Swept(s) /\ SameLeft(dec, s) /\ (~anding => s.i = dec.i)
              /\ query.k > 0 => s.kd \in 0 .. query.k - 1 /\ Known(s)
              /\ \/ /\ Hopping(s) /\ dec' = s /\ UNCHANGED <<acc, sup, room, next, abort>>
                 \/ /\ dec' = Passed(s) /\ abort' \in BOOLEAN
                    /\ anding => AndTo(dec'.cur - 1, TermWeights[term])
                    /\ ~anding => Add(dec'.cur - 1, TermWeights[term]) /\ next' = next
    BY PostingIs
  <1>3. CASE Hopping(s) /\ dec' = s /\ UNCHANGED <<acc, sup, room, next, abort>>
    BY <1>1, <1>2, <1>3, PostingHops
  <1>4. CASE dec' = Passed(s) /\ abort' \in BOOLEAN /\ anding /\ AndTo(dec'.cur - 1, TermWeights[term])
    BY <1>1, <1>2, <1>4, PostingAnds
  <1>5. CASE dec' = Passed(s) /\ abort' \in BOOLEAN /\ ~anding /\ Add(dec'.cur - 1, TermWeights[term]) /\ next' = next
    BY <1>1, <1>2, <1>5, PostingAdds
  <1> QED
    BY <1>2, <1>3, <1>4, <1>5

----------------------------------------------------------------------------
(* Terms.                                                                  *)

\* Sorted, and packed, a table has each of its documents once and with its sum.
LEMMA OrderedIs ==
  ASSUME Types, Tables, ~sorted, query.method \in {"S", "H", "L"}, NEW t, t = Ordered
  PROVE  /\ t \in Seq(Entry) /\ Len(t) \in Nat /\ Len(t) <= Len(acc) + Len(sup)
         /\ DocOrder(t) /\ OneEach(t) /\ DocsIn(t) = DocsIn(acc \o sup)
         /\ \A e : SumOf(t, e) = SumOf(acc \o sup, e)
  <1>1. acc \in Seq(Entry) /\ sup \in Seq(Entry)
    BY DEF Types
  <1>2. /\ acc \o sup \in Seq(Entry) /\ Len(acc \o sup) = Len(acc) + Len(sup)
        /\ (sup = <<>> => acc \o sup = acc)
    BY <1>1, ConcatFacts
  <1>3. Len(acc) \in Nat /\ Len(sup) \in Nat /\ Len(acc) <= Len(acc) + Len(sup)
    BY <1>1
  <1>4. CASE query.method = "H"
    <2>1. OneEach(acc \o sup)
      BY <1>4 DEF Tables
    <2>2. PICK s \in Seq(Entry) : s = acc \o sup
      BY <1>2
    <2>3. t = ByDoc(s)
      BY <1>4, <2>2 DEF Ordered, Chained
    <2>4. /\ t \in Seq(Entry) /\ Len(t) = Len(s) /\ DocOrder(t) /\ OneEach(t)
          /\ DocsIn(t) = DocsIn(s) /\ \A d : SumOf(t, d) = SumOf(s, d)
      BY <2>1, <2>2, <2>3, ByDocIs
    <2>5. Len(t) \in Nat /\ Len(t) <= Len(acc) + Len(sup)
      BY <1>2, <1>3, <2>2, <2>4
    <2> QED
      BY <2>2, <2>4, <2>5
  <1>5. CASE query.method = "L"
    <2>1. sup = <<>> /\ acc \o sup = acc
      BY <1>2, <1>5 DEF Tables
    <2>2. t = Packed(acc)
      BY <1>5 DEF Ordered
    <2>3. /\ t \in Seq(Entry) /\ Len(t) <= Len(acc) /\ Len(t) \in Nat /\ DocOrder(t) /\ OneEach(t)
          /\ DocsIn(t) = DocsIn(acc) /\ \A d : SumOf(t, d) = SumOf(acc, d)
      BY <1>1, <2>2, PackedIs
    <2>4. Len(t) <= Len(acc) + Len(sup)
      BY <1>3, <2>3
    <2> QED
      BY <2>1, <2>3, <2>4
  <1>6. CASE query.method = "S"
    <2>1. sup = <<>> /\ acc \o sup = acc /\ DocOrder(acc)
      BY <1>2, <1>6 DEF Tables
    <2>2. t = acc
      BY <1>6 DEF Ordered
    <2>3. OneEach(acc)
      BY <1>1, <2>1, OrderOneEach
    <2> QED
      BY <1>1, <1>3, <2>1, <2>2, <2>3
  <1> QED
    BY <1>4, <1>5, <1>6

\* An entry lists documents in order.
LEMMA EntryDocs ==
  ASSUME NEW docs \in Entries
  PROVE  docs \in Seq(1 .. NumDocs) /\ Increasing(docs)
  <1>1. PICK D \in SUBSET (1 .. NumDocs) : docs = InOrder(D)
    BY DEF Entries
  <1>2. D \in SUBSET Nat
    BY AccumulatorsAssumption
  <1>3. IsFiniteSet(D)
    <2>1. IsFiniteSet(1 .. NumDocs)
      <3>1. 1 \in Int /\ NumDocs \in Int
        BY AccumulatorsAssumption
      <3> QED
        BY <3>1, FS_Interval
    <2> QED
      BY <2>1, FS_Subset
  <1>4. InOrder(D) \in Seq(D) /\ Increasing(InOrder(D))
    BY <1>2, <1>3, InOrderIs
  <1> QED
    BY <1>1, <1>4, SeqMonotonic

\* Between terms nothing is left of an entry.
LEMMA NothingLeft ==
  ASSUME Types, stage # "post"
  PROVE  post = <<>> /\ dec.i = 0 /\ p = 0 /\ Left(dec) = {} /\ \A e : Due(dec, e) = 0
  <1>1. post = <<>> /\ dec.i = 0
    BY DEF Types
  <1>2. p = 0
    BY <1>1 DEF p
  <1>3. Left(dec) = {}
    <2>1. 0 + 1 .. 0 = {}
      OBVIOUS
    <2> QED
      BY <1>1, <1>2, <2>1 DEF Left
  <1> QED
    BY <1>1, <1>2, <1>3 DEF Due

\* A table that is left as it is, or one that is sorted; the term goes on where the
\* sums are what the terms before are worth.
TableKept == acc' = acc /\ sup' = sup

TableSorted == /\ acc' = Ordered /\ sup' = <<>> /\ ~sorted /\ ~anding /\ sorted' = TRUE
           /\ query.method \in {"S", "H", "L"}

\* Either way the sums and the documents stay.
LEMMA TableMoved ==
  ASSUME IInv, TableKept \/ TableSorted
  PROVE  /\ acc' \in Seq(Entry) /\ sup' \in Seq(Entry)
         /\ DocsIn(acc' \o sup') = DocsIn(acc \o sup)
         /\ \A e : SumOf(acc' \o sup', e) = SumOf(acc \o sup, e)
         /\ TableSorted => /\ DocOrder(acc') /\ OneEach(acc' \o sup')
                       /\ Len(acc') <= Len(acc) + Len(sup) /\ Len(acc') \in Nat
                       /\ acc' \o sup' = acc' /\ DocsIn(sup') = {}
  <1>1. CASE TableKept
    <2>1. acc' \in Seq(Entry) /\ sup' \in Seq(Entry) /\ acc' \o sup' = acc \o sup
      BY <1>1 DEF TableKept, IInv, Types
    <2>2. CASE TableSorted
      <3>1. PICK t : t = Ordered
        OBVIOUS
      <3>2. /\ t \in Seq(Entry) /\ Len(t) \in Nat /\ Len(t) <= Len(acc) + Len(sup)
            /\ DocOrder(t) /\ OneEach(t)
        BY <2>2, <3>1, OrderedIs DEF IInv, TableSorted
      <3>3. t \o <<>> = t /\ DocsIn(<<>>) = {}
        <4>1. PICK b \in Seq(Entry) : b = <<>>
          BY EmptySeq
        <4> QED
          BY <3>2, <4>1, ConcatFacts
      <3> QED
        BY <2>1, <2>2, <3>1, <3>2, <3>3 DEF TableSorted
    <2> QED
      BY <2>1, <2>2
  <1>2. CASE TableSorted
    <2>1. PICK t : t = Ordered
      OBVIOUS
    <2>2. /\ t \in Seq(Entry) /\ Len(t) \in Nat /\ Len(t) <= Len(acc) + Len(sup)
          /\ DocOrder(t) /\ OneEach(t) /\ DocsIn(t) = DocsIn(acc \o sup)
          /\ \A e : SumOf(t, e) = SumOf(acc \o sup, e)
      BY <1>2, <2>1, OrderedIs DEF IInv, TableSorted
    <2>3. t \o <<>> = t /\ DocsIn(<<>>) = {}
      <3>1. PICK b \in Seq(Entry) : b = <<>>
        BY EmptySeq
      <3> QED
        BY <2>2, <3>1, ConcatFacts
    <2> QED
      BY <1>2, <2>1, <2>2, <2>3 DEF TableSorted
  <1> QED
    BY <1>1, <1>2

\* A term begins: the limit is looked at, and a table at the limit is sorted.
LEMMA BeginTermKeeps ==
  ASSUME IInv, NEW docs \in Entries, BeginTerm(docs)
  PROVE  IInv'
  <1>1. /\ stage = "term" /\ term < Len(TermWeights) /\ term' = term + 1 /\ post' = docs
        /\ anding' = (anding \/ Full) /\ sorted' = (sorted \/ anding')
        /\ acc' = (IF anding' /\ ~sorted THEN Ordered ELSE acc)
        /\ sup' = (IF anding' /\ ~sorted THEN <<>> ELSE sup)
        /\ dec' = Opened(query.k) /\ next' = 1 /\ stage' = "post"
        /\ total' = [d \in Docs |-> IF \E x \in DOMAIN docs : docs[x] = d + 1
                                    THEN total[d] + TermWeights[term + 1] ELSE total[d]]
        /\ had' = Cardinality(DocsIn(acc \o sup))
        /\ query' = query /\ room' = room /\ abort' = abort
    BY DEF BeginTerm
  <1>2. Types /\ Tables /\ Rooms /\ Limit /\ Summed(dec)
    BY DEF IInv
  <1>3. /\ acc \in Seq(Entry) /\ sup \in Seq(Entry) /\ anding \in BOOLEAN /\ sorted \in BOOLEAN
        /\ query.k \in Nat /\ term \in 0 .. Len(TermWeights) /\ room \in [acc : Nat, sup : Nat]
        /\ total \in [Docs -> Nat]
    BY <1>2, PostFacts DEF Types
  <1>4. PICK w \in Nat : w = TermWeights[term + 1]
    <2>1. TermWeights \in Seq(Nat) /\ Len(TermWeights) \in Nat
      BY AccumulatorsAssumption
    <2>2. term + 1 \in 1 .. Len(TermWeights)
      BY <1>1, <1>3, <2>1
    <2> QED
      BY <2>1, <2>2
  <1>5. Full => query.method \in {"S", "H", "L"} /\ Len(acc) >= query.limit
    <2>1. query.method \in {"A", "S", "H", "L"}
      BY <1>2, AccumulatorsAssumption DEF Types
    <2> QED
      BY <2>1 DEF Full, Limited
  <1>6. sorted => anding
    BY <1>1, <1>2 DEF Tables
  <1>7. anding => sorted
    BY <1>2 DEF Tables
  <1>8. docs \in Seq(1 .. NumDocs) /\ Increasing(docs) /\ Len(docs) \in Nat
    BY EntryDocs
  <1>9. /\ dec' \in Decoder /\ dec'.i = 0 /\ dec'.kd = query.k - 1 /\ dec'.next_i = 0
        /\ dec'.next_doc_num = 0 /\ dec'.cur = 0 /\ p' = Len(docs)
    BY <1>1, <1>3 DEF Opened, Decoder, p
  <1>10. /\ TableKept \/ TableSorted
         /\ anding' /\ ~sorted => TableSorted /\ Full
         /\ ~(anding' /\ ~sorted) => TableKept
         /\ ~anding' => ~anding /\ ~sorted /\ ~sorted' /\ ~Full
         /\ anding' => sorted'
    <2>1. anding' /\ ~sorted => TableSorted /\ Full
      BY <1>1, <1>5, <1>7 DEF TableSorted
    <2>2. ~(anding' /\ ~sorted) => TableKept
      BY <1>1 DEF TableKept
    <2>3. ~anding' => ~anding /\ ~sorted /\ ~sorted' /\ ~Full
      BY <1>1, <1>6
    <2> QED
      BY <1>1, <2>1, <2>2, <2>3
  <1>11. /\ acc' \in Seq(Entry) /\ sup' \in Seq(Entry)
         /\ DocsIn(acc' \o sup') = DocsIn(acc \o sup)
         /\ \A e : SumOf(acc' \o sup', e) = SumOf(acc \o sup, e)
         /\ TableSorted => /\ DocOrder(acc') /\ OneEach(acc' \o sup')
                       /\ Len(acc') <= Len(acc) + Len(sup) /\ Len(acc') \in Nat
                       /\ acc' \o sup' = acc' /\ DocsIn(sup') = {}
    BY <1>10, TableMoved
  <1>12. Types'
    <2>1. next' \in 1 .. Len(acc') + 1
      <3>1. Len(acc') \in Nat
        BY <1>11
      <3> QED
        BY <1>1, <3>1
    <2>2. total' \in [Docs -> Nat]
      BY <1>1, <1>3, <1>4
    <2>3. had' \in Nat
      <3>1. PICK s \in Seq(Entry) : s = acc \o sup
        BY <1>3, ConcatFacts
      <3> QED
        BY <1>1, <3>1, DocsCounted
    <2>4. term' \in 0 .. Len(TermWeights) /\ term' > 0
      <3>1. Len(TermWeights) \in Nat
        BY AccumulatorsAssumption
      <3> QED
        BY <1>1, <1>3, <3>1
    <2>5. anding' \in BOOLEAN /\ sorted' \in BOOLEAN
      BY <1>1, <1>3 DEF Full, Limited
    <2> QED
      BY <1>1, <1>2, <1>8, <1>9, <1>11, <2>1, <2>2, <2>3, <2>4, <2>5 DEF Types, Decoder
  <1>13. Tables'
    <2>1. CASE TableKept
      <3>1. CASE anding'
        <4>1. (sorted /\ anding) \/ TableSorted
          BY <1>6, <1>10, <3>1
        <4>2. CASE sorted /\ anding
          BY <1>1, <1>2, <2>1, <3>1, <4>2 DEF Tables, TableKept
        <4>3. CASE TableSorted
          BY <1>1, <1>11, <3>1, <4>3 DEF Tables, TableSorted
        <4> QED
          BY <4>1, <4>2, <4>3
      <3>2. CASE ~anding'
        BY <1>1, <1>2, <1>10, <2>1, <3>2 DEF Tables, TableKept
      <3> QED
        BY <3>1, <3>2
    <2>2. CASE ~TableKept
      <3>1. TableSorted /\ anding'
        BY <1>10, <2>2
      <3> QED
        BY <1>1, <1>11, <3>1 DEF Tables, TableSorted
    <2> QED
      BY <2>1, <2>2
  <1>14. PICK la \in Nat, ls \in Nat, ra \in Nat, rs \in Nat :
             la = Len(acc) /\ ls = Len(sup) /\ ra = room.acc /\ rs = room.sup
    BY <1>3
  <1>15. query.limit \in Nat /\ query.limit >= 2
    BY <1>2, RoomFacts
  <1>16. ~anding' => sup = <<>> /\ sup' = <<>>
    <2> SUFFICES ASSUME ~anding' PROVE sup = <<>>
      BY <1>10 DEF TableKept
    <2>1. ~sorted /\ ~Full
      BY <1>10
    <2>2. CASE query.method = "H"
      <3>1. ~(Len(acc) >= query.limit)
        BY <2>1, <2>2 DEF Full, Limited
      <3>2. room.acc = query.limit
        BY <1>2, <2>1, <2>2 DEF Rooms
      <3>3. Len(acc) # room.acc
        BY <1>14, <1>15, <3>1, <3>2
      <3> QED
        BY <1>2, <2>1, <2>2, <3>3 DEF Tables
    <2>3. CASE query.method # "H"
      BY <1>2, <2>3 DEF Tables
    <2> QED
      BY <2>2, <2>3
  <1>17. Rooms'
    <2>1. CASE TableKept /\ ~TableSorted
      <3>1. CASE sorted'
        <4>1. acc' = acc /\ room' = room /\ query' = query
          BY <1>1, <2>1 DEF TableKept
        <4> QED
          BY <1>2, <3>1, <4>1 DEF Rooms
      <3>2. CASE ~sorted'
        <4>1. acc' = acc /\ sup' = sup /\ room' = room /\ query' = query /\ sup' = <<>> /\ ~sorted
          BY <1>1, <1>10, <1>16, <2>1, <3>2 DEF TableKept
        <4> QED
          BY <1>2, <4>1 DEF Rooms
      <3> QED
        BY <3>1, <3>2
    <2>2. CASE TableSorted
      <3>1. query.method # "L" => OneEach(acc \o sup)
        BY <1>2 DEF Tables
      <3>2. ~sorted /\ sorted' /\ room' = room /\ query' = query
        BY <1>1, <2>2 DEF TableSorted
      <3>3. PICK m \in Nat : m = Len(acc') /\ m <= la + ls
        BY <1>11, <1>14, <2>2
      <3>4. query.method = "H" => la <= ra /\ ls <= rs
        BY <1>2, <1>14, <3>2 DEF Rooms
      <3>5. query.method = "H" => m <= ra + rs
        BY <3>3, <3>4
      <3>6. query.method = "L" => m <= ra /\ ra >= 2
        <4> SUFFICES ASSUME query.method = "L" PROVE m <= ra /\ ra >= 2
          OBVIOUS
        <4>1. sup = <<>> /\ la <= ra /\ ra >= 2
          BY <1>2, <1>14 DEF Tables, Rooms
        <4>2. ls = 0
          BY <1>14, <4>1
        <4> QED
          BY <3>3, <4>1, <4>2
      <3>7. Len(acc') = m /\ room'.acc = ra /\ room'.sup = rs
        BY <1>14, <3>2, <3>3
      <3> QED
        BY <3>2, <3>5, <3>6, <3>7 DEF Rooms
    <2> QED
      BY <1>10, <2>1, <2>2
  <1>18. Limit'
    <2>1. Cardinality(DocsIn(acc' \o sup')) = had'
      BY <1>1, <1>11
    <2>2. ~anding' /\ Limited' => had' < query'.limit
      <3> SUFFICES ASSUME ~anding', Limited PROVE had' < query.limit
        BY <1>1 DEF Limited
      <3>1. ~(Len(acc) >= query.limit) /\ sup = <<>>
        BY <1>10, <1>16 DEF Full
      <3>2. acc \o sup = acc
        BY <1>3, <3>1, ConcatFacts
      <3>3. had' \in Nat /\ had' <= Len(acc)
        BY <1>1, <1>3, <3>2, DocsCounted
      <3> QED
        BY <1>14, <1>15, <3>1, <3>3
    <2> QED
      BY <2>1, <2>2 DEF Limit
  <1>19. Decodes(dec)'
    <2>1. Stands(dec)'
      BY <1>8, <1>9 DEF Stands
    <2>2. Fresh(dec)'
      BY <1>9 DEF Fresh
    <2>3. query.k > 0 => dec'.kd \in 0 .. query.k - 1 /\ ~(dec'.kd < query.k - 1)
      BY <1>3, <1>9
    <2> QED
      BY <1>1, <2>1, <2>2, <2>3 DEF Decodes
  <1>20. Swept(dec)'
    <2>1. \A x \in next' .. Len(acc') : acc'[x].doc >= dec'.cur
      <3>1. PICK a \in Seq(Entry) : a = acc'
        BY <1>11
      <3>2. \A x \in 1 .. Len(a) : a[x].doc \in Nat
        <4>1. \A x \in DOMAIN a : a[x].doc \in DocsIn(a)
          BY EntryFacts
        <4>2. DocsIn(a) \in SUBSET Nat /\ DOMAIN a = 1 .. Len(a)
          BY EntryFacts
        <4> QED
          BY <4>1, <4>2
      <3> QED
        BY <1>1, <1>9, <3>1, <3>2
    <2>2. \A x \in 1 .. next' - 1 : acc'[x].doc < dec'.cur
      <3>1. 1 .. 1 - 1 = {}
        OBVIOUS
      <3> QED
        BY <1>1, <3>1
    <2>3. ~anding' => DocsIn(sup') = {}
      <3>1. DOMAIN <<>> = {}
        OBVIOUS
      <3> QED
        BY <1>16, <3>1 DEF DocsIn
    <2> QED
      BY <1>1, <2>1, <2>2, <2>3 DEF Swept
  <1>21. Summed(dec)'
    <2>1. \A e \in Docs : Due(dec, e)' = IF \E x \in DOMAIN docs : docs[x] = e + 1 THEN w ELSE 0
      <3>1. Left(dec)' = {docs[x] - 1 : x \in DOMAIN docs}
        <4>1. 0 + 1 .. Len(docs) = DOMAIN docs
          BY <1>8
        <4> QED
          BY <1>1, <1>9, <4>1 DEF Left
      <3>2. \A e \in Docs : e \in Left(dec)' <=> \E x \in DOMAIN docs : docs[x] = e + 1
        <4>1. \A x \in DOMAIN docs : docs[x] \in Int
          BY <1>8, AccumulatorsAssumption
        <4>2. \A e \in Docs : e \in Int
          BY DEF Docs
        <4>3. \A e, n \in Int : e = n - 1 <=> n = e + 1
          OBVIOUS
        <4> QED
          BY <3>1, <4>1, <4>2, <4>3
      <3>3. TermWeights[term'] = w
        BY <1>1, <1>4
      <3> QED
        BY <3>2, <3>3 DEF Due
    <2>2. ASSUME NEW e \in Docs, anding' => e \in DocsIn(acc')
          PROVE  SumOf(acc' \o sup', e) + Due(dec, e)' = total'[e]
      <3>1. anding => e \in DocsIn(acc)
        <4> SUFFICES ASSUME anding PROVE e \in DocsIn(acc)
          OBVIOUS
        <4>1. anding' /\ ~TableSorted
          BY <1>1 DEF TableSorted
        <4>2. acc' = acc
          BY <1>10, <4>1 DEF TableKept
        <4> QED
          BY <2>2, <4>1, <4>2
      <3>2. SumOf(acc \o sup, e) + 0 = total[e]
        <4>1. Due(dec, e) = 0
          BY <1>1, <1>2, NothingLeft
        <4> QED
          BY <1>2, <3>1, <4>1 DEF Summed
      <3>3. PICK m \in Nat : m = SumOf(acc \o sup, e)
        <4>1. PICK s \in Seq(Entry) : s = acc \o sup
          BY <1>3, ConcatFacts
        <4> QED
          BY <4>1, SumType
      <3>4. total'[e] = IF \E x \in DOMAIN docs : docs[x] = e + 1 THEN m + w ELSE m
        BY <1>1, <1>4, <3>2, <3>3
      <3> QED
        BY <1>11, <2>1, <3>3, <3>4
    <2> QED
      BY <2>2 DEF Summed
  <1> QED
    BY <1>12, <1>13, <1>17, <1>18, <1>19, <1>20, <1>21 DEF IInv

\* A term ends: no posting of an accumulator is left.
LEMMA EndTermKeeps ==
  ASSUME IInv, EndTerm
  PROVE  IInv'
  <1>1. /\ stage = "post" /\ ~Looping /\ stage' = "term" /\ post' = <<>> /\ dec' = Opened(0) /\ next' = 1
        /\ UNCHANGED <<query, acc, sup, room, anding, sorted, term, abort, total, had>>
    BY DEF EndTerm
  <1>2. Types /\ Tables /\ Rooms /\ Limit /\ Summed(dec) /\ Stands(dec) /\ Swept(dec)
    BY <1>1 DEF IInv, Decodes
  <1>3. dec' \in Decoder /\ dec'.i = 0
    BY <1>1 DEF Opened, Decoder
  <1>4. Types'
    <2>1. next' \in 1 .. Len(acc') + 1
      <3>1. Len(acc) \in Nat
        BY <1>2 DEF Types
      <3> QED
        BY <1>1, <3>1
    <2>2. post' \in Seq(1 .. NumDocs) /\ Increasing(post')
      <3>1. post' \in Seq(1 .. NumDocs)
        BY <1>1, EmptySeq
      <3>2. DOMAIN post' = {}
        BY <1>1
      <3> QED
        BY <3>1, <3>2 DEF Increasing
    <2> QED
      BY <1>1, <1>2, <1>3, <2>1, <2>2 DEF Types, Decoder
  <1>5. Tables'
    BY <1>1, <1>2 DEF Tables
  <1>6. Rooms'
    BY <1>1, <1>2 DEF Rooms
  <1>7. Limit'
    BY <1>1, <1>2 DEF Limit, Limited
  <1>8. \A e \in Docs : (anding => e \in DocsIn(acc)) => e \notin Left(dec)
    <2>0. /\ p \in Nat /\ \A x \in 1 .. p : post[x] \in Nat
          /\ \A x, y \in 1 .. p : x < y => post[x] < post[y]
          /\ DOMAIN acc = 1 .. Len(acc) /\ Len(acc) \in Nat /\ next \in Nat
          /\ \A x \in 1 .. Len(acc) : acc[x].doc \in Nat
      BY <1>2, PostFacts
    <2>1. PICK i \in 0 .. p : i = dec.i
      BY <1>2 DEF Stands
    <2>2. CASE i = p
      <3>1. i + 1 .. p = {}
        BY <2>0, <2>2
      <3> QED
        BY <2>1, <3>1 DEF Left
    <2>3. CASE i # p
      <3>1. anding /\ next > Len(acc)
        <4>1. i < p
          BY <2>0, <2>3
        <4>2. anding /\ ~(next <= Len(acc))
          BY <1>1, <2>1, <4>1 DEF Looping
        <4> QED
          BY <2>0, <4>2
      <3>2. \A y \in 1 .. Len(acc) : acc[y].doc < dec.cur
        <4>1. \A y \in 1 .. Len(acc) : y \in 1 .. next - 1
          BY <2>0, <3>1
        <4> QED
          BY <1>2, <3>1, <4>1 DEF Swept
      <3>3. ASSUME NEW x \in i + 1 .. p PROVE post[x] > dec.cur /\ post[x] \in Nat /\ dec.cur \in Nat
        <4>1. x \in 1 .. p /\ i < x /\ dec.cur \in Nat
          BY <1>2, <2>0 DEF Types
        <4>2. post[x] \in Nat /\ post[x] >= 1
          BY <1>2, <4>1, PostFacts
        <4>3. CASE i = 0
          BY <1>2, <2>1, <4>1, <4>2, <4>3 DEF Stands
        <4>4. CASE i # 0
          <5>1. i \in 1 .. p /\ dec.cur = post[i]
            BY <1>2, <2>1, <4>4 DEF Stands
          <5>2. post[i] < post[x]
            BY <2>0, <4>1, <5>1
          <5> QED
            BY <4>1, <4>2, <5>1, <5>2
        <4> QED
          BY <4>3, <4>4
      <3>4. ASSUME NEW x \in i + 1 .. p, NEW y \in 1 .. Len(acc) PROVE acc[y].doc # post[x] - 1
        <4>1. acc[y].doc < dec.cur /\ acc[y].doc \in Nat
          BY <2>0, <3>2
        <4>2. post[x] > dec.cur /\ post[x] \in Nat /\ dec.cur \in Nat
          BY <3>3
        <4> QED
          BY <4>1, <4>2
      <3> QED
        BY <2>0, <2>1, <3>1, <3>4 DEF Left, DocsIn
    <2> QED
      BY <2>2, <2>3
  <1>9. Summed(dec)'
    <2>1. \A e : Due(dec, e)' = 0
      <3>1. p' = 0
        BY <1>1 DEF p
      <3>2. Left(dec)' = {}
        <4>1. 0 + 1 .. 0 = {}
          OBVIOUS
        <4> QED
          BY <1>3, <3>1, <4>1 DEF Left
      <3> QED
        BY <3>2 DEF Due
    <2>2. ASSUME NEW e \in Docs, anding => e \in DocsIn(acc)
          PROVE  SumOf(acc \o sup, e) = total[e] /\ total[e] \in Nat
      <3>1. SumOf(acc \o sup, e) + Due(dec, e) = total[e]
        BY <1>2, <2>2 DEF Summed
      <3>2. Due(dec, e) = 0
        BY <1>8, <2>2 DEF Due
      <3>3. SumOf(acc \o sup, e) \in Nat
        <4>1. acc \o sup \in Seq(Entry)
          BY <1>2 DEF Types
        <4> QED
          BY <4>1, SumType
      <3> QED
        BY <3>1, <3>2, <3>3
    <2>3. ASSUME NEW e \in Docs, anding' => e \in DocsIn(acc')
          PROVE  SumOf(acc' \o sup', e) + Due(dec, e)' = total'[e]
      <3>1. SumOf(acc' \o sup', e) = total'[e] /\ total'[e] \in Nat
        BY <1>1, <2>2, <2>3
      <3> QED
        BY <2>1, <3>1
    <2> QED
      BY <2>3 DEF Summed
  <1> QED
    BY <1>1, <1>4, <1>5, <1>6, <1>7, <1>9 DEF IInv

\* The hash table is sorted at the end.
LEMMA EndTermsKeeps ==
  ASSUME IInv, EndTerms
  PROVE  IInv'
  <1>1. /\ stage = "term" /\ term > 0 /\ stage' = "added"
        /\ acc' = (IF query.method = "H" /\ ~sorted THEN Ordered ELSE acc)
        /\ sup' = (IF query.method = "H" /\ ~sorted THEN <<>> ELSE sup)
        /\ sorted' = (sorted \/ query.method = "H")
        /\ UNCHANGED <<query, room, anding, term, post, dec, next, abort, total, had>>
    BY DEF EndTerms
  <1>2. Types /\ Tables /\ Rooms /\ Limit /\ Summed(dec)
    BY DEF IInv
  <1>3. acc \in Seq(Entry) /\ sup \in Seq(Entry) /\ (anding <=> sorted) /\ sorted \in BOOLEAN
    BY <1>1, <1>2 DEF Types, Tables
  <1>4. CASE ~(query.method = "H" /\ ~sorted)
    <2>1. UNCHANGED <<acc, sup>> /\ (sorted' <=> sorted)
      BY <1>1, <1>3, <1>4
    <2>2. Types'
      BY <1>1, <1>2, <2>1 DEF Types
    <2>3. Tables'
      BY <1>1, <1>2, <2>1 DEF Tables
    <2>4. Rooms'
      BY <1>1, <1>2, <2>1 DEF Rooms
    <2>5. Limit'
      BY <1>1, <1>2, <2>1 DEF Limit, Limited
    <2>6. Summed(dec)'
      BY <1>1, <1>2, <2>1 DEF Summed, Due, Left, p
    <2> QED
      BY <1>1, <2>2, <2>3, <2>4, <2>5, <2>6 DEF IInv
  <1>5. CASE query.method = "H" /\ ~sorted
    <2>1. TableSorted /\ ~anding
      BY <1>1, <1>3, <1>5 DEF TableSorted
    <2>2. /\ acc' \in Seq(Entry) /\ sup' \in Seq(Entry) /\ sup' = <<>>
          /\ \A e : SumOf(acc' \o sup', e) = SumOf(acc \o sup, e)
          /\ DocOrder(acc') /\ OneEach(acc' \o sup')
          /\ Len(acc') <= Len(acc) + Len(sup) /\ Len(acc') \in Nat
      BY <1>1, <1>5, <2>1, TableMoved
    <2>3. Types'
      <3>1. post = <<>> /\ dec.i = 0
        BY <1>1, <1>2 DEF Types
      <3>2. next' \in 1 .. Len(acc') + 1
        <4>1. next = 1
          BY <1>1, <1>2 DEF Types
        <4> QED
          BY <1>1, <2>2, <4>1
      <3> QED
        BY <1>1, <1>2, <1>3, <2>2, <3>1, <3>2 DEF Types
    <2>4. Tables'
      BY <1>1, <1>2, <1>5, <2>1, <2>2 DEF Tables
    <2>5. Rooms'
      <3>1. PICK la \in Nat, ls \in Nat, ra \in Nat, rs \in Nat :
             la = Len(acc) /\ ls = Len(sup) /\ ra = room.acc /\ rs = room.sup
        BY <1>2, <1>3 DEF Types
      <3>2. la <= ra /\ ls <= rs
        BY <1>2, <1>5, <3>1 DEF Rooms
      <3>3. PICK m \in Nat : m = Len(acc') /\ m <= la + ls
        BY <2>2, <3>1
      <3>4. m <= ra + rs
        BY <3>2, <3>3
      <3> QED
        BY <1>1, <1>5, <3>1, <3>3, <3>4 DEF Rooms
    <2>6. Limit'
      BY <1>1, <1>2, <2>1 DEF Limit, Limited
    <2>7. Summed(dec)'
      <3>1. \A e \in Docs : SumOf(acc \o sup, e) + Due(dec, e) = total[e]
        BY <1>2, <2>1 DEF Summed
      <3>2. \A e : Due(dec, e)' = Due(dec, e)
        BY <1>1 DEF Due, Left, p
      <3> QED
        BY <1>1, <2>2, <3>1, <3>2 DEF Summed
    <2> QED
      BY <1>1, <2>3, <2>4, <2>5, <2>6, <2>7 DEF IInv
  <1> QED
    BY <1>4, <1>5

\* Before the first term.
LEMMA Initially == Init => IInv
  <1> SUFFICES ASSUME Init PROVE IInv
    OBVIOUS
  <1>1. /\ query \in [method : Methods, limit : Limits, stop : BOOLEAN, k : Skips]
        /\ sup = <<>> /\ anding = FALSE /\ sorted = FALSE /\ term = 0 /\ post = <<>> /\ dec = Opened(0)
        /\ next = 1 /\ stage = "term" /\ abort = FALSE /\ total = [d \in Docs |-> 0] /\ had = 0
        /\ acc = IF query.method = "A" THEN [x \in 1 .. NumDocs |-> [doc |-> x - 1, sum |-> 0]] ELSE <<>>
        /\ room = [acc |-> IF query.method = "A" THEN NumDocs ELSE query.limit, sup |-> 0]
    BY DEF Init
  <1>2. query.limit \in Nat /\ query.limit >= 2 /\ NumDocs \in Nat
    <2>1. query.limit \in Limits
      BY <1>1
    <2>2. \A n \in Nat \ {0, 1} : n \in Nat /\ n >= 2
      OBVIOUS
    <2> QED
      BY <2>1, <2>2, AccumulatorsAssumption
  <1>3. acc \in Seq(Entry) /\ DocOrder(acc) /\ (\A x \in DOMAIN acc : acc[x].sum = 0)
        /\ (query.method = "A" => DocsIn(acc) = Docs)
    <2>1. CASE query.method = "A"
      <3>1. acc = [x \in 1 .. NumDocs |-> [doc |-> x - 1, sum |-> 0]]
        BY <1>1, <2>1
      <3>2. \A x \in 1 .. NumDocs : x - 1 \in Docs /\ [doc |-> x - 1, sum |-> 0] \in Entry
        BY <1>2 DEF Docs, Entry
      <3>3. acc \in Seq(Entry)
        BY <1>2, <3>1, <3>2
      <3>4. DOMAIN acc = 1 .. NumDocs /\ \A x \in 1 .. NumDocs : acc[x].doc = x - 1 /\ acc[x].sum = 0
        BY <3>1
      <3>5. DocOrder(acc)
        BY <1>2, <3>4 DEF DocOrder
      <3>6. DocsIn(acc) = Docs
        <4>1. ASSUME NEW d \in Docs PROVE d \in DocsIn(acc)
          <5>1. PICK x \in 1 .. NumDocs : x - 1 = d
            <6>1. d \in 0 .. NumDocs - 1
              BY DEF Docs
            <6>2. PICK x \in 1 .. NumDocs : x = d + 1
              BY <1>2, <6>1
            <6>3. x - 1 = d
              BY <6>1, <6>2
            <6> QED
              BY <6>3
          <5>2. x \in DOMAIN acc /\ acc[x].doc = d
            BY <3>4, <5>1
          <5> QED
            BY <5>2 DEF DocsIn
        <4>2. DocsIn(acc) \subseteq Docs
          BY <3>2, <3>4 DEF DocsIn
        <4> QED
          BY <4>1, <4>2
      <3> QED
        BY <3>3, <3>4, <3>5, <3>6
    <2>2. CASE query.method # "A"
      <3>1. acc = <<>> /\ acc \in Seq(Entry)
        BY <1>1, <2>2, EmptySeq
      <3>2. DOMAIN acc = {}
        BY <3>1
      <3> QED
        BY <2>2, <3>1, <3>2 DEF DocOrder
    <2> QED
      BY <2>1, <2>2
  <1>4. sup \in Seq(Entry) /\ acc \o sup = acc /\ Len(acc) \in Nat
    <2>1. sup \in Seq(Entry)
      BY <1>1, EmptySeq
    <2>2. acc \o sup = acc
      BY <1>1, <1>3, <2>1, ConcatFacts
    <2>3. Len(acc) \in Nat
      BY <1>3
    <2> QED
      BY <2>1, <2>2, <2>3
  <1>5. Types
    <2>1. post \in Seq(1 .. NumDocs) /\ Increasing(post)
      <3>1. post \in Seq(1 .. NumDocs)
        BY <1>1, EmptySeq
      <3>2. DOMAIN post = {}
        BY <1>1
      <3> QED
        BY <3>1, <3>2 DEF Increasing
    <2>2. dec \in [i : Nat, kd : Int, next_i : Nat, next_doc_num : Int, cur : Nat] /\ dec.i = 0
      BY <1>1 DEF Opened
    <2>3. next \in 1 .. Len(acc) + 1
      <3>1. \A n \in Nat : 1 \in 1 .. n + 1
        OBVIOUS
      <3> QED
        BY <1>1, <1>4, <3>1
    <2>4. term \in 0 .. Len(TermWeights)
      <3>1. Len(TermWeights) \in Nat
        BY AccumulatorsAssumption
      <3> QED
        BY <1>1, <3>1
    <2>5. room \in [acc : Nat, sup : Nat]
      BY <1>1, <1>2
    <2>6. total \in [Docs -> Nat]
      BY <1>1
    <2> QED
      BY <1>1, <1>3, <1>4, <2>1, <2>2, <2>3, <2>4, <2>5, <2>6 DEF Types
  <1>6. OneEach(acc)
    BY <1>3, OrderOneEach
  <1>7. Tables
    BY <1>1, <1>3, <1>4, <1>6 DEF Tables
  <1>8. Rooms
    <2>1. query.method # "A" => Len(acc) = 0 /\ room.acc = query.limit
      BY <1>1
    <2>2. Len(sup) = 0 /\ room.sup = 0 /\ stage # "post"
      BY <1>1
    <2> QED
      BY <1>1, <1>2, <2>1, <2>2 DEF Rooms
  <1>9. Limit
    BY <1>1 DEF Limit
  <1>10. Summed(dec)
    <2> SUFFICES ASSUME NEW d \in Docs PROVE SumOf(acc \o sup, d) + Due(dec, d) = total[d]
      BY DEF Summed
    <2>1. Due(dec, d) = 0 /\ total[d] = 0
      BY <1>1, <1>5, NothingLeft
    <2>2. SumOf(acc, d) = 0
      <3>1. CASE d \in DocsIn(acc)
        <4>1. PICK x \in DOMAIN acc : acc[x].doc = d
          BY <3>1 DEF DocsIn
        <4> QED
          BY <1>3, <1>6, <4>1, SumOne
      <3>2. CASE d \notin DocsIn(acc)
        BY <3>2, SumAbsent
      <3> QED
        BY <3>1, <3>2
    <2> QED
      BY <1>4, <2>1, <2>2
  <1> QED
    BY <1>1, <1>5, <1>7, <1>8, <1>9, <1>10 DEF IInv

----------------------------------------------------------------------------
(* The theorems.                                                           *)

\* The invariant is inductive.
LEMMA StepKeeps == IInv /\ [Next]_vars => IInv'
  <1> SUFFICES ASSUME IInv, [Next]_vars PROVE IInv'
    OBVIOUS
  <1>1. ASSUME NEW docs \in Entries, BeginTerm(docs) PROVE IInv'
    BY <1>1, BeginTermKeeps
  <1>2. CASE Posting
    BY <1>2, PostingKeeps
  <1>3. CASE EndTerm
    BY <1>3, EndTermKeeps
  <1>4. CASE EndTerms
    BY <1>4, EndTermsKeeps
  <1>5. CASE UNCHANGED vars
    <2>1. UNCHANGED <<query, acc, sup, room, anding, sorted, term, post, dec, next, stage, abort, total, had>>
      BY <1>5 DEF vars
    <2>2. Types'
      BY <2>1 DEF IInv, Types
    <2>3. Tables'
      BY <2>1 DEF IInv, Tables
    <2>4. Rooms'
      BY <2>1 DEF IInv, Rooms, p
    <2>5. Limit'
      BY <2>1 DEF IInv, Limit, Limited
    <2>6. stage' = "post" => Decodes(dec)' /\ Swept(dec)'
      BY <2>1 DEF IInv, Decodes, Stands, Fresh, Known, Hopping, Behind, Swept, p
    <2>7. Summed(dec)'
      BY <2>1 DEF IInv, Summed, Due, Left, p
    <2> QED
      BY <2>2, <2>3, <2>4, <2>5, <2>6, <2>7 DEF IInv
  <1> QED
    BY <1>1, <1>2, <1>3, <1>4, <1>5 DEF Next

\* The invariant holds in every run of Accumulators.
THEOREM Accumulating == Spec => []IInv
  <1> QED
    BY Initially, StepKeeps, PTL DEF Spec

\* A query runs the accumulators: what holds of them always, holds in it.
THEOREM QueryAccumulates == SpecQuery => Spec
  <1>1. InitQuery => Init
    BY DEF InitQuery
  <1>2. [NextQuery]_allvars => [Next]_vars
    BY DEF NextQuery, allvars, Accumulate, Select
  <1> QED
    BY <1>1, <1>2, PTL DEF SpecQuery, Spec

\* The parts of the invariant the properties are about.
LEMMA SumsHold == IInv => SumsExact /\ AllAccumulated
  <1> SUFFICES ASSUME IInv, stage \in {"term", "added"} PROVE SumsExact /\ AllAccumulated
    BY DEF SumsExact, AllAccumulated
  <1>1. Types /\ Tables /\ Summed(dec)
    BY DEF IInv
  <1>2. PICK s \in Seq(Entry) : s = acc \o sup
    BY <1>1, ConcatFacts DEF Types
  <1>3. ASSUME NEW d \in Docs, anding => d \in DocsIn(acc)
        PROVE  SumOf(s, d) = total[d] /\ total[d] \in Nat
    <2>1. SumOf(s, d) + 0 = total[d]
      <3>1. Due(dec, d) = 0
        BY <1>1, NothingLeft
      <3> QED
        BY <1>1, <1>2, <1>3, <3>1 DEF Summed
    <2>2. SumOf(s, d) \in Nat
      BY SumType
    <2> QED
      BY <2>1, <2>2
  <1>4. SumsExact
    <2> SUFFICES ASSUME NEW d \in Docs, d \in DocsIn(acc \o sup) PROVE Kept(d) = total[d]
      BY DEF SumsExact
    <2>1. anding => d \in DocsIn(acc)
      <3>1. anding => sup = <<>>
        BY <1>1 DEF Tables
      <3>2. anding => acc \o sup = acc
        BY <1>1, <3>1, ConcatFacts DEF Types
      <3> QED
        BY <3>2
    <2> QED
      BY <1>2, <1>3, <2>1 DEF Kept
  <1>5. AllAccumulated
    <2> SUFFICES ASSUME ~anding, NEW d \in Docs, total[d] > 0, d \notin DocsIn(acc \o sup) PROVE FALSE
      BY DEF AllAccumulated
    <2>1. SumOf(s, d) = total[d]
      BY <1>3
    <2>2. SumOf(s, d) = 0
      BY <1>2, SumAbsent
    <2> QED
      BY <2>1, <2>2
  <1> QED
    BY <1>4, <1>5

\* What follows of tables.
LEMMA TablesHold == IInv => TypeOK /\ RoomEnough /\ LimitKept
  <1> SUFFICES ASSUME IInv PROVE TypeOK /\ RoomEnough /\ LimitKept
    OBVIOUS
  <1>1. Types /\ Tables /\ Rooms /\ Limit /\ (stage = "post" => Decodes(dec))
    BY DEF IInv
  <1>2. acc \in Seq(Entry) /\ sup \in Seq(Entry) /\ Len(acc) \in Nat /\ Len(sup) \in Nat
        /\ room.acc \in Nat /\ room.sup \in Nat /\ query.limit \in Nat
    BY <1>1, RoomFacts DEF Types
  <1>3. TypeOK
    <2>1. dec.i \in 0 .. p
      <3>1. CASE stage = "post"
        BY <1>1, <3>1 DEF Decodes, Stands
      <3>2. CASE stage # "post"
        <4>1. dec.i = 0 /\ p = 0
          BY <1>1, <3>2, NothingLeft
        <4> QED
          BY <4>1
      <3> QED
        BY <3>1, <3>2
    <2>2. (\A x \in DOMAIN acc : acc[x] \in Entry) /\ (\A x \in DOMAIN sup : sup[x] \in Entry)
      BY <1>2, EntryFacts
    <2> QED
      BY <1>1, <2>1, <2>2 DEF TypeOK, Types
  <1>4. RoomEnough
    <2>1. sup = <<>> => Len(sup) = 0
      OBVIOUS
    <2>2. CASE query.method = "H" /\ ~sorted
      BY <1>1, <2>2 DEF RoomEnough, Rooms
    <2>3. CASE query.method = "H" /\ sorted
      BY <1>1, <1>2, <2>1, <2>3 DEF RoomEnough, Rooms, Tables
    <2>4. CASE query.method = "L"
      <3>1. Len(sup) = 0 /\ Len(acc) <= room.acc
        BY <1>1, <2>1, <2>4 DEF Rooms, Tables
      <3>2. Len(acc) <= room.acc + room.sup /\ Len(sup) <= room.sup
        BY <1>2, <3>1
      <3> QED
        BY <3>2 DEF RoomEnough
    <2>5. CASE query.method \notin {"H", "L"}
      BY <2>5 DEF RoomEnough
    <2> QED
      BY <1>1, <2>2, <2>3, <2>4, <2>5 DEF Types
  <1>5. LimitKept
    <2> SUFFICES ASSUME Limited, term > 0, had >= query.limit
                 PROVE  Cardinality(DocsIn(acc \o sup)) = had
      BY DEF LimitKept
    <2>1. had \in Nat
      BY <1>1 DEF Types
    <2>2. ~(had < query.limit)
      BY <1>2, <2>1
    <2> QED
      BY <1>1, <2>2 DEF Limit
  <1> QED
    BY <1>3, <1>4, <1>5

\* State stays in its types: entries are of documents, the decoder stays in the entry.
THEOREM AccumulatorTypes == SpecQuery => []TypeOK
  <1> QED
    BY QueryAccumulates, Accumulating, TablesHold, PTL

\* Between terms, and wherever the limit struck, a document with an accumulator
\* (or, in the list, several) has all the terms were worth to it: CosineDecode and its
\* variants lose no posting and add none twice, skips or not.
THEOREM SumsAlwaysExact == SpecQuery => []SumsExact
  <1> QED
    BY QueryAccumulates, Accumulating, SumsHold, PTL

\* As long as the limit has not been reached no document of a term is missing.
THEOREM AlwaysAllAccumulated == SpecQuery => []AllAccumulated
  <1> QED
    BY QueryAccumulates, Accumulating, SumsHold, PTL

\* The list and the hash table with its supplement are never written beyond their end.
THEOREM RoomAlwaysEnough == SpecQuery => []RoomEnough
  <1> QED
    BY QueryAccumulates, Accumulating, TablesHold, PTL

\* A term begun at the limit gives no document an accumulator and takes none away.
THEOREM LimitAlwaysKept == SpecQuery => []LimitKept
  <1> QED
    BY QueryAccumulates, Accumulating, TablesHold, PTL

----------------------------------------------------------------------------
(* The heap of CosineGet.                                                  *)

HeapItem == [w : Nat, doc : Nat, org : Nat]

\* What both comparisons compare: the head has the least key.
Key(hc, e) == IF hc = "lesser" THEN e.w ELSE 0 - e.w

\* The children of entry i.
Child(i, c) == c = 2 * i \/ c = 2 * i + 1

\* From entry k on, every entry is above its children, or equal.
HeapFrom(h, k, hc) ==
  \A i \in k .. Len(h), c \in 1 .. Len(h) : Child(i, c) => Key(hc, h[i]) <= Key(hc, h[c])

\* The same but for entry at, which sinks: its parent is above its children.
Sinking(h, at, k, hc) ==
  /\ at \in k .. Len(h)
  /\ \A i \in k .. Len(h), c \in 1 .. Len(h) :
       Child(i, c) /\ i # at => Key(hc, h[i]) <= Key(hc, h[c])
  /\ \A i \in k .. Len(h), c \in 1 .. Len(h) :
       Child(i, at) /\ Child(at, c) => Key(hc, h[i]) <= Key(hc, h[c])

Items(h) == {h[i] : i \in 1 .. Len(h)}

\* No accumulator is in the heap twice.
OnceEach(h) == \A i, j \in 1 .. Len(h) : i # j => h[i].org # h[j].org

\* The same entries in another order.
Reordered(h, g) ==
  g \in Seq(HeapItem) /\ Len(g) = Len(h) /\ Items(g) = Items(h) /\ (OnceEach(h) => OnceEach(g))

\* Keys are integers, and the comparisons compare them.
LEMMA KeyFacts ==
  ASSUME NEW hc, NEW h \in Seq(HeapItem)
  PROVE  /\ Len(h) \in Nat /\ DOMAIN h = 1 .. Len(h)
         /\ \A i \in 1 .. Len(h) : h[i] \in HeapItem /\ Key(hc, h[i]) \in Int
         /\ \A i, j \in 1 .. Len(h) : Above(hc, h[i], h[j]) <=> Key(hc, h[i]) < Key(hc, h[j])
  <1>1. Len(h) \in Nat /\ DOMAIN h = 1 .. Len(h)
    BY LenProperties
  <1>2. \A i \in 1 .. Len(h) : h[i] \in HeapItem
    BY ElementOfSeq
  <1>3. \A i \in 1 .. Len(h) : h[i].w \in Nat
    BY <1>2 DEF HeapItem
  <1>4. \A i \in 1 .. Len(h) : Key(hc, h[i]) \in Int
    BY <1>3 DEF Key
  <1>5. \A i, j \in 1 .. Len(h) : Above(hc, h[i], h[j]) <=> Key(hc, h[i]) < Key(hc, h[j])
    BY <1>3 DEF Key, Above
  <1> QED
    BY <1>1, <1>2, <1>4, <1>5

\* Two entries change places.
LEMMA SwappedIs ==
  ASSUME NEW h \in Seq(HeapItem), NEW i \in 1 .. Len(h), NEW j \in 1 .. Len(h), i # j,
         NEW g, g = Swapped(h, i, j)
  PROVE  /\ Reordered(h, g) /\ g[i] = h[j] /\ g[j] = h[i]
         /\ \A n \in 1 .. Len(h) : n # i /\ n # j => g[n] = h[n]
  <1>1. Len(h) \in Nat /\ DOMAIN h = 1 .. Len(h) /\ \A n \in 1 .. Len(h) : h[n] \in HeapItem
    BY KeyFacts
  <1>2. g = [n \in 1 .. Len(h) |-> IF n = j THEN h[i] ELSE IF n = i THEN h[j] ELSE h[n]]
    BY <1>1 DEF Swapped
  <1>3. g[i] = h[j] /\ g[j] = h[i] /\ \A n \in 1 .. Len(h) : n # i /\ n # j => g[n] = h[n]
    BY <1>2
  <1>4. \A n \in 1 .. Len(h) : g[n] \in HeapItem
    BY <1>1, <1>3
  <1>5. g \in Seq(HeapItem) /\ Len(g) = Len(h)
    BY <1>1, <1>2, <1>4
  <1>6. Items(g) = Items(h)
    <2>1. \A n \in 1 .. Len(h) : \E m \in 1 .. Len(h) : g[n] = h[m]
      BY <1>3
    <2>2. \A n \in 1 .. Len(h) : \E m \in 1 .. Len(h) : h[n] = g[m]
      BY <1>3
    <2>3. \A e : e \in Items(g) <=> \E n \in 1 .. Len(h) : e = g[n]
      BY <1>5 DEF Items
    <2>4. \A e : e \in Items(h) <=> \E n \in 1 .. Len(h) : e = h[n]
      BY DEF Items
    <2>5. ASSUME NEW e \in Items(g) PROVE e \in Items(h)
      <3>1. PICK n \in 1 .. Len(h) : e = g[n]
        BY <2>3
      <3>2. PICK m \in 1 .. Len(h) : g[n] = h[m]
        BY <2>1
      <3> QED
        BY <2>4, <3>1, <3>2
    <2>6. ASSUME NEW e \in Items(h) PROVE e \in Items(g)
      <3>1. PICK n \in 1 .. Len(h) : e = h[n]
        BY <2>4
      <3>2. PICK m \in 1 .. Len(h) : h[n] = g[m]
        BY <2>2
      <3> QED
        BY <2>3, <3>1, <3>2
    <2> QED
      BY <2>5, <2>6
  <1>7. OnceEach(h) => OnceEach(g)
    <2> SUFFICES ASSUME OnceEach(h), NEW m \in 1 .. Len(h), NEW n \in 1 .. Len(h), m # n
                 PROVE  g[m].org # g[n].org
      BY <1>5 DEF OnceEach
    <2> DEFINE To(x) == IF x = i THEN j ELSE IF x = j THEN i ELSE x
    <2>1. \A x \in 1 .. Len(h) : To(x) \in 1 .. Len(h) /\ g[x] = h[To(x)]
      BY <1>3
    <2>2. To(m) # To(n)
      OBVIOUS
    <2> QED
      BY <2>1, <2>2 DEF OnceEach
  <1> QED
    BY <1>3, <1>5, <1>6, <1>7 DEF Reordered

\* Reordering twice is reordering.
LEMMA ReorderedTwice ==
  ASSUME NEW h, NEW g, NEW f, Reordered(h, g), Reordered(g, f)
  PROVE  Reordered(h, f)
  BY DEF Reordered

\* Where entry at stands after a step of Heapify.
SunkTo(s, t, k, hc) ==
  /\ Reordered(s.h, t.h)
  /\ \/ t = s /\ HeapFrom(s.h, k, hc)
     \/ t.at > s.at /\ Sinking(t.h, t.at, k, hc)

\* A step of Heapify.
LEMMA SunkIs ==
  ASSUME NEW s, s.h \in Seq(HeapItem), NEW hc, NEW k \in Nat \ {0}, s.at \in k .. Len(s.h),
         Sinking(s.h, s.at, k, hc), NEW t, t = Sunk(s, hc)
  PROVE  SunkTo(s, t, k, hc)
  <1>1. PICK h \in Seq(HeapItem), a \in {s.at} : h = s.h /\ a = s.at
    OBVIOUS
  <1>2. PICK n : n = Len(h)
    OBVIOUS
  <1>3. /\ n \in Nat /\ \A i \in 1 .. n : h[i] \in HeapItem /\ Key(hc, h[i]) \in Int
        /\ \A i, j \in 1 .. n : Above(hc, h[i], h[j]) <=> Key(hc, h[i]) < Key(hc, h[j])
    BY <1>2, KeyFacts
  <1>4. a \in k .. n /\ a \in 1 .. n
    BY <1>1, <1>2, <1>3
  <1>5. PICK left : left = 2 * a
    OBVIOUS
  <1>6. left \in Nat \ {0} /\ a \in Nat \ {0} /\ left > a
    BY <1>4, <1>5
  <1>7. PICK child : child = IF left < n /\ Above(hc, h[left + 1], h[left]) THEN left + 1 ELSE left
    OBVIOUS
  <1>8. child \in {left, left + 1} /\ (left <= n => child \in 1 .. n) /\ child > a
    BY <1>3, <1>6, <1>7
  <1>9. t = IF left > n \/ ~Above(hc, h[child], h[a]) THEN s ELSE [h |-> Swapped(h, a, child), at |-> child]
    BY <1>1, <1>2, <1>5, <1>7 DEF Sunk
  <1>10. /\ \A i \in k .. n, c \in 1 .. n : Child(i, c) /\ i # a => Key(hc, h[i]) <= Key(hc, h[c])
         /\ \A i \in k .. n, c \in 1 .. n : Child(i, a) /\ Child(a, c) => Key(hc, h[i]) <= Key(hc, h[c])
    BY <1>1, <1>2 DEF Sinking
  <1>11. \A c \in 1 .. n : Child(a, c) => c \in {left, left + 1} /\ Key(hc, h[child]) <= Key(hc, h[c])
    <2> SUFFICES ASSUME NEW c \in 1 .. n, Child(a, c)
                 PROVE  c \in {left, left + 1} /\ Key(hc, h[child]) <= Key(hc, h[c])
      OBVIOUS
    <2>1. c \in {left, left + 1}
      BY <1>5 DEF Child
    <2>2. left \in 1 .. n /\ left <= n
      BY <1>3, <1>6, <2>1
    <2>3. c = left \/ (c = left + 1 /\ left < n /\ left + 1 \in 1 .. n)
      BY <1>3, <1>6, <2>1
    <2>4. CASE left < n /\ Above(hc, h[left + 1], h[left])
      <3>1. child = left + 1 /\ child \in 1 .. n
        BY <1>3, <1>6, <1>7, <2>4
      <3>2. Key(hc, h[left + 1]) < Key(hc, h[left])
        BY <1>3, <2>2, <2>4, <3>1
      <3> QED
        BY <1>3, <2>1, <2>2, <2>3, <3>1, <3>2
    <2>5. CASE ~(left < n /\ Above(hc, h[left + 1], h[left]))
      <3>1. child = left
        BY <1>7, <2>5
      <3>2. c = left + 1 => ~(Key(hc, h[left + 1]) < Key(hc, h[left]))
        BY <1>3, <2>2, <2>3, <2>5
      <3> QED
        BY <1>3, <2>1, <2>2, <2>3, <3>1, <3>2
    <2> QED
      BY <2>4, <2>5
  <1>12. CASE left > n \/ ~Above(hc, h[child], h[a])
    <2>1. t = s
      BY <1>9, <1>12
    <2>2. HeapFrom(h, k, hc)
      <3> SUFFICES ASSUME NEW i \in k .. n, NEW c \in 1 .. n, Child(i, c)
                   PROVE  Key(hc, h[i]) <= Key(hc, h[c])
        BY <1>2 DEF HeapFrom
      <3>1. CASE i # a
        BY <1>10, <3>1
      <3>2. CASE i = a
        <4>1. c \in {left, left + 1} /\ Key(hc, h[child]) <= Key(hc, h[c])
          BY <1>11, <3>2
        <4>2. left <= n /\ child \in 1 .. n
          BY <1>3, <1>6, <1>8, <4>1
        <4>3. ~(Key(hc, h[child]) < Key(hc, h[a]))
          BY <1>3, <1>4, <1>6, <1>12, <4>2
        <4> QED
          BY <1>3, <1>4, <3>2, <4>1, <4>2, <4>3
      <3> QED
        BY <3>1, <3>2
    <2>3. Reordered(h, h)
      BY DEF Reordered
    <2> QED
      BY <1>1, <2>1, <2>2, <2>3 DEF SunkTo
  <1>13. CASE ~(left > n \/ ~Above(hc, h[child], h[a]))
    <2>1. child \in 1 .. n /\ child # a /\ Key(hc, h[child]) < Key(hc, h[a])
      BY <1>3, <1>4, <1>6, <1>8, <1>13
    <2>2. PICK g : g = Swapped(h, a, child)
      OBVIOUS
    <2>3. /\ Reordered(h, g) /\ g[a] = h[child] /\ g[child] = h[a]
          /\ \A x \in 1 .. n : x # a /\ x # child => g[x] = h[x]
      BY <1>2, <1>4, <2>1, <2>2, SwappedIs
    <2>4. t.h = g /\ t.at = child /\ t.at > s.at
      BY <1>1, <1>8, <1>9, <1>13, <2>2
    <2>5. Len(g) = n /\ child \in k .. n /\ Child(a, child)
      BY <1>2, <1>3, <1>4, <1>5, <1>8, <2>1, <2>3 DEF Reordered, Child
    <2>6. ASSUME NEW i \in k .. n, NEW c \in 1 .. n, Child(i, c), i # child
          PROVE  Key(hc, g[i]) <= Key(hc, g[c])
      <3>1. i \in 1 .. n
        BY <1>3
      <3>2. CASE i = a
        <4>1. Key(hc, h[child]) <= Key(hc, h[c])
          BY <1>11, <2>6, <3>2
        <4>2. CASE c = child
          BY <1>3, <1>4, <2>1, <2>3, <3>2, <4>2
        <4>3. CASE c # child
          <5>1. c # a
            BY <1>4, <2>6, <3>2 DEF Child
          <5> QED
            BY <2>3, <3>2, <4>1, <4>3, <5>1
        <4> QED
          BY <4>2, <4>3
      <3>3. CASE i # a /\ c = a
        <4>1. Key(hc, h[i]) <= Key(hc, h[child])
          BY <1>10, <2>1, <2>5, <2>6, <3>3
        <4> QED
          BY <2>3, <2>6, <3>1, <3>3, <4>1
      <3>4. CASE i # a /\ c # a
        <4>1. c # child
          <5> SUFFICES ASSUME c = child PROVE FALSE
            OBVIOUS
          <5>1. Child(i, child) /\ Child(a, child) /\ i \in Nat /\ a \in Nat
            BY <1>3, <1>4, <2>5, <2>6, <3>1
          <5> QED
            BY <3>4, <5>1 DEF Child
        <4>2. Key(hc, h[i]) <= Key(hc, h[c])
          BY <1>10, <2>6, <3>4
        <4> QED
          BY <2>3, <2>6, <3>1, <3>4, <4>1, <4>2
      <3> QED
        BY <3>2, <3>3, <3>4
    <2>7. ASSUME NEW i \in k .. n, NEW c \in 1 .. n, Child(i, child), Child(child, c)
          PROVE  Key(hc, g[i]) <= Key(hc, g[c])
      <3>1. i = a
        <4>1. i \in Nat /\ a \in Nat
          BY <1>3, <1>4
        <4> QED
          BY <2>5, <2>7, <4>1 DEF Child
      <3>2. c # a /\ c # child
        BY <1>4, <1>8, <2>1, <2>7 DEF Child
      <3>3. Key(hc, h[child]) <= Key(hc, h[c])
        BY <1>10, <2>1, <2>5, <2>7
      <3> QED
        BY <2>3, <3>1, <3>2, <3>3
    <2>8. Sinking(g, child, k, hc)
      BY <2>5, <2>6, <2>7 DEF Sinking
    <2> QED
      BY <1>1, <2>3, <2>4, <2>8 DEF SunkTo
  <1> QED
    BY <1>12, <1>13

----------------------------------------------------------------------------
(* The loops over the heap, step by step.                                  *)

SinkStep(f, h, i, hc, j) ==
  IF j = 0 THEN [h |-> h, at |-> i] ELSE Sunk(f[j - 1], hc)
Sinks(f, h, i, hc, n) == f = [j \in 0 .. n |-> SinkStep(f, h, i, hc, j)]

\* Heapify: there is one of any length.
LEMMA SinksExist ==
  ASSUME NEW h, NEW i, NEW hc, NEW n \in Nat
  PROVE  \E f : Sinks(f, h, i, hc, n)
  <1> DEFINE G == {m0 \in Nat : \E f : Sinks(f, h, i, hc, m0)}
  <1>1. 0 \in G
    <2>1. PICK f : f = [j \in 0 .. 0 |-> SinkStep(<<>>, h, i, hc, j)]
      OBVIOUS
    <2>2. \A j \in 0 .. 0 : SinkStep(<<>>, h, i, hc, j) = SinkStep(f, h, i, hc, j)
      <3> TAKE j \in 0 .. 0
      <3>1. j = 0
        OBVIOUS
      <3> QED
        BY ONLY <3>1, Zenon DEF SinkStep
    <2>3. [j \in 0 .. 0 |-> SinkStep(<<>>, h, i, hc, j)] = [j \in 0 .. 0 |-> SinkStep(f, h, i, hc, j)]
      BY <2>2, Zenon
    <2>4. Sinks(f, h, i, hc, 0)
      BY ONLY <2>1, <2>3, Zenon DEF Sinks
    <2> QED
      BY <2>4
  <1>2. ASSUME NEW m0 \in Nat, m0 \in G PROVE m0 + 1 \in G
    <2>1. PICK q : q = m0 /\ q \in Nat
      OBVIOUS
    <2>2. PICK f : Sinks(f, h, i, hc, q)
      BY <1>2, <2>1
    <2>3. PICK k : k = q + 1 /\ k = m0 + 1
      BY <2>1
    <2>4. PICK g : g = [j \in 0 .. k |-> SinkStep(f, h, i, hc, j)]
      OBVIOUS
    <2>5. ASSUME NEW j \in 0 .. k PROVE SinkStep(f, h, i, hc, j) = SinkStep(g, h, i, hc, j)
      <3>1. CASE j = 0
        BY ONLY <3>1, Zenon DEF SinkStep
      <3>2. CASE j # 0
        <4>1. PICK x : x = j - 1
          OBVIOUS
        <4>2. x \in 0 .. q /\ x \in 0 .. k
          BY <2>1, <2>3, <3>2, <4>1
        <4>3. g[x] = SinkStep(f, h, i, hc, x)
          BY <2>4, <4>2, Zenon
        <4>4. f[x] = SinkStep(f, h, i, hc, x)
          <5>1. f = [y \in 0 .. q |-> SinkStep(f, h, i, hc, y)]
            BY ONLY <2>2, Zenon DEF Sinks
          <5>2. [y \in 0 .. q |-> SinkStep(f, h, i, hc, y)][x] = SinkStep(f, h, i, hc, x)
            BY <4>2, Zenon
          <5> QED
            BY ONLY <5>1, <5>2, Zenon
        <4>5. f[j - 1] = g[j - 1]
          BY ONLY <4>1, <4>3, <4>4, Zenon
        <4> QED
          BY ONLY <4>5, Zenon DEF SinkStep
      <3> QED
        BY <3>1, <3>2
    <2>6. [j \in 0 .. k |-> SinkStep(f, h, i, hc, j)] = [j \in 0 .. k |-> SinkStep(g, h, i, hc, j)]
      BY <2>5, Zenon
    <2>7. Sinks(g, h, i, hc, k)
      BY ONLY <2>4, <2>6, Zenon DEF Sinks
    <2>8. Sinks(g, h, i, hc, m0 + 1)
      BY <2>3, <2>7
    <2> QED
      BY <2>8
  <1>3. Nat \subseteq G
    <2> HIDE DEF G
    <2> QED
      BY <1>1, <1>2, NatInductionOnSet
  <1> QED
    BY <1>3

\* Each of its steps is made of the one before.
LEMMA SinksAre ==
  ASSUME NEW h, NEW i, NEW hc, NEW n \in Nat,
         NEW f, Sinks(f, h, i, hc, n)
  PROVE  \A j \in 0 .. n : f[j] = SinkStep(f, h, i, hc, j)
  <1>2. f = [j \in 0 .. n |-> SinkStep(f, h, i, hc, j)]
    BY Zenon DEF Sinks
  <1>3. ASSUME NEW j \in 0 .. n PROVE f[j] = SinkStep(f, h, i, hc, j)
    <2>1. [y \in 0 .. n |-> SinkStep(f, h, i, hc, y)][j] = SinkStep(f, h, i, hc, j)
      BY Zenon
    <2> QED
      BY ONLY <1>2, <2>1, Zenon
  <1> QED
    BY <1>3

BuildStep(f, h, hc, parents, j) ==
  IF j = 0 THEN h ELSE Heapify(f[j - 1], parents + 1 - j, hc)
Builds(f, h, hc, parents, n) == f = [j \in 0 .. n |-> BuildStep(f, h, hc, parents, j)]

\* Heap_Build: there is one of any length.
LEMMA BuildsExist ==
  ASSUME NEW h, NEW hc, NEW parents, NEW n \in Nat
  PROVE  \E f : Builds(f, h, hc, parents, n)
  <1> DEFINE G == {m0 \in Nat : \E f : Builds(f, h, hc, parents, m0)}
  <1>1. 0 \in G
    <2>1. PICK f : f = [j \in 0 .. 0 |-> BuildStep(<<>>, h, hc, parents, j)]
      OBVIOUS
    <2>2. \A j \in 0 .. 0 : BuildStep(<<>>, h, hc, parents, j) = BuildStep(f, h, hc, parents, j)
      <3> TAKE j \in 0 .. 0
      <3>1. j = 0
        OBVIOUS
      <3> QED
        BY ONLY <3>1, Zenon DEF BuildStep
    <2>3. [j \in 0 .. 0 |-> BuildStep(<<>>, h, hc, parents, j)] = [j \in 0 .. 0 |-> BuildStep(f, h, hc, parents, j)]
      BY <2>2, Zenon
    <2>4. Builds(f, h, hc, parents, 0)
      BY ONLY <2>1, <2>3, Zenon DEF Builds
    <2> QED
      BY <2>4
  <1>2. ASSUME NEW m0 \in Nat, m0 \in G PROVE m0 + 1 \in G
    <2>1. PICK q : q = m0 /\ q \in Nat
      OBVIOUS
    <2>2. PICK f : Builds(f, h, hc, parents, q)
      BY <1>2, <2>1
    <2>3. PICK k : k = q + 1 /\ k = m0 + 1
      BY <2>1
    <2>4. PICK g : g = [j \in 0 .. k |-> BuildStep(f, h, hc, parents, j)]
      OBVIOUS
    <2>5. ASSUME NEW j \in 0 .. k PROVE BuildStep(f, h, hc, parents, j) = BuildStep(g, h, hc, parents, j)
      <3>1. CASE j = 0
        BY ONLY <3>1, Zenon DEF BuildStep
      <3>2. CASE j # 0
        <4>1. PICK x : x = j - 1
          OBVIOUS
        <4>2. x \in 0 .. q /\ x \in 0 .. k
          BY <2>1, <2>3, <3>2, <4>1
        <4>3. g[x] = BuildStep(f, h, hc, parents, x)
          BY <2>4, <4>2, Zenon
        <4>4. f[x] = BuildStep(f, h, hc, parents, x)
          <5>1. f = [y \in 0 .. q |-> BuildStep(f, h, hc, parents, y)]
            BY ONLY <2>2, Zenon DEF Builds
          <5>2. [y \in 0 .. q |-> BuildStep(f, h, hc, parents, y)][x] = BuildStep(f, h, hc, parents, x)
            BY <4>2, Zenon
          <5> QED
            BY ONLY <5>1, <5>2, Zenon
        <4>5. f[j - 1] = g[j - 1]
          BY ONLY <4>1, <4>3, <4>4, Zenon
        <4> QED
          BY ONLY <4>5, Zenon DEF BuildStep
      <3> QED
        BY <3>1, <3>2
    <2>6. [j \in 0 .. k |-> BuildStep(f, h, hc, parents, j)] = [j \in 0 .. k |-> BuildStep(g, h, hc, parents, j)]
      BY <2>5, Zenon
    <2>7. Builds(g, h, hc, parents, k)
      BY ONLY <2>4, <2>6, Zenon DEF Builds
    <2>8. Builds(g, h, hc, parents, m0 + 1)
      BY <2>3, <2>7
    <2> QED
      BY <2>8
  <1>3. Nat \subseteq G
    <2> HIDE DEF G
    <2> QED
      BY <1>1, <1>2, NatInductionOnSet
  <1> QED
    BY <1>3

\* Each of its steps is made of the one before.
LEMMA BuildsAre ==
  ASSUME NEW h, NEW hc, NEW parents, NEW n \in Nat,
         NEW f, Builds(f, h, hc, parents, n)
  PROVE  \A j \in 0 .. n : f[j] = BuildStep(f, h, hc, parents, j)
  <1>2. f = [j \in 0 .. n |-> BuildStep(f, h, hc, parents, j)]
    BY Zenon DEF Builds
  <1>3. ASSUME NEW j \in 0 .. n PROVE f[j] = BuildStep(f, h, hc, parents, j)
    <2>1. [y \in 0 .. n |-> BuildStep(f, h, hc, parents, y)][j] = BuildStep(f, h, hc, parents, j)
      BY Zenon
    <2> QED
      BY ONLY <1>2, <2>1, Zenon
  <1> QED
    BY <1>3

DrainStep(f, h, hc, j) ==
  IF j = 1 THEN h ELSE WithoutHead(f[j - 1], hc)
Drains(f, h, hc, n) == f = [j \in 1 .. n |-> DrainStep(f, h, hc, j)]

\* Emptying the heap: there is one of any length.
LEMMA DrainsExist ==
  ASSUME NEW h, NEW hc, NEW n \in Nat, 1 <= n
  PROVE  \E f : Drains(f, h, hc, n)
  <1> DEFINE G == {m0 \in Nat : \E f : Drains(f, h, hc, 1 + m0)}
  <1>1. 0 \in G
    <2>1. PICK f : f = [j \in 1 .. 1 |-> DrainStep(<<>>, h, hc, j)]
      OBVIOUS
    <2>2. \A j \in 1 .. 1 : DrainStep(<<>>, h, hc, j) = DrainStep(f, h, hc, j)
      <3> TAKE j \in 1 .. 1
      <3>1. j = 1
        OBVIOUS
      <3> QED
        BY ONLY <3>1, Zenon DEF DrainStep
    <2>3. [j \in 1 .. 1 |-> DrainStep(<<>>, h, hc, j)] = [j \in 1 .. 1 |-> DrainStep(f, h, hc, j)]
      BY <2>2, Zenon
    <2>4. Drains(f, h, hc, 1)
      BY ONLY <2>1, <2>3, Zenon DEF Drains
    <2> QED
      BY <2>4
  <1>2. ASSUME NEW m0 \in Nat, m0 \in G PROVE m0 + 1 \in G
    <2>1. PICK q : q = 1 + m0 /\ q \in Nat
      OBVIOUS
    <2>2. PICK f : Drains(f, h, hc, q)
      BY <1>2, <2>1
    <2>3. PICK k : k = q + 1 /\ k = 1 + (m0 + 1)
      BY <2>1
    <2>4. PICK g : g = [j \in 1 .. k |-> DrainStep(f, h, hc, j)]
      OBVIOUS
    <2>5. ASSUME NEW j \in 1 .. k PROVE DrainStep(f, h, hc, j) = DrainStep(g, h, hc, j)
      <3>1. CASE j = 1
        BY ONLY <3>1, Zenon DEF DrainStep
      <3>2. CASE j # 1
        <4>1. PICK x : x = j - 1
          OBVIOUS
        <4>2. x \in 1 .. q /\ x \in 1 .. k
          BY <2>1, <2>3, <3>2, <4>1
        <4>3. g[x] = DrainStep(f, h, hc, x)
          BY <2>4, <4>2, Zenon
        <4>4. f[x] = DrainStep(f, h, hc, x)
          <5>1. f = [y \in 1 .. q |-> DrainStep(f, h, hc, y)]
            BY ONLY <2>2, Zenon DEF Drains
          <5>2. [y \in 1 .. q |-> DrainStep(f, h, hc, y)][x] = DrainStep(f, h, hc, x)
            BY <4>2, Zenon
          <5> QED
            BY ONLY <5>1, <5>2, Zenon
        <4>5. f[j - 1] = g[j - 1]
          BY ONLY <4>1, <4>3, <4>4, Zenon
        <4> QED
          BY ONLY <4>5, Zenon DEF DrainStep
      <3> QED
        BY <3>1, <3>2
    <2>6. [j \in 1 .. k |-> DrainStep(f, h, hc, j)] = [j \in 1 .. k |-> DrainStep(g, h, hc, j)]
      BY <2>5, Zenon
    <2>7. Drains(g, h, hc, k)
      BY ONLY <2>4, <2>6, Zenon DEF Drains
    <2>8. Drains(g, h, hc, 1 + (m0 + 1))
      BY <2>3, <2>7
    <2> QED
      BY <2>8
  <1>3. Nat \subseteq G
    <2> HIDE DEF G
    <2> QED
      BY <1>1, <1>2, NatInductionOnSet
  <1>4. n - 1 \in G
    BY <1>3
  <1>5. n = 1 + (n - 1)
    OBVIOUS
  <1> QED
    BY <1>4, <1>5

\* Each of its steps is made of the one before.
LEMMA DrainsAre ==
  ASSUME NEW h, NEW hc, NEW n \in Nat, 1 <= n,
         NEW f, Drains(f, h, hc, n)
  PROVE  \A j \in 1 .. n : f[j] = DrainStep(f, h, hc, j)
  <1>2. f = [j \in 1 .. n |-> DrainStep(f, h, hc, j)]
    BY Zenon DEF Drains
  <1>3. ASSUME NEW j \in 1 .. n PROVE f[j] = DrainStep(f, h, hc, j)
    <2>1. [y \in 1 .. n |-> DrainStep(f, h, hc, y)][j] = DrainStep(f, h, hc, j)
      BY Zenon
    <2> QED
      BY ONLY <1>2, <2>1, Zenon
  <1> QED
    BY <1>3

OfferStep(f, entries, m, approx, skipZero, j) ==
  IF j = m THEN Filled(entries, m, approx) ELSE Offer(f[j - 1], j, entries[j], approx, skipZero)
Offers(f, entries, m, approx, skipZero, n) == f = [j \in m .. n |-> OfferStep(f, entries, m, approx, skipZero, j)]

\* Offering the accumulators: there is one of any length.
LEMMA OffersExist ==
  ASSUME NEW entries, NEW m \in Nat, NEW approx, NEW skipZero, NEW n \in Nat, m <= n
  PROVE  \E f : Offers(f, entries, m, approx, skipZero, n)
  <1> DEFINE G == {m0 \in Nat : \E f : Offers(f, entries, m, approx, skipZero, m + m0)}
  <1>1. 0 \in G
    <2>1. PICK f : f = [j \in m .. m |-> OfferStep(<<>>, entries, m, approx, skipZero, j)]
      OBVIOUS
    <2>2. \A j \in m .. m : OfferStep(<<>>, entries, m, approx, skipZero, j) = OfferStep(f, entries, m, approx, skipZero, j)
      <3> TAKE j \in m .. m
      <3>1. j = m
        OBVIOUS
      <3> QED
        BY ONLY <3>1, Zenon DEF OfferStep
    <2>3. [j \in m .. m |-> OfferStep(<<>>, entries, m, approx, skipZero, j)] = [j \in m .. m |-> OfferStep(f, entries, m, approx, skipZero, j)]
      BY <2>2, Zenon
    <2>4. Offers(f, entries, m, approx, skipZero, m)
      BY ONLY <2>1, <2>3, Zenon DEF Offers
    <2> QED
      BY <2>4
  <1>2. ASSUME NEW m0 \in Nat, m0 \in G PROVE m0 + 1 \in G
    <2>1. PICK q : q = m + m0 /\ q \in Nat
      OBVIOUS
    <2>2. PICK f : Offers(f, entries, m, approx, skipZero, q)
      BY <1>2, <2>1
    <2>3. PICK k : k = q + 1 /\ k = m + (m0 + 1)
      BY <2>1
    <2>4. PICK g : g = [j \in m .. k |-> OfferStep(f, entries, m, approx, skipZero, j)]
      OBVIOUS
    <2>5. ASSUME NEW j \in m .. k PROVE OfferStep(f, entries, m, approx, skipZero, j) = OfferStep(g, entries, m, approx, skipZero, j)
      <3>1. CASE j = m
        BY ONLY <3>1, Zenon DEF OfferStep
      <3>2. CASE j # m
        <4>1. PICK x : x = j - 1
          OBVIOUS
        <4>2. x \in m .. q /\ x \in m .. k
          BY <2>1, <2>3, <3>2, <4>1
        <4>3. g[x] = OfferStep(f, entries, m, approx, skipZero, x)
          BY <2>4, <4>2, Zenon
        <4>4. f[x] = OfferStep(f, entries, m, approx, skipZero, x)
          <5>1. f = [y \in m .. q |-> OfferStep(f, entries, m, approx, skipZero, y)]
            BY ONLY <2>2, Zenon DEF Offers
          <5>2. [y \in m .. q |-> OfferStep(f, entries, m, approx, skipZero, y)][x] = OfferStep(f, entries, m, approx, skipZero, x)
            BY <4>2, Zenon
          <5> QED
            BY ONLY <5>1, <5>2, Zenon
        <4>5. f[j - 1] = g[j - 1]
          BY ONLY <4>1, <4>3, <4>4, Zenon
        <4> QED
          BY ONLY <4>5, Zenon DEF OfferStep
      <3> QED
        BY <3>1, <3>2
    <2>6. [j \in m .. k |-> OfferStep(f, entries, m, approx, skipZero, j)] = [j \in m .. k |-> OfferStep(g, entries, m, approx, skipZero, j)]
      BY <2>5, Zenon
    <2>7. Offers(g, entries, m, approx, skipZero, k)
      BY ONLY <2>4, <2>6, Zenon DEF Offers
    <2>8. Offers(g, entries, m, approx, skipZero, m + (m0 + 1))
      BY <2>3, <2>7
    <2> QED
      BY <2>8
  <1>3. Nat \subseteq G
    <2> HIDE DEF G
    <2> QED
      BY <1>1, <1>2, NatInductionOnSet
  <1>4. n - m \in G
    BY <1>3
  <1>5. n = m + (n - m)
    OBVIOUS
  <1> QED
    BY <1>4, <1>5

\* Each of its steps is made of the one before.
LEMMA OffersAre ==
  ASSUME NEW entries, NEW m \in Nat, NEW approx, NEW skipZero, NEW n \in Nat, m <= n,
         NEW f, Offers(f, entries, m, approx, skipZero, n)
  PROVE  \A j \in m .. n : f[j] = OfferStep(f, entries, m, approx, skipZero, j)
  <1>2. f = [j \in m .. n |-> OfferStep(f, entries, m, approx, skipZero, j)]
    BY Zenon DEF Offers
  <1>3. ASSUME NEW j \in m .. n PROVE f[j] = OfferStep(f, entries, m, approx, skipZero, j)
    <2>1. [y \in m .. n |-> OfferStep(f, entries, m, approx, skipZero, y)][j] = OfferStep(f, entries, m, approx, skipZero, j)
      BY Zenon
    <2> QED
      BY ONLY <1>2, <2>1, Zenon
  <1> QED
    BY <1>3

TryStep(f, s0, entries, approx, exact, j) ==
  IF j = 0 THEN s0 ELSE Try(f[j - 1], j, entries[j].doc, approx, exact)
Tries(f, s0, entries, approx, exact, n) == f = [j \in 0 .. n |-> TryStep(f, s0, entries, approx, exact, j)]

\* Trying the exact weights: there is one of any length.
LEMMA TriesExist ==
  ASSUME NEW s0, NEW entries, NEW approx, NEW exact, NEW n \in Nat
  PROVE  \E f : Tries(f, s0, entries, approx, exact, n)
  <1> DEFINE G == {m0 \in Nat : \E f : Tries(f, s0, entries, approx, exact, m0)}
  <1>1. 0 \in G
    <2>1. PICK f : f = [j \in 0 .. 0 |-> TryStep(<<>>, s0, entries, approx, exact, j)]
      OBVIOUS
    <2>2. \A j \in 0 .. 0 : TryStep(<<>>, s0, entries, approx, exact, j) = TryStep(f, s0, entries, approx, exact, j)
      <3> TAKE j \in 0 .. 0
      <3>1. j = 0
        OBVIOUS
      <3> QED
        BY ONLY <3>1, Zenon DEF TryStep
    <2>3. [j \in 0 .. 0 |-> TryStep(<<>>, s0, entries, approx, exact, j)] = [j \in 0 .. 0 |-> TryStep(f, s0, entries, approx, exact, j)]
      BY <2>2, Zenon
    <2>4. Tries(f, s0, entries, approx, exact, 0)
      BY ONLY <2>1, <2>3, Zenon DEF Tries
    <2> QED
      BY <2>4
  <1>2. ASSUME NEW m0 \in Nat, m0 \in G PROVE m0 + 1 \in G
    <2>1. PICK q : q = m0 /\ q \in Nat
      OBVIOUS
    <2>2. PICK f : Tries(f, s0, entries, approx, exact, q)
      BY <1>2, <2>1
    <2>3. PICK k : k = q + 1 /\ k = m0 + 1
      BY <2>1
    <2>4. PICK g : g = [j \in 0 .. k |-> TryStep(f, s0, entries, approx, exact, j)]
      OBVIOUS
    <2>5. ASSUME NEW j \in 0 .. k PROVE TryStep(f, s0, entries, approx, exact, j) = TryStep(g, s0, entries, approx, exact, j)
      <3>1. CASE j = 0
        BY ONLY <3>1, Zenon DEF TryStep
      <3>2. CASE j # 0
        <4>1. PICK x : x = j - 1
          OBVIOUS
        <4>2. x \in 0 .. q /\ x \in 0 .. k
          BY <2>1, <2>3, <3>2, <4>1
        <4>3. g[x] = TryStep(f, s0, entries, approx, exact, x)
          BY <2>4, <4>2, Zenon
        <4>4. f[x] = TryStep(f, s0, entries, approx, exact, x)
          <5>1. f = [y \in 0 .. q |-> TryStep(f, s0, entries, approx, exact, y)]
            BY ONLY <2>2, Zenon DEF Tries
          <5>2. [y \in 0 .. q |-> TryStep(f, s0, entries, approx, exact, y)][x] = TryStep(f, s0, entries, approx, exact, x)
            BY <4>2, Zenon
          <5> QED
            BY ONLY <5>1, <5>2, Zenon
        <4>5. f[j - 1] = g[j - 1]
          BY ONLY <4>1, <4>3, <4>4, Zenon
        <4> QED
          BY ONLY <4>5, Zenon DEF TryStep
      <3> QED
        BY <3>1, <3>2
    <2>6. [j \in 0 .. k |-> TryStep(f, s0, entries, approx, exact, j)] = [j \in 0 .. k |-> TryStep(g, s0, entries, approx, exact, j)]
      BY <2>5, Zenon
    <2>7. Tries(g, s0, entries, approx, exact, k)
      BY ONLY <2>4, <2>6, Zenon DEF Tries
    <2>8. Tries(g, s0, entries, approx, exact, m0 + 1)
      BY <2>3, <2>7
    <2> QED
      BY <2>8
  <1>3. Nat \subseteq G
    <2> HIDE DEF G
    <2> QED
      BY <1>1, <1>2, NatInductionOnSet
  <1> QED
    BY <1>3

\* Each of its steps is made of the one before.
LEMMA TriesAre ==
  ASSUME NEW s0, NEW entries, NEW approx, NEW exact, NEW n \in Nat,
         NEW f, Tries(f, s0, entries, approx, exact, n)
  PROVE  \A j \in 0 .. n : f[j] = TryStep(f, s0, entries, approx, exact, j)
  <1>2. f = [j \in 0 .. n |-> TryStep(f, s0, entries, approx, exact, j)]
    BY Zenon DEF Tries
  <1>3. ASSUME NEW j \in 0 .. n PROVE f[j] = TryStep(f, s0, entries, approx, exact, j)
    <2>1. [y \in 0 .. n |-> TryStep(f, s0, entries, approx, exact, y)][j] = TryStep(f, s0, entries, approx, exact, j)
      BY Zenon
    <2> QED
      BY ONLY <1>2, <2>1, Zenon
  <1> QED
    BY <1>3

OutStep(f, ranked, j) ==
  IF j = 0 THEN <<>> ELSE IF \E x \in DOMAIN f[j - 1] : f[j - 1][x].doc = ranked[j].doc THEN f[j - 1]
       ELSE Append(f[j - 1], [doc |-> ranked[j].doc, w |-> ranked[j].w])
Outs(f, ranked, n) == f = [j \in 0 .. n |-> OutStep(f, ranked, j)]

\* Retrieving: there is one of any length.
LEMMA OutsExist ==
  ASSUME NEW ranked, NEW n \in Nat
  PROVE  \E f : Outs(f, ranked, n)
  <1> DEFINE G == {m0 \in Nat : \E f : Outs(f, ranked, m0)}
  <1>1. 0 \in G
    <2>1. PICK f : f = [j \in 0 .. 0 |-> OutStep(<<>>, ranked, j)]
      OBVIOUS
    <2>2. \A j \in 0 .. 0 : OutStep(<<>>, ranked, j) = OutStep(f, ranked, j)
      <3> TAKE j \in 0 .. 0
      <3>1. j = 0
        OBVIOUS
      <3> QED
        BY ONLY <3>1, Zenon DEF OutStep
    <2>3. [j \in 0 .. 0 |-> OutStep(<<>>, ranked, j)] = [j \in 0 .. 0 |-> OutStep(f, ranked, j)]
      BY <2>2, Zenon
    <2>4. Outs(f, ranked, 0)
      BY ONLY <2>1, <2>3, Zenon DEF Outs
    <2> QED
      BY <2>4
  <1>2. ASSUME NEW m0 \in Nat, m0 \in G PROVE m0 + 1 \in G
    <2>1. PICK q : q = m0 /\ q \in Nat
      OBVIOUS
    <2>2. PICK f : Outs(f, ranked, q)
      BY <1>2, <2>1
    <2>3. PICK k : k = q + 1 /\ k = m0 + 1
      BY <2>1
    <2>4. PICK g : g = [j \in 0 .. k |-> OutStep(f, ranked, j)]
      OBVIOUS
    <2>5. ASSUME NEW j \in 0 .. k PROVE OutStep(f, ranked, j) = OutStep(g, ranked, j)
      <3>1. CASE j = 0
        BY ONLY <3>1, Zenon DEF OutStep
      <3>2. CASE j # 0
        <4>1. PICK x : x = j - 1
          OBVIOUS
        <4>2. x \in 0 .. q /\ x \in 0 .. k
          BY <2>1, <2>3, <3>2, <4>1
        <4>3. g[x] = OutStep(f, ranked, x)
          BY <2>4, <4>2, Zenon
        <4>4. f[x] = OutStep(f, ranked, x)
          <5>1. f = [y \in 0 .. q |-> OutStep(f, ranked, y)]
            BY ONLY <2>2, Zenon DEF Outs
          <5>2. [y \in 0 .. q |-> OutStep(f, ranked, y)][x] = OutStep(f, ranked, x)
            BY <4>2, Zenon
          <5> QED
            BY ONLY <5>1, <5>2, Zenon
        <4>5. f[j - 1] = g[j - 1]
          BY ONLY <4>1, <4>3, <4>4, Zenon
        <4> QED
          BY ONLY <4>5, Zenon DEF OutStep
      <3> QED
        BY <3>1, <3>2
    <2>6. [j \in 0 .. k |-> OutStep(f, ranked, j)] = [j \in 0 .. k |-> OutStep(g, ranked, j)]
      BY <2>5, Zenon
    <2>7. Outs(g, ranked, k)
      BY ONLY <2>4, <2>6, Zenon DEF Outs
    <2>8. Outs(g, ranked, m0 + 1)
      BY <2>3, <2>7
    <2> QED
      BY <2>8
  <1>3. Nat \subseteq G
    <2> HIDE DEF G
    <2> QED
      BY <1>1, <1>2, NatInductionOnSet
  <1> QED
    BY <1>3

\* Each of its steps is made of the one before.
LEMMA OutsAre ==
  ASSUME NEW ranked, NEW n \in Nat,
         NEW f, Outs(f, ranked, n)
  PROVE  \A j \in 0 .. n : f[j] = OutStep(f, ranked, j)
  <1>2. f = [j \in 0 .. n |-> OutStep(f, ranked, j)]
    BY Zenon DEF Outs
  <1>3. ASSUME NEW j \in 0 .. n PROVE f[j] = OutStep(f, ranked, j)
    <2>1. [y \in 0 .. n |-> OutStep(f, ranked, y)][j] = OutStep(f, ranked, j)
      BY Zenon
    <2> QED
      BY ONLY <1>2, <2>1, Zenon
  <1> QED
    BY <1>3

\* Their results.
LEMMA LoopsAre ==
  /\ \A h, i, hc : Heapify(h, i, hc) = (CHOOSE f : Sinks(f, h, i, hc, Len(h)))[Len(h)].h
  /\ \A h, hc : Build(h, hc) = (CHOOSE f : Builds(f, h, hc, Len(h) \div 2, Len(h) \div 2))[Len(h) \div 2]
  /\ \A h, hc : Drained(h, hc) = [n \in 1 .. Len(h) |-> (CHOOSE f : Drains(f, h, hc, Len(h)))[n][1]]
  /\ \A entries, m, approx, skipZero :
       Approximate(entries, m, approx, skipZero) = (CHOOSE f : Offers(f, entries, m, approx, skipZero, Len(entries)))[Len(entries)]
  /\ \A ranked : Retrieved(ranked) = (CHOOSE f : Outs(f, ranked, Len(ranked)))[Len(ranked)]
  <1>1. \A h, i, hc : Heapify(h, i, hc) = (CHOOSE f : Sinks(f, h, i, hc, Len(h)))[Len(h)].h
    BY Zenon DEF Heapify, Sinks, SinkStep
  <1>2. \A h, hc : Build(h, hc) = (CHOOSE f : Builds(f, h, hc, Len(h) \div 2, Len(h) \div 2))[Len(h) \div 2]
    BY Zenon DEF Build, Builds, BuildStep
  <1>3. \A h, hc : Drained(h, hc) = [n \in 1 .. Len(h) |-> (CHOOSE f : Drains(f, h, hc, Len(h)))[n][1]]
    BY Zenon DEF Drained, Drains, DrainStep
  <1>4. \A entries, m, approx, skipZero :
          Approximate(entries, m, approx, skipZero) = (CHOOSE f : Offers(f, entries, m, approx, skipZero, Len(entries)))[Len(entries)]
    BY Zenon DEF Approximate, Offers, OfferStep
  <1>5. \A ranked : Retrieved(ranked) = (CHOOSE f : Outs(f, ranked, Len(ranked)))[Len(ranked)]
    BY Zenon DEF Retrieved, Outs, OutStep
  <1> QED
    BY <1>1, <1>2, <1>3, <1>4, <1>5

----------------------------------------------------------------------------
(* What the heap's operations do.                                          *)

\* An entry that sinks in a heap ends with one.
LEMMA HeapifyIs ==
  ASSUME NEW h \in Seq(HeapItem), NEW hc, NEW k \in Nat \ {0}, NEW i \in k .. Len(h),
         Sinking(h, i, k, hc), NEW g, g = Heapify(h, i, hc)
  PROVE  Reordered(h, g) /\ HeapFrom(g, k, hc)
  <1>1. PICK n : n = Len(h) /\ n \in Nat
    BY LenProperties
  <1>2. PICK f : f = CHOOSE f1 : Sinks(f1, h, i, hc, n)
    OBVIOUS
  <1>3. \A j \in 0 .. n : f[j] = SinkStep(f, h, i, hc, j)
    <2>1. Sinks(f, h, i, hc, n)
      BY <1>1, <1>2, SinksExist, Zenon
    <2> QED
      BY <1>1, <2>1, SinksAre
  <1>4. g = f[n].h
    BY <1>1, <1>2, LoopsAre
  <1> DEFINE At(j) == /\ Reordered(h, f[j].h)
                      /\ \/ f[j] = Sunk(f[j], hc) /\ HeapFrom(f[j].h, k, hc)
                         \/ Sinking(f[j].h, f[j].at, k, hc) /\ f[j].at >= i + j
             G == {j \in Nat : j <= n => At(j)}
  <1>5. 0 \in G
    <2>1. f[0] = [h |-> h, at |-> i]
      BY <1>1, <1>3 DEF SinkStep
    <2>2. Reordered(h, h)
      BY DEF Reordered
    <2>3. i >= i + 0
      BY <1>1
    <2> QED
      BY <2>1, <2>2, <2>3
  <1>6. ASSUME NEW j \in Nat, j \in G PROVE j + 1 \in G
    <2> SUFFICES ASSUME j + 1 <= n PROVE At(j + 1)
      OBVIOUS
    <2>1. At(j) /\ j \in 0 .. n /\ j + 1 \in 0 .. n /\ (j + 1) - 1 = j /\ j + 1 # 0
      BY <1>1, <1>6
    <2>2. f[j + 1] = Sunk(f[j], hc)
      BY <1>3, <2>1 DEF SinkStep
    <2>3. CASE f[j] = Sunk(f[j], hc) /\ HeapFrom(f[j].h, k, hc)
      <3>1. f[j + 1] = f[j]
        BY <2>2, <2>3
      <3> QED
        BY <2>1, <2>3, <3>1
    <2>4. CASE Sinking(f[j].h, f[j].at, k, hc) /\ f[j].at >= i + j
      <3>1. PICK s : s = f[j]
        OBVIOUS
      <3>2. PICK t : t = f[j + 1]
        OBVIOUS
      <3>3. Reordered(h, s.h) /\ Sinking(s.h, s.at, k, hc) /\ s.at >= i + j /\ t = Sunk(s, hc)
        BY <2>1, <2>2, <2>4, <3>1, <3>2
      <3>4. s.h \in Seq(HeapItem) /\ s.at \in k .. Len(s.h) /\ Len(s.h) = n
        BY <1>1, <3>3 DEF Reordered, Sinking
      <3>5. SunkTo(s, t, k, hc)
        BY <3>3, <3>4, SunkIs
      <3>6. Reordered(s.h, t.h)
        BY <3>5 DEF SunkTo
      <3>7. Reordered(h, t.h)
        BY <3>3, <3>6, ReorderedTwice
      <3>8. CASE t = s /\ HeapFrom(s.h, k, hc)
        BY <3>2, <3>3, <3>7, <3>8
      <3>9. CASE t.at > s.at /\ Sinking(t.h, t.at, k, hc)
        <4>1. t.at \in k .. n
          BY <1>1, <3>4, <3>6, <3>9 DEF Sinking, Reordered
        <4>2. t.at >= i + (j + 1)
          BY <1>1, <3>3, <3>4, <3>9, <4>1
        <4> QED
          BY <3>2, <3>7, <3>9, <4>2
      <3> QED
        BY <3>5, <3>8, <3>9 DEF SunkTo
    <2> QED
      BY <2>1, <2>3, <2>4
  <1>7. At(n)
    <2> HIDE DEF At
    <2>1. Nat \subseteq G
      <3> HIDE DEF G
      <3> QED
        BY <1>5, <1>6, NatInductionOnSet
    <2> QED
      BY <1>1, <2>1
  <1>8. ~(Sinking(f[n].h, f[n].at, k, hc) /\ f[n].at >= i + n)
    <2> SUFFICES ASSUME Sinking(f[n].h, f[n].at, k, hc), f[n].at >= i + n PROVE FALSE
      OBVIOUS
    <2>1. f[n].at \in k .. n
      BY <1>1, <1>7 DEF Sinking, Reordered
    <2> QED
      BY <1>1, <2>1
  <1> QED
    BY <1>4, <1>7, <1>8

\* Heap_Build makes a heap of any entries.
LEMMA BuildIs ==
  ASSUME NEW h \in Seq(HeapItem), NEW hc, NEW g, g = Build(h, hc)
  PROVE  Reordered(h, g) /\ HeapFrom(g, 1, hc)
  <1>1. PICK n : n = Len(h) /\ n \in Nat
    BY LenProperties
  <1>2. PICK q : q = n \div 2
    OBVIOUS
  <1>3. q \in Nat /\ 2 * (q + 1) > n /\ q <= n
    BY <1>1, <1>2
  <1>4. PICK f : f = CHOOSE f1 : Builds(f1, h, hc, q, q)
    OBVIOUS
  <1>5. \A j \in 0 .. q : f[j] = BuildStep(f, h, hc, q, j)
    <2>1. Builds(f, h, hc, q, q)
      BY <1>3, <1>4, BuildsExist, Zenon
    <2> QED
      BY <1>3, <2>1, BuildsAre
  <1>6. g = f[q]
    BY <1>1, <1>2, <1>4, LoopsAre
  <1> DEFINE At(j) == Reordered(h, f[j]) /\ HeapFrom(f[j], q + 1 - j, hc)
             G == {j \in Nat : j <= q => At(j)}
  <1>7. 0 \in G
    <2>1. f[0] = h
      BY <1>3, <1>5 DEF BuildStep
    <2>2. Reordered(h, h)
      BY DEF Reordered
    <2>3. HeapFrom(h, q + 1, hc)
      <3> SUFFICES ASSUME NEW i \in q + 1 .. n, NEW c \in 1 .. n, Child(i, c) PROVE FALSE
        BY <1>1 DEF HeapFrom
      <3> QED
        BY <1>1, <1>3 DEF Child
    <2>4. q + 1 - 0 = q + 1
      BY <1>3
    <2> QED
      BY <2>1, <2>2, <2>3, <2>4
  <1>8. ASSUME NEW j \in Nat, j \in G PROVE j + 1 \in G
    <2> SUFFICES ASSUME j + 1 <= q PROVE At(j + 1)
      OBVIOUS
    <2>1. /\ At(j) /\ j \in 0 .. q /\ j + 1 \in 0 .. q /\ (j + 1) - 1 = j /\ j + 1 # 0
      BY <1>3, <1>8
    <2>2. PICK i : i = q + 1 - (j + 1)
      OBVIOUS
    <2>3. i \in Nat \ {0} /\ i <= n /\ q + 1 - j = i + 1
      BY <1>1, <1>3, <2>1, <2>2
    <2>4. PICK s : s = f[j]
      OBVIOUS
    <2>5. Reordered(h, s) /\ HeapFrom(s, i + 1, hc) /\ s \in Seq(HeapItem) /\ Len(s) = n
      BY <1>1, <2>1, <2>3, <2>4 DEF Reordered
    <2>6. f[j + 1] = Heapify(s, i, hc)
      BY <1>5, <2>1, <2>2, <2>4 DEF BuildStep
    <2>7. Sinking(s, i, i, hc)
      <3>1. i \in i .. Len(s)
        BY <1>1, <2>3, <2>5
      <3>2. ASSUME NEW x \in i .. Len(s), NEW c \in 1 .. Len(s), Child(x, c), x # i
            PROVE  Key(hc, s[x]) <= Key(hc, s[c])
        <4>1. x \in i + 1 .. Len(s)
          BY <1>1, <2>3, <2>5, <3>2
        <4> QED
          BY <2>5, <3>2, <4>1 DEF HeapFrom
      <3>3. ASSUME NEW x \in i .. Len(s), Child(x, i) PROVE FALSE
        BY <1>1, <2>3, <2>5, <3>3 DEF Child
      <3> QED
        BY <3>1, <3>2, <3>3 DEF Sinking
    <2>8. i \in i .. Len(s)
      BY <1>1, <2>3, <2>5
    <2>9. Reordered(s, f[j + 1]) /\ HeapFrom(f[j + 1], i, hc)
      BY <2>3, <2>5, <2>6, <2>7, <2>8, HeapifyIs
    <2> QED
      BY <2>2, <2>5, <2>9, ReorderedTwice
  <1>9. At(q)
    <2> HIDE DEF At
    <2>1. Nat \subseteq G
      <3> HIDE DEF G
      <3> QED
        BY <1>7, <1>8, NatInductionOnSet
    <2> QED
      BY <1>3, <2>1
  <1>10. q + 1 - q = 1
    BY <1>3
  <1> QED
    BY <1>6, <1>9, <1>10

\* The head of a heap is above all.
LEMMA HeadLeast ==
  ASSUME NEW h \in Seq(HeapItem), NEW hc, HeapFrom(h, 1, hc), NEW i \in 1 .. Len(h)
  PROVE  Key(hc, h[1]) <= Key(hc, h[i])
  <1>1. PICK n : n = Len(h) /\ n \in Nat /\ \A x \in 1 .. n : Key(hc, h[x]) \in Int
    BY KeyFacts
  <1> DEFINE G == {m \in Nat : \A x \in 1 .. n : x <= m => Key(hc, h[1]) <= Key(hc, h[x])}
  <1>2. 0 \in G
    BY <1>1
  <1>3. ASSUME NEW m \in Nat, m \in G PROVE m + 1 \in G
    <2> SUFFICES ASSUME NEW x \in 1 .. n, x <= m + 1 PROVE Key(hc, h[1]) <= Key(hc, h[x])
      OBVIOUS
    <2>1. CASE x <= m
      BY <1>3, <2>1
    <2>2. CASE x = 1
      BY <1>1, <2>2
    <2>3. CASE x = m + 1 /\ x # 1
      <3>1. PICK y : y = x \div 2
        OBVIOUS
      <3>2. y \in 1 .. n /\ y <= m /\ (x = 2 * y \/ x = 2 * y + 1)
        BY <1>1, <2>3, <3>1
      <3>3. Key(hc, h[1]) <= Key(hc, h[y])
        BY <1>3, <3>2
      <3>4. Key(hc, h[y]) <= Key(hc, h[x])
        BY <1>1, <3>2 DEF HeapFrom, Child
      <3>5. 1 \in 1 .. n
        BY <1>1
      <3> QED
        BY <1>1, <3>2, <3>3, <3>4, <3>5
    <2> QED
      BY <1>1, <2>1, <2>2, <2>3
  <1>4. Nat \subseteq G
    <2> HIDE DEF G
    <2> QED
      BY <1>2, <1>3, NatInductionOnSet
  <1>5. n \in G
    BY <1>1, <1>4
  <1> QED
    BY <1>1, <1>5

\* Another entry at the head of a heap may sink.
LEMMA HeadSinks ==
  ASSUME NEW h \in Seq(HeapItem), NEW hc, HeapFrom(h, 1, hc),
         NEW g \in Seq(HeapItem), Len(g) \in 1 .. Len(h), \A i \in 2 .. Len(g) : g[i] = h[i]
  PROVE  Sinking(g, 1, 1, hc)
  <1>1. Len(h) \in Nat /\ Len(g) \in Nat
    BY LenProperties
  <1>2. ASSUME NEW i \in 1 .. Len(g), NEW c \in 1 .. Len(g), Child(i, c), i # 1
        PROVE  Key(hc, g[i]) <= Key(hc, g[c])
    <2>1. i \in 2 .. Len(g) /\ c \in 2 .. Len(g) /\ i \in 1 .. Len(h) /\ c \in 1 .. Len(h)
      BY <1>1, <1>2 DEF Child
    <2> QED
      BY <1>2, <2>1 DEF HeapFrom
  <1>3. ASSUME NEW i \in 1 .. Len(g), Child(i, 1) PROVE FALSE
    BY <1>1, <1>3 DEF Child
  <1> QED
    BY <1>1, <1>2, <1>3 DEF Sinking

\* The items that stay when the head goes.
Rest(h) == Items(h) \ {h[1]}

\* In a heap that has each item once, the rest are those after the head.
LEMMA RestIs ==
  ASSUME NEW h \in Seq(HeapItem), OnceEach(h), Len(h) >= 1
  PROVE  /\ \A i \in 2 .. Len(h) : h[i] \in Rest(h)
         /\ \A e \in Rest(h) : e.org # h[1].org /\ \E i \in 2 .. Len(h) : e = h[i]
  <1>1. Len(h) \in Nat
    BY LenProperties
  <1>2. \A i \in 2 .. Len(h) : h[i].org # h[1].org /\ h[i] \in Items(h)
    BY <1>1 DEF OnceEach, Items
  <1>3. \A e \in Items(h) : \E i \in 1 .. Len(h) : e = h[i]
    BY DEF Items
  <1>4. ASSUME NEW e \in Rest(h) PROVE e.org # h[1].org /\ \E i \in 2 .. Len(h) : e = h[i]
    <2>1. PICK i \in 1 .. Len(h) : e = h[i]
      BY <1>3 DEF Rest
    <2>2. i # 1
      BY <2>1 DEF Rest
    <2>3. i \in 2 .. Len(h)
      BY <1>1, <2>2
    <2> QED
      BY <1>2, <2>1, <2>3
  <1> QED
    BY <1>2, <1>4 DEF Rest

\* The heap without its head.
LEMMA WithoutHeadIs ==
  ASSUME NEW h \in Seq(HeapItem), NEW hc, HeapFrom(h, 1, hc), OnceEach(h), Len(h) >= 1,
         NEW g, g = WithoutHead(h, hc)
  PROVE  /\ g \in Seq(HeapItem) /\ Len(g) = Len(h) - 1 /\ HeapFrom(g, 1, hc)
         /\ OnceEach(g) /\ Items(g) = Rest(h)
  <1>1. PICK n : n = Len(h) /\ n \in Nat /\ n >= 1 /\ \A i \in 1 .. n : h[i] \in HeapItem
    BY KeyFacts
  <1>2. PICK r : r = [i \in 1 .. n - 1 |-> IF i = 1 THEN h[n] ELSE h[i]]
    OBVIOUS
  <1>3. /\ r \in Seq(HeapItem) /\ Len(r) = n - 1
        /\ \A i \in 1 .. n - 1 : r[i] = IF i = 1 THEN h[n] ELSE h[i]
    <2>1. n - 1 \in Nat /\ \A i \in 1 .. n - 1 : (IF i = 1 THEN h[n] ELSE h[i]) \in HeapItem
      BY <1>1
    <2> QED
      BY <1>2, <2>1
  <1>4. g = IF r = <<>> THEN <<>> ELSE Heapify(r, 1, hc)
    BY <1>1, <1>2 DEF WithoutHead
  <1>5. CASE n = 1
    <2>1. r = <<>>
      BY <1>3, <1>5, EmptySeq
    <2>2. g = <<>> /\ Len(g) = 0
      BY <1>4, <2>1
    <2>3. g \in Seq(HeapItem) /\ Items(g) = {} /\ HeapFrom(g, 1, hc) /\ OnceEach(g)
      BY <2>2 DEF Items, HeapFrom, OnceEach
    <2>4. Rest(h) = {}
      <3>1. ~(\E i \in 2 .. n : TRUE)
        BY <1>5
      <3> QED
        BY <1>1, <3>1, RestIs
    <2> QED
      BY <1>1, <1>5, <2>2, <2>3, <2>4
  <1>6. CASE n > 1
    <2>1. r # <<>> /\ g = Heapify(r, 1, hc)
      BY <1>1, <1>3, <1>4, <1>6
    <2>2. Len(r) \in 1 .. Len(h) /\ \A i \in 2 .. Len(r) : r[i] = h[i]
      BY <1>1, <1>3, <1>6
    <2>3. Sinking(r, 1, 1, hc)
      BY <1>3, <2>2, HeadSinks
    <2>4. 1 \in 1 .. Len(r)
      BY <1>1, <1>3, <1>6
    <2>5. Reordered(r, g) /\ HeapFrom(g, 1, hc)
      BY <1>3, <2>1, <2>3, <2>4, HeapifyIs
    <2>6. OnceEach(r)
      <3> SUFFICES ASSUME NEW i \in 1 .. n - 1, NEW j \in 1 .. n - 1, i # j PROVE r[i].org # r[j].org
        BY <1>3 DEF OnceEach
      <3>1. PICK x \in 1 .. n : r[i] = h[x] /\ x = IF i = 1 THEN n ELSE i
        BY <1>1, <1>3
      <3>2. PICK y \in 1 .. n : r[j] = h[y] /\ y = IF j = 1 THEN n ELSE j
        BY <1>1, <1>3
      <3>3. x # y
        BY <1>1, <3>1, <3>2
      <3> QED
        BY <1>1, <3>1, <3>2, <3>3 DEF OnceEach
    <2>7. Items(r) = Rest(h)
      <3>1. \A i \in 1 .. n - 1 : \E x \in 2 .. n : r[i] = h[x]
        BY <1>1, <1>3, <1>6
      <3>2. \A x \in 2 .. n : \E i \in 1 .. n - 1 : h[x] = r[i]
        <4> TAKE x \in 2 .. n
        <4>1. CASE x = n
          <5>1. 1 \in 1 .. n - 1 /\ r[1] = h[n]
            BY <1>1, <1>3, <1>6
          <5> QED
            BY <4>1, <5>1
        <4>2. CASE x # n
          <5>1. x \in 1 .. n - 1 /\ r[x] = h[x]
            BY <1>1, <1>3, <4>2
          <5> QED
            BY <5>1
        <4> QED
          BY <4>1, <4>2
      <3>3. (\A x \in 2 .. n : h[x] \in Rest(h)) /\ \A e \in Rest(h) : \E x \in 2 .. n : e = h[x]
        BY <1>1, RestIs
      <3>4. \A e \in Items(r) : e \in Rest(h)
        BY <1>3, <3>1, <3>3 DEF Items
      <3>5. ASSUME NEW e \in Rest(h) PROVE e \in Items(r)
        <4>1. PICK x \in 2 .. n : e = h[x]
          BY <3>3
        <4>2. PICK i \in 1 .. n - 1 : e = r[i]
          BY <3>2, <4>1
        <4> QED
          BY <1>3, <4>2 DEF Items
      <3> QED
        BY <3>4, <3>5
    <2> QED
      BY <1>1, <1>3, <2>5, <2>6, <2>7 DEF Reordered
  <1> QED
    BY <1>1, <1>5, <1>6

\* Another entry instead of the head.
LEMMA NewHead ==
  ASSUME NEW h \in Seq(HeapItem), NEW hc, HeapFrom(h, 1, hc), OnceEach(h), Len(h) >= 1,
         NEW e \in HeapItem, \A x \in Rest(h) : x.org # e.org,
         NEW r \in Seq(HeapItem), Len(r) = Len(h), r[1] = e, \A i \in 2 .. Len(h) : r[i] = h[i],
         NEW g, g = Heapify(r, 1, hc)
  PROVE  /\ g \in Seq(HeapItem) /\ Len(g) = Len(h) /\ HeapFrom(g, 1, hc)
         /\ OnceEach(g) /\ Items(g) = Rest(h) \cup {e}
  <1>1. PICK n : n = Len(h) /\ n \in Nat /\ n >= 1 /\ 1 \in 1 .. n /\ DOMAIN h = 1 .. n
                 /\ \A i \in 1 .. n : h[i] \in HeapItem
    BY KeyFacts
  <1>3. r \in Seq(HeapItem) /\ Len(r) = n /\ r[1] = e /\ \A i \in 2 .. n : r[i] = h[i]
    BY <1>1
  <1>4. Sinking(r, 1, 1, hc)
    BY <1>1, <1>3, HeadSinks
  <1>5. Reordered(r, g) /\ HeapFrom(g, 1, hc)
    <2>1. g = Heapify(r, 1, hc) /\ 1 \in 1 .. Len(r) /\ 1 \in Nat \ {0}
      BY <1>1, <1>3
    <2> QED
      BY <1>3, <1>4, <2>1, HeapifyIs
  <1>6. (\A x \in 2 .. n : h[x] \in Rest(h)) /\ \A y \in Rest(h) : \E x \in 2 .. n : y = h[x]
    BY <1>1, RestIs
  <1>7. OnceEach(r)
    <2> SUFFICES ASSUME NEW i \in 1 .. n, NEW j \in 1 .. n, i # j PROVE r[i].org # r[j].org
      BY <1>3 DEF OnceEach
    <2>1. CASE i = 1
      <3>1. j \in 2 .. n
        BY <1>1, <2>1
      <3> QED
        BY <1>3, <1>6, <2>1, <3>1
    <2>2. CASE j = 1
      <3>1. i \in 2 .. n
        BY <1>1, <2>2
      <3> QED
        BY <1>3, <1>6, <2>2, <3>1
    <2>3. CASE i # 1 /\ j # 1
      <3>1. i \in 2 .. n /\ j \in 2 .. n
        BY <1>1, <2>3
      <3> QED
        BY <1>1, <1>3, <3>1 DEF OnceEach
    <2> QED
      BY <2>1, <2>2, <2>3
  <1>8. Items(r) = Rest(h) \cup {e}
    <2>1. ASSUME NEW i \in 1 .. n PROVE r[i] \in Rest(h) \cup {e}
      <3>1. i = 1 \/ i \in 2 .. n
        BY <1>1
      <3> QED
        BY <1>3, <1>6, <3>1
    <2>2. ASSUME NEW y \in Rest(h) \cup {e} PROVE \E i \in 1 .. n : y = r[i]
      <3>1. CASE y = e
        BY <1>1, <1>3, <3>1
      <3>2. CASE y \in Rest(h)
        <4>1. PICK x \in 2 .. n : y = h[x]
          BY <1>6, <3>2
        <4>2. x \in 1 .. n /\ y = r[x]
          BY <1>1, <1>3, <4>1
        <4> QED
          BY <4>2
      <3> QED
        BY <3>1, <3>2
    <2> QED
      BY <1>3, <2>1, <2>2 DEF Items
  <1> QED
    BY <1>1, <1>3, <1>5, <1>7, <1>8 DEF Reordered

\* In order of their keys.
Ranked(d, hc) == \A x, y \in 1 .. Len(d) : x < y => Key(hc, d[x]) <= Key(hc, d[y])

\* A heap emptied gives its entries in order.
LEMMA DrainedIs ==
  ASSUME NEW h \in Seq(HeapItem), NEW hc, HeapFrom(h, 1, hc), OnceEach(h),
         NEW d, d = Drained(h, hc)
  PROVE  /\ d \in Seq(HeapItem) /\ Len(d) = Len(h) /\ Items(d) = Items(h)
         /\ OnceEach(d) /\ Ranked(d, hc)
  <1>1. PICK n : n = Len(h) /\ n \in Nat
    BY LenProperties
  <1>2. PICK f : f = CHOOSE f1 : Drains(f1, h, hc, n)
    OBVIOUS
  <1>3. d = [i \in 1 .. n |-> f[i][1]]
    BY <1>1, <1>2, LoopsAre
  <1>4. CASE n = 0
    <2>1. d \in Seq(HeapItem) /\ Len(d) = 0
      BY <1>3, <1>4
    <2>2. Items(d) = {} /\ Items(h) = {} /\ OnceEach(d) /\ Ranked(d, hc)
      BY <1>1, <1>4, <2>1 DEF Items, OnceEach, Ranked
    <2> QED
      BY <1>1, <1>4, <2>1, <2>2
  <1>5. CASE n >= 1
    <2>1. \A j \in 1 .. n : f[j] = DrainStep(f, h, hc, j)
      <3>1. Drains(f, h, hc, n)
        BY <1>1, <1>2, <1>5, DrainsExist, Zenon
      <3> QED
        BY <1>1, <1>5, <3>1, DrainsAre
    <2> DEFINE At(j) ==
          /\ f[j] \in Seq(HeapItem) /\ Len(f[j]) = n + 1 - j /\ HeapFrom(f[j], 1, hc) /\ OnceEach(f[j])
          /\ \A e \in Items(h) : e \in Items(f[j]) \/ \E i \in 1 .. j - 1 : e = f[i][1]
          /\ Items(f[j]) \subseteq Items(h)
          /\ \A i \in 1 .. j - 1, e \in Items(f[j]) :
               e.org # f[i][1].org /\ Key(hc, f[i][1]) <= Key(hc, e)
               G == {m \in Nat : m + 1 <= n => At(m + 1)}
    <2>2. 0 \in G
      <3>1. 1 \in 1 .. n /\ 0 + 1 = 1
        BY <1>1, <1>5
      <3>2. f[1] = h
        BY <2>1, <3>1 DEF DrainStep
      <3>3. ~(\E i \in 1 .. 1 - 1 : TRUE) /\ n + 1 - 1 = n
        BY <1>1
      <3> QED
        BY <1>1, <3>1, <3>2, <3>3
    <2>3. ASSUME NEW m \in Nat, m \in G PROVE m + 1 \in G
      <3> SUFFICES ASSUME (m + 1) + 1 <= n PROVE At((m + 1) + 1)
        OBVIOUS
      <3>1. PICK j : j = m + 1
        OBVIOUS
      <3>2. j \in 1 .. n /\ j + 1 \in 1 .. n /\ At(j) /\ (j + 1) - 1 = j /\ j + 1 # 1 /\ j + 1 <= n
        BY <1>1, <2>3, <3>1
      <3>3. PICK s : s = f[j]
        OBVIOUS
      <3>4. PICK t : t = f[j + 1]
        OBVIOUS
      <3>5. /\ s \in Seq(HeapItem) /\ Len(s) = n + 1 - j /\ HeapFrom(s, 1, hc) /\ OnceEach(s)
        BY <3>2, <3>3
      <3>6. t = WithoutHead(s, hc)
        BY <2>1, <3>2, <3>3, <3>4 DEF DrainStep
      <3>7. Len(s) >= 1 /\ Len(s) \in Nat /\ 1 \in 1 .. Len(s) /\ Len(s) - 1 = n + 1 - (j + 1)
        BY <1>1, <3>2, <3>5
      <3>8. /\ t \in Seq(HeapItem) /\ Len(t) = n + 1 - (j + 1) /\ HeapFrom(t, 1, hc) /\ OnceEach(t)
            /\ Items(t) = Rest(s)
        BY <3>5, <3>6, <3>7, WithoutHeadIs
      <3>9. \A e \in Items(s) : e \in Items(t) \/ e = s[1]
        BY <3>8 DEF Rest
      <3>10. Items(t) \subseteq Items(s)
        BY <3>8 DEF Rest
      <3>11. ASSUME NEW e \in Items(t) PROVE e.org # s[1].org /\ Key(hc, s[1]) <= Key(hc, e)
        <4>1. e.org # s[1].org
          BY <3>5, <3>7, <3>8, RestIs
        <4>2. PICK i \in 1 .. Len(s) : e = s[i]
          BY <3>10 DEF Items
        <4> QED
          BY <3>5, <4>1, <4>2, HeadLeast
      <3>12. \A i \in 1 .. j : i \in 1 .. j - 1 \/ i = j
        BY <3>2
      <3>13. \A e \in Items(h) : e \in Items(t) \/ \E i \in 1 .. j : e = f[i][1]
        <4> TAKE e \in Items(h)
        <4>1. CASE e \in Items(s)
          <5>1. j \in 1 .. j
            BY <3>2
          <5> QED
            BY <3>3, <3>9, <4>1, <5>1
        <4>2. CASE e \notin Items(s)
          <5>1. PICK i \in 1 .. j - 1 : e = f[i][1]
            BY <3>2, <3>3, <4>2
          <5>2. i \in 1 .. j
            BY <3>2
          <5> QED
            BY <5>1, <5>2
        <4> QED
          BY <4>1, <4>2
      <3>14. \A i \in 1 .. j, e \in Items(t) : e.org # f[i][1].org /\ Key(hc, f[i][1]) <= Key(hc, e)
        <4> TAKE i \in 1 .. j, e \in Items(t)
        <4>1. CASE i = j
          BY <3>3, <3>11, <4>1
        <4>2. CASE i \in 1 .. j - 1
          BY <3>2, <3>3, <3>10, <4>2
        <4> QED
          BY <3>12, <4>1, <4>2
      <3>15. Items(t) \subseteq Items(h)
        BY <3>2, <3>3, <3>10
      <3> QED
        BY <3>1, <3>2, <3>4, <3>8, <3>13, <3>14, <3>15
    <2>4. ASSUME NEW j \in 1 .. n PROVE At(j)
      <3> HIDE DEF At
      <3>1. Nat \subseteq G
        <4> HIDE DEF G
        <4> QED
          BY <2>2, <2>3, NatInductionOnSet
      <3>2. j - 1 \in Nat /\ (j - 1) + 1 = j /\ j <= n
        BY <1>1
      <3>3. j - 1 \in G
        BY <3>1, <3>2
      <3> QED
        BY <3>2, <3>3
    <2>5. ASSUME NEW j \in 1 .. n PROVE d[j] = f[j][1] /\ d[j] \in Items(f[j]) /\ d[j] \in HeapItem
      <3>1. f[j] \in Seq(HeapItem) /\ 1 \in 1 .. Len(f[j])
        <4>1. At(j)
          BY <2>4
        <4> QED
          BY <1>1, <4>1
      <3>2. d[j] = f[j][1]
        BY <1>3
      <3>3. f[j][1] \in Items(f[j])
        BY <3>1 DEF Items
      <3>4. f[j][1] \in HeapItem
        BY <3>1, ElementOfSeq
      <3> QED
        BY <3>2, <3>3, <3>4
    <2>6. d \in Seq(HeapItem) /\ Len(d) = n
      <3>1. \A i \in 1 .. n : f[i][1] \in HeapItem
        BY <2>5
      <3> QED
        BY <1>1, <1>3, <3>1
    <2>7. ASSUME NEW x \in 1 .. n, NEW y \in 1 .. n, x < y
          PROVE  d[x].org # d[y].org /\ Key(hc, d[x]) <= Key(hc, d[y])
      <3>1. At(y) /\ x \in 1 .. y - 1
        BY <1>1, <2>4, <2>7
      <3> QED
        BY <2>5, <3>1
    <2>8. OnceEach(d)
      <3> SUFFICES ASSUME NEW x \in 1 .. n, NEW y \in 1 .. n, x # y PROVE d[x].org # d[y].org
        BY <2>6 DEF OnceEach
      <3>1. x < y \/ y < x
        BY <1>1
      <3> QED
        BY <2>7, <3>1
    <2>9. Ranked(d, hc)
      BY <2>6, <2>7 DEF Ranked
    <2>10. Items(d) \subseteq Items(h)
      <3> SUFFICES ASSUME NEW x \in 1 .. n PROVE d[x] \in Items(h)
        BY <2>6 DEF Items
      <3>1. At(x)
        BY <2>4
      <3> QED
        BY <2>5, <3>1
    <2>11. ASSUME NEW e \in Items(h) PROVE e \in Items(d)
      <3>0. n \in 1 .. n
        BY <1>1, <1>5
      <3>1. At(n) /\ n \in 1 .. n
        BY <2>4, <3>0
      <3>2. CASE e \in Items(f[n])
        <4>1. Len(f[n]) = 1
          BY <1>1, <3>1
        <4>2. e = f[n][1]
          BY <3>2, <4>1 DEF Items
        <4> QED
          BY <2>5, <2>6, <3>1, <4>2 DEF Items
      <3>3. CASE e \notin Items(f[n])
        <4>1. PICK i \in 1 .. n - 1 : e = f[i][1]
          BY <3>1, <3>3
        <4>2. i \in 1 .. n
          BY <1>1
        <4> QED
          BY <2>5, <2>6, <4>1, <4>2 DEF Items
      <3> QED
        BY <3>2, <3>3
    <2>12. Items(d) = Items(h)
      BY <2>10, <2>11
    <2> QED
      BY <1>1, <2>6, <2>8, <2>9, <2>12
  <1> QED
    BY <1>1, <1>4, <1>5

Answer == [doc : Nat, w : Nat]

\* Of documents that all differ, all are retrieved.
LEMMA RetrievedIs ==
  ASSUME NEW r \in Seq(HeapItem), \A x, y \in 1 .. Len(r) : x # y => r[x].doc # r[y].doc,
         NEW out, out = Retrieved(r)
  PROVE  /\ out \in Seq(Answer) /\ Len(out) = Len(r)
         /\ \A x \in 1 .. Len(r) : out[x].doc = r[x].doc /\ out[x].w = r[x].w
  <1>1. PICK n : n = Len(r) /\ n \in Nat /\ \A i \in 1 .. n : r[i] \in HeapItem
    BY KeyFacts
  <1>2. PICK f : f = CHOOSE f1 : Outs(f1, r, n)
    OBVIOUS
  <1>3. \A j \in 0 .. n : f[j] = OutStep(f, r, j)
    <2>1. Outs(f, r, n)
      BY <1>1, <1>2, OutsExist, Zenon
    <2> QED
      BY <1>1, <2>1, OutsAre
  <1>4. out = f[n]
    BY <1>1, <1>2, LoopsAre
  <1> DEFINE At(j) == /\ f[j] \in Seq(Answer) /\ Len(f[j]) = j
                      /\ \A x \in 1 .. j : f[j][x].doc = r[x].doc /\ f[j][x].w = r[x].w
             G == {j \in Nat : j <= n => At(j)}
  <1>5. 0 \in G
    <2>1. 0 \in 0 .. n
      BY <1>1
    <2>2. f[0] = <<>>
      BY ONLY <1>3, <2>1, Zenon DEF OutStep
    <2>3. <<>> \in Seq(Answer) /\ Len(<<>>) = 0
      OBVIOUS
    <2>4. At(0)
      BY <2>2, <2>3
    <2> QED
      BY <2>4
  <1>6. ASSUME NEW j \in Nat, j \in G PROVE j + 1 \in G
    <2> SUFFICES ASSUME j + 1 <= n PROVE At(j + 1)
      OBVIOUS
    <2>1. At(j) /\ j + 1 \in 0 .. n /\ j + 1 \in 1 .. n /\ (j + 1) - 1 = j /\ j + 1 # 0
      BY <1>1, <1>6
    <2>2. PICK s : s = f[j]
      OBVIOUS
    <2>3. /\ s \in Seq(Answer) /\ Len(s) = j /\ DOMAIN s = 1 .. j
          /\ \A x \in 1 .. j : s[x].doc = r[x].doc /\ s[x].w = r[x].w
      BY <2>1, <2>2, LenProperties
    <2>4. \A x \in DOMAIN s : s[x].doc # r[j + 1].doc
      BY <1>1, <2>1, <2>3
    <2>5. PICK e : e = [doc |-> r[j + 1].doc, w |-> r[j + 1].w]
      OBVIOUS
    <2>6. e \in Answer /\ e.doc = r[j + 1].doc /\ e.w = r[j + 1].w
      <3>1. r[j + 1] \in HeapItem
        BY <1>1, <2>1
      <3> QED
        BY <2>5, <3>1 DEF HeapItem, Answer
    <2>7. f[j + 1] = Append(s, e)
      <3>1. f[j + 1] = OutStep(f, r, j + 1)
        BY <1>3, <2>1, Zenon
      <3>2. f[(j + 1) - 1] = s /\ j + 1 # 0
        BY <2>1, <2>2
      <3> QED
        BY ONLY <2>4, <2>5, <3>1, <3>2, Zenon DEF OutStep
    <2>8. PICK t : t = f[j + 1]
      OBVIOUS
    <2>9. /\ t \in Seq(Answer) /\ Len(t) = j + 1 /\ t[j + 1] = e
          /\ \A x \in 1 .. j : t[x] = s[x]
      BY <2>3, <2>6, <2>7, <2>8, AppendProperties
    <2>10. \A x \in 1 .. j + 1 : x \in 1 .. j \/ x = j + 1
      OBVIOUS
    <2> QED
      BY <2>3, <2>6, <2>8, <2>9, <2>10
  <1>7. At(n)
    <2> HIDE DEF At
    <2>1. Nat \subseteq G
      <3> HIDE DEF G
      <3> QED
        BY <1>5, <1>6, NatInductionOnSet
    <2> QED
      BY <1>1, <2>1
  <1> QED
    BY <1>1, <1>4, <1>7

----------------------------------------------------------------------------
(* Weights.                                                                *)

\* Division with a remainder.
LEMMA Divided ==
  ASSUME NEW a \in Nat, NEW b \in Nat \ {0}
  PROVE  a \div b \in Nat /\ a % b \in 0 .. b - 1 /\ a = b * (a \div b) + (a % b)
  BY SMT

\* Products keep their order, and are distributed over sums.
LEMMA ProductOrder ==
  ASSUME NEW a \in Nat, NEW b \in Nat, NEW c \in Nat, a <= b
  PROVE  c * a \in Nat /\ c * a <= c * b
  BY SMT

\* A product distributes over a sum.
LEMMA ProductOfSum ==
  ASSUME NEW b \in Nat, NEW q \in Nat, NEW r \in Nat
  PROVE  b * (q + r) = b * q + b * r
  BY SMT

\* A product divided by its factor.
LEMMA ProductParts ==
  ASSUME NEW q \in Nat, NEW b \in Nat \ {0}
  PROVE  (b * q) % b = 0 /\ (b * q) \div b = q
  <1>1. PICK x : x = b * q
    OBVIOUS
  <1>2. x \in Nat
    BY <1>1, SMT
  <1>3. PICK d, r : d = x \div b /\ r = x % b
    OBVIOUS
  <1>4. d \in Nat /\ r \in 0 .. b - 1 /\ x = b * d + r
    BY <1>2, <1>3, Divided
  <1>5. ~(q < d)
    <2> SUFFICES ASSUME q < d PROVE FALSE
      OBVIOUS
    <2>1. b * (q + 1) <= b * d /\ b * (q + 1) = b * q + b
      BY <1>4, SMT
    <2>2. b * q \in Nat /\ b * d \in Nat
      BY <1>4, SMT
    <2> QED
      BY <1>1, <1>4, <2>1, <2>2
  <1>6. ~(d < q)
    <2> SUFFICES ASSUME d < q PROVE FALSE
      OBVIOUS
    <2>1. b * (d + 1) <= b * q /\ b * (d + 1) = b * d + b
      BY <1>4, SMT
    <2>2. b * q \in Nat /\ b * d \in Nat
      BY <1>4, SMT
    <2> QED
      BY <1>1, <1>4, <2>1, <2>2
  <1>7. d = q
    BY <1>4, <1>5, <1>6
  <1>8. r = 0
    <2>1. b * q \in Nat
      BY SMT
    <2> QED
      BY <1>1, <1>4, <1>7, <2>1
  <1> QED
    BY <1>1, <1>3, <1>7, <1>8

\* Sums of multiples are multiples.
LEMMA MultiplesAdd ==
  ASSUME NEW x \in Nat, NEW y \in Nat, NEW b \in Nat \ {0}, x % b = 0, y % b = 0
  PROVE  (x + y) % b = 0
  <1>1. PICK q \in Nat : q = x \div b /\ x = b * q
    <2>1. x \div b \in Nat /\ x = b * (x \div b) + 0
      BY Divided
    <2>2. b * (x \div b) \in Nat
      BY <2>1, SMT
    <2> QED
      BY <2>1, <2>2
  <1>2. PICK r \in Nat : r = y \div b /\ y = b * r
    <2>1. y \div b \in Nat /\ y = b * (y \div b) + 0
      BY Divided
    <2>2. b * (y \div b) \in Nat
      BY <2>1, SMT
    <2> QED
      BY <2>1, <2>2
  <1>3. b * (q + r) = x + y
    <2>1. b * (q + r) = b * q + b * r
      BY ProductOfSum
    <2> QED
      BY <1>1, <1>2, <2>1
  <1>4. q + r \in Nat
    OBVIOUS
  <1> QED
    BY <1>3, <1>4, ProductParts

\* The exact weight of a quotient is at most its approximate one.
LEMMA ExactLess ==
  ASSUME NEW w \in Nat, NEW a \in Nat \ {0}, NEW b \in Nat \ {0}, a <= b
  PROVE  (w * a) \div b \in Nat /\ (w * a) \div b <= w
  <1>1. PICK x : x = w * a
    OBVIOUS
  <1>2. x \in Nat /\ x <= w * b /\ w * b = b * w /\ w * b \in Nat
    BY <1>1, ProductOrder, SMT
  <1>3. PICK d : d = x \div b
    OBVIOUS
  <1>4. d \in Nat /\ b * d \in Nat /\ b * d <= x
    <2>1. d \in Nat /\ x % b \in 0 .. b - 1 /\ x = b * d + (x % b)
      BY <1>2, <1>3, Divided
    <2>2. b * d \in Nat
      BY <2>1, SMT
    <2> QED
      BY <2>1, <2>2
  <1>5. ~(d > w)
    <2> SUFFICES ASSUME d > w PROVE FALSE
      OBVIOUS
    <2>1. b * (w + 1) <= b * d
      BY <1>4, ProductOrder
    <2>2. b * (w + 1) = b * w + b
      BY SMT
    <2> QED
      BY <1>2, <1>4, <2>1, <2>2
  <1> QED
    BY <1>1, <1>3, <1>4, <1>5

\* The weights accumulators are selected by: the quotients by the approximate
\* weights of their documents, and by the exact ones.
ApproxWeights(entries, approx) == [x \in 1 .. Len(entries) |-> entries[x].sum \div approx[entries[x].doc]]

ExactWeights(entries, approx, exact) ==
  [x \in 1 .. Len(entries) |->
     Exactly1(ApproxWeights(entries, approx)[x], entries[x].doc, approx, exact)]

Weighable(approx, exact) ==
  /\ {approx, exact} \subseteq [Docs -> Nat \ {0}]
  /\ \A d \in Docs : approx[d] <= exact[d]

\* Both are numbers, and the exact ones no greater.
LEMMA WeightsAre ==
  ASSUME NEW s \in Seq(Entry), NEW approx, NEW exact, Weighable(approx, exact),
         NEW x \in 1 .. Len(s)
  PROVE  /\ ApproxWeights(s, approx)[x] = s[x].sum \div approx[s[x].doc]
         /\ ApproxWeights(s, approx)[x] \in Nat
         /\ ExactWeights(s, approx, exact)[x] \in Nat
         /\ ExactWeights(s, approx, exact)[x] <= ApproxWeights(s, approx)[x]
         /\ ExactWeights(s, approx, exact)[x]
              = Exactly1(ApproxWeights(s, approx)[x], s[x].doc, approx, exact)
         /\ (s[x].sum = 0 => ApproxWeights(s, approx)[x] = 0)
  <1>1. s[x] \in Entry
    BY ElementOfSeq
  <1>2. PICK d : d = s[x].doc /\ d \in Docs /\ s[x].sum \in Nat
    BY <1>1 DEF Entry
  <1>3. PICK a, b : a = approx[d] /\ b = exact[d] /\ a \in Nat \ {0} /\ b \in Nat \ {0} /\ a <= b
    BY <1>2 DEF Weighable
  <1>4. PICK w : w = s[x].sum \div a
    OBVIOUS
  <1>5. w \in Nat /\ (s[x].sum = 0 => w = 0)
    <2>1. w \in Nat
      BY <1>2, <1>3, <1>4, Divided
    <2>2. a * 0 = 0 /\ (a * 0) \div a = 0
      BY <1>3, ProductParts, SMT
    <2> QED
      BY <1>4, <2>1, <2>2
  <1>6. ApproxWeights(s, approx)[x] = w
    BY <1>2, <1>3, <1>4 DEF ApproxWeights
  <1>7. ExactWeights(s, approx, exact)[x] = Exactly1(w, d, approx, exact)
    BY <1>2, <1>6 DEF ExactWeights
  <1>8. Exactly1(w, d, approx, exact) = (w * a) \div b
    BY <1>3 DEF Exactly1
  <1>9. (w * a) \div b \in Nat /\ (w * a) \div b <= w
    BY <1>3, <1>5, ExactLess
  <1> QED
    BY <1>2, <1>3, <1>4, <1>5, <1>6, <1>7, <1>8, <1>9

----------------------------------------------------------------------------
(* What is selected.                                                       *)

InHeapOf(h, x) == \E e \in Items(h) : e.org = x

\* A heap of m accumulators, each once, by the weights wt.
HeapOf(h, s, wt, m) ==
  /\ h \in Seq(HeapItem) /\ Len(h) = m /\ HeapFrom(h, 1, "lesser") /\ OnceEach(h)
  /\ \A e \in Items(h) : e.org \in 1 .. Len(s) /\ e.w = wt[e.org] /\ e.doc = s[e.org].doc

\* It holds the best of them all.
Selected(h, s, wt, m) ==
  HeapOf(h, s, wt, m) /\ \A x \in 1 .. Len(s) : ~InHeapOf(h, x) => wt[x] <= h[1].w

Selection(n) == [heap : Seq(HeapItem), sums : [1 .. n -> Nat]]

\* Accumulators up to y have been offered.
Offered(t, s, a, m, y) ==
  /\ t \in Selection(Len(s)) /\ HeapOf(t.heap, s, a, m)
  /\ \A x \in 1 .. Len(s) :
       /\ InHeapOf(t.heap, x) => x <= y /\ t.sums[x] = 0
       /\ ~InHeapOf(t.heap, x) /\ x <= y => t.sums[x] = a[x] /\ a[x] <= t.heap[1].w
       /\ x > y => t.sums[x] = s[x].sum

\* Accumulators up to y have been tried by their exact weights b.
Tried(t, s, a, b, m, y) ==
  /\ t \in Selection(Len(s)) /\ HeapOf(t.heap, s, b, m)
  /\ \A x \in 1 .. Len(s) :
       \/ t.sums[x] = 0 /\ (InHeapOf(t.heap, x) \/ b[x] <= t.heap[1].w)
       \/ t.sums[x] = a[x] /\ ~InHeapOf(t.heap, x) /\ (x > y \/ b[x] <= t.heap[1].w)

\* Accumulator x has taken the place of the head.
Entered(u, t, s, wt, m, x) ==
  /\ u \in Selection(Len(s)) /\ HeapOf(u.heap, s, wt, m)
  /\ \A z \in 1 .. Len(s) : u.sums[z] = IF z = x THEN 0 ELSE t.sums[z]
  /\ \A z \in 1 .. Len(s) :
       InHeapOf(u.heap, z) <=> (z = x \/ (InHeapOf(t.heap, z) /\ z # t.heap[1].org))
  /\ t.heap[1].w <= u.heap[1].w
  /\ t.heap[1].org \in 1 .. Len(s) /\ InHeapOf(t.heap, t.heap[1].org)
  /\ t.heap[1].w = wt[t.heap[1].org] /\ t.heap[1].w \in Nat /\ u.heap[1].w \in Nat

\* An accumulator above the head goes into the heap, the head out.
LEMMA InHeapIs ==
  ASSUME NEW s, Len(s) \in Nat, NEW wt, NEW m \in Nat \ {0},
         NEW t \in Selection(Len(s)), HeapOf(t.heap, s, wt, m),
         NEW x \in 1 .. Len(s), ~InHeapOf(t.heap, x), wt[x] \in Nat, s[x].doc \in Nat,
         wt[x] > t.heap[1].w,
         NEW e \in HeapItem, e.w = wt[x], e.doc = s[x].doc, e.org = x, NEW u, u = InHeap(t, e)
  PROVE  Entered(u, t, s, wt, m, x)
  <1>1. PICK h : h = t.heap
    OBVIOUS
  <1>2. PICK r : r = [h EXCEPT ![1] = e]
    OBVIOUS
  <1>3. PICK g : g = Heapify(r, 1, "lesser")
    OBVIOUS
  <1>4. /\ h \in Seq(HeapItem) /\ Len(h) = m /\ HeapFrom(h, 1, "lesser") /\ OnceEach(h)
        /\ \A y \in Items(h) : y.org \in 1 .. Len(s) /\ y.w = wt[y.org] /\ y.doc = s[y.org].doc
    BY <1>1 DEF HeapOf
  <1>5. /\ r \in Seq(HeapItem) /\ Len(r) = m /\ r[1] = e /\ \A i \in 2 .. m : r[i] = h[i]
    <2>1. r = [i \in 1 .. m |-> IF i = 1 THEN e ELSE h[i]]
      BY <1>2, <1>4, LenProperties
    <2>2. \A i \in 1 .. m : h[i] \in HeapItem
      BY <1>4, ElementOfSeq
    <2> QED
      BY <2>1, <2>2
  <1>6. u = [heap |-> g, sums |-> [t.sums EXCEPT ![x] = 0]]
    BY ONLY e.org = x, u = InHeap(t, e), <1>1, <1>2, <1>3, Zenon DEF InHeap
  <1>7. Rest(h) \subseteq Items(h) /\ \A y \in Rest(h) : y.org # e.org
    BY <1>1 DEF Rest, InHeapOf
  <1>8. /\ g \in Seq(HeapItem) /\ Len(g) = m /\ HeapFrom(g, 1, "lesser")
        /\ OnceEach(g) /\ Items(g) = Rest(h) \cup {e}
    <2>1. Len(h) >= 1
      BY <1>4
    <2> QED
      BY <1>3, <1>4, <1>5, <1>7, <2>1, NewHead
  <1>9. u \in Selection(Len(s)) /\ u.heap = g
         /\ \A z \in 1 .. Len(s) : u.sums[z] = IF z = x THEN 0 ELSE t.sums[z]
    <2>1. t.sums \in [1 .. Len(s) -> Nat]
      BY DEF Selection
    <2>2. [t.sums EXCEPT ![x] = 0] \in [1 .. Len(s) -> Nat]
      BY <2>1
    <2>3. u.heap = g /\ \A z \in 1 .. Len(s) : u.sums[z] = IF z = x THEN 0 ELSE t.sums[z]
      BY <1>6, <2>1
    <2>4. u \in [heap : Seq(HeapItem), sums : [1 .. Len(s) -> Nat]]
      BY ONLY <1>6, <1>8, <2>2
    <2> QED
      BY <2>3, <2>4 DEF Selection
  <1>10. HeapOf(g, s, wt, m)
    BY <1>4, <1>7, <1>8 DEF HeapOf
  <1>11. h[1] \in Items(h) /\ h[1] \in HeapItem /\ g[1] \in Items(g) /\ g[1] \in HeapItem
         /\ 1 \in 1 .. m
    BY <1>4, <1>8, ElementOfSeq DEF Items
  <1>12. ASSUME NEW z \in 1 .. Len(s)
         PROVE  InHeapOf(g, z) <=> (z = x \/ (InHeapOf(h, z) /\ z # h[1].org))
    <2>1. ASSUME InHeapOf(g, z), z # x PROVE InHeapOf(h, z) /\ z # h[1].org
      <3>1. PICK y \in Items(g) : y.org = z
        BY <2>1 DEF InHeapOf
      <3>2. y \in Rest(h)
        BY <1>8, <2>1, <3>1
      <3>3. y.org # h[1].org
        BY <1>4, <3>2, RestIs
      <3> QED
        BY <1>7, <3>1, <3>2, <3>3 DEF InHeapOf
    <2>2. ASSUME z = x PROVE InHeapOf(g, z)
      BY <1>8, <2>2 DEF InHeapOf
    <2>3. ASSUME InHeapOf(h, z), z # h[1].org PROVE InHeapOf(g, z)
      <3>1. PICK y \in Items(h) : y.org = z
        BY <2>3 DEF InHeapOf
      <3>2. y \in Rest(h)
        BY <2>3, <3>1 DEF Rest
      <3> QED
        BY <1>8, <3>1, <3>2 DEF InHeapOf
    <2> QED
      BY <2>1, <2>2, <2>3
  <1>13. h[1].w \in Nat /\ g[1].w \in Nat
    BY <1>11 DEF HeapItem
  <1>14. h[1].w <= g[1].w
    <2>1. CASE g[1] = e
      BY <1>1, <1>13, <2>1
    <2>2. CASE g[1] \in Rest(h)
      <3>1. PICK i \in 1 .. m : g[1] = h[i]
        BY <1>4, <1>7, <2>2 DEF Items
      <3>2. Key("lesser", h[1]) <= Key("lesser", h[i])
        BY <1>4, <3>1, HeadLeast
      <3> QED
        BY <3>1, <3>2 DEF Key
    <2> QED
      BY <1>8, <1>11, <2>1, <2>2
  <1>15. h[1].org \in 1 .. Len(s) /\ InHeapOf(h, h[1].org) /\ h[1].w = wt[h[1].org]
    BY <1>4, <1>11 DEF InHeapOf
  <1> QED
    BY <1>1, <1>9, <1>10, <1>12, <1>13, <1>14, <1>15 DEF Entered

\* The documents of accumulators are numbers.
LEMMA DocNats ==
  ASSUME NEW s \in Seq(Entry)
  PROVE  Len(s) \in Nat /\ \A x \in 1 .. Len(s) : s[x] \in Entry /\ s[x].doc \in Docs /\ s[x].doc \in Nat
                                                 /\ s[x].sum \in Nat
  <1>1. Docs \subseteq Nat
    BY AccumulatorsAssumption DEF Docs
  <1>2. \A x \in 1 .. Len(s) : s[x] \in Entry
    BY ElementOfSeq
  <1> QED
    BY <1>1, <1>2, LenProperties DEF Entry

\* The first m accumulators are in the heap.
LEMMA FilledIs ==
  ASSUME NEW s \in Seq(Entry), NEW approx, NEW exact, Weighable(approx, exact),
         NEW m \in 1 .. Len(s), NEW t, t = Filled(s, m, approx)
  PROVE  Offered(t, s, ApproxWeights(s, approx), m, m)
  <1>1. PICK a : a = ApproxWeights(s, approx)
    OBVIOUS
  <1>2. PICK n \in Nat : n = Len(s) /\ DOMAIN s = 1 .. n /\ m \in Nat /\ m <= n
                         /\ \A x \in 1 .. n : s[x].doc \in Nat /\ s[x].sum \in Nat
    BY DocNats, LenProperties
  <1>3. \A x \in 1 .. n : a[x] \in Nat /\ a[x] = s[x].sum \div approx[s[x].doc]
    BY <1>1, <1>2, WeightsAre
  <1>4. PICK f : f = [x \in 1 .. m |-> [w |-> s[x].sum \div approx[s[x].doc], doc |-> s[x].doc, org |-> x]]
    OBVIOUS
  <1>5. PICK g : g = Build(f, "lesser")
    OBVIOUS
  <1>6. PICK sums : sums = [x \in 1 .. n |-> IF x <= m THEN 0 ELSE s[x].sum]
    OBVIOUS
  <1>7. t = [heap |-> g, sums |-> sums]
    BY <1>2, <1>4, <1>5, <1>6 DEF Filled
  <1>8. \A x \in 1 .. m : x \in 1 .. n /\ f[x] = [w |-> a[x], doc |-> s[x].doc, org |-> x]
    BY <1>2, <1>3, <1>4
  <1>9. \A x \in 1 .. m : f[x] \in HeapItem /\ f[x].w = a[x] /\ f[x].doc = s[x].doc /\ f[x].org = x
    <2> TAKE x \in 1 .. m
    <2>1. PICK w, dd : w = a[x] /\ dd = s[x].doc /\ w \in Nat /\ dd \in Nat /\ x \in Nat
      BY <1>2, <1>3, <1>8
    <2>2. f[x] = [w |-> w, doc |-> dd, org |-> x]
      BY <1>8, <2>1
    <2> QED
      BY ONLY <2>1, <2>2 DEF HeapItem
  <1>10. f \in Seq(HeapItem) /\ Len(f) = m
    <2>1. DOMAIN f = 1 .. m /\ \A x \in 1 .. m : f[x] \in HeapItem
      BY <1>4, <1>9
    <2>2. f = [x \in 1 .. m |-> f[x]]
      BY <1>4
    <2> QED
      BY <1>2, <2>1, <2>2
  <1>11. OnceEach(f)
    BY <1>9, <1>10 DEF OnceEach
  <1>12. Reordered(f, g) /\ HeapFrom(g, 1, "lesser")
    BY <1>5, <1>10, BuildIs
  <1>13. g \in Seq(HeapItem) /\ Len(g) = m /\ OnceEach(g) /\ Items(g) = Items(f)
    BY <1>10, <1>11, <1>12 DEF Reordered
  <1>14. ASSUME NEW e \in Items(g)
         PROVE  e.org \in 1 .. m /\ e.org \in 1 .. n /\ e.w = a[e.org] /\ e.doc = s[e.org].doc
    <2>1. PICK x \in 1 .. m : e = f[x]
      BY <1>10, <1>13 DEF Items
    <2> QED
      BY <1>8, <1>9, <2>1
  <1>15. \A x \in 1 .. n : InHeapOf(g, x) <=> x <= m
    <2> TAKE x \in 1 .. n
    <2>1. InHeapOf(g, x) => x <= m
      BY <1>2, <1>14 DEF InHeapOf
    <2>2. ASSUME x <= m PROVE InHeapOf(g, x)
      <3>1. x \in 1 .. m
        BY <1>2, <2>2
      <3>2. f[x] \in Items(g) /\ f[x].org = x
        BY <1>9, <1>10, <1>13, <3>1 DEF Items
      <3> QED
        BY <3>2 DEF InHeapOf
    <2> QED
      BY <2>1, <2>2
  <1>16. HeapOf(g, s, a, m)
    BY <1>2, <1>12, <1>13, <1>14 DEF HeapOf
  <1>17. sums \in [1 .. n -> Nat] /\ \A x \in 1 .. n : sums[x] = IF x <= m THEN 0 ELSE s[x].sum
    BY <1>2, <1>6
  <1>18. t \in Selection(n) /\ t.heap = g /\ t.sums = sums
    BY <1>7, <1>13, <1>17 DEF Selection
  <1>19. Offered(t, s, a, m, m)
    <2> SUFFICES ASSUME NEW x \in 1 .. n
                 PROVE  /\ InHeapOf(g, x) => x <= m /\ sums[x] = 0
                        /\ ~InHeapOf(g, x) /\ x <= m => sums[x] = a[x] /\ a[x] <= g[1].w
                        /\ x > m => sums[x] = s[x].sum
      BY <1>2, <1>16, <1>18 DEF Offered
    <2> QED
      BY <1>2, <1>15, <1>17
  <1> QED
    BY <1>1, <1>19

\* The next accumulator is offered.
LEMMA OfferIs ==
  ASSUME NEW s \in Seq(Entry), NEW approx, NEW exact, Weighable(approx, exact),
         NEW m \in Nat \ {0}, NEW y \in Nat, NEW x \in 1 .. Len(s), x = y + 1,
         NEW t, Offered(t, s, ApproxWeights(s, approx), m, y), NEW skipZero,
         NEW u, u = Offer(t, x, s[x], approx, skipZero)
  PROVE  Offered(u, s, ApproxWeights(s, approx), m, x)
  <1>1. PICK a : a = ApproxWeights(s, approx)
    OBVIOUS
  <1>2. PICK n \in Nat : n = Len(s) /\ \A z \in 1 .. n : s[z].doc \in Nat /\ s[z].sum \in Nat
    BY DocNats
  <1>3. /\ \A z \in 1 .. n : a[z] \in Nat
        /\ a[x] = s[x].sum \div approx[s[x].doc] /\ (s[x].sum = 0 => a[x] = 0)
    BY <1>1, <1>2, WeightsAre
  <1>4. PICK h, sums : h = t.heap /\ sums = t.sums
    OBVIOUS
  <1>5. PICK top : top = h[1]
    OBVIOUS
  <1>6. /\ t \in Selection(n) /\ HeapOf(h, s, a, m) /\ sums \in [1 .. n -> Nat]
        /\ h \in Seq(HeapItem) /\ t = [heap |-> h, sums |-> sums]
    BY <1>1, <1>2, <1>4 DEF Offered, Selection
  <1>7. \A z \in 1 .. n :
          /\ InHeapOf(h, z) => z <= y /\ sums[z] = 0
          /\ ~InHeapOf(h, z) /\ z <= y => sums[z] = a[z] /\ a[z] <= top.w
          /\ z > y => sums[z] = s[z].sum
    BY <1>1, <1>2, <1>4, <1>5 DEF Offered
  <1>8. top \in HeapItem /\ top.w \in Nat /\ Len(h) = m
    <2>1. 1 \in 1 .. Len(h) /\ Len(h) = m
      BY <1>6 DEF HeapOf
    <2>2. top \in HeapItem
      BY <1>5, <1>6, <2>1, ElementOfSeq
    <2> QED
      BY <2>1, <2>2 DEF HeapItem
  <1>9. ~InHeapOf(h, x) /\ sums[x] = s[x].sum /\ x \in 1 .. n
    BY <1>2, <1>7
  <1>10. \A z \in 1 .. n : (z <= x <=> z <= y \/ z = x) /\ (z > x => z > y /\ z # x)
    BY <1>2
  <1>11. CASE skipZero /\ s[x].sum = 0
    <2>1. u = t
      BY <1>11, Zenon DEF Offer
    <2>2. a[x] = 0 /\ sums[x] = a[x] /\ a[x] <= top.w
      BY <1>3, <1>8, <1>9, <1>11
    <2>3. ASSUME NEW z \in 1 .. n
          PROVE  /\ InHeapOf(h, z) => z <= x /\ sums[z] = 0
                 /\ ~InHeapOf(h, z) /\ z <= x => sums[z] = a[z] /\ a[z] <= top.w
                 /\ z > x => sums[z] = s[z].sum
      BY <1>7, <1>10, <2>2
    <2> QED
      BY <1>1, <1>2, <1>4, <1>5, <1>6, <2>1, <2>3 DEF Offered
  <1>12. CASE ~(skipZero /\ s[x].sum = 0) /\ a[x] <= top.w
    <2>1. u = [t EXCEPT !.sums[x] = a[x]]
      BY <1>3, <1>4, <1>5, <1>12 DEF Offer
    <2>2. PICK sums1 : sums1 = [sums EXCEPT ![x] = a[x]]
      OBVIOUS
    <2>3. u = [heap |-> h, sums |-> sums1]
      BY <1>6, <2>1, <2>2
    <2>4. sums1 \in [1 .. n -> Nat] /\ \A z \in 1 .. n : sums1[z] = IF z = x THEN a[z] ELSE sums[z]
      BY <1>3, <1>6, <1>9, <2>2
    <2>5. u \in Selection(n) /\ u.heap = h /\ u.sums = sums1
      BY <1>6, <2>3, <2>4 DEF Selection
    <2>6. ASSUME NEW z \in 1 .. n
          PROVE  /\ InHeapOf(h, z) => z <= x /\ sums1[z] = 0
                 /\ ~InHeapOf(h, z) /\ z <= x => sums1[z] = a[z] /\ a[z] <= top.w
                 /\ z > x => sums1[z] = s[z].sum
      BY <1>7, <1>9, <1>10, <1>12, <2>4
    <2> QED
      BY <1>1, <1>2, <1>4, <1>5, <1>6, <2>5, <2>6 DEF Offered
  <1>13. CASE ~(skipZero /\ s[x].sum = 0) /\ ~(a[x] <= top.w)
    <2>1. PICK t1 : t1 = [t EXCEPT !.sums[top.org] = top.w]
      OBVIOUS
    <2>2. PICK e : e \in HeapItem /\ e.w = a[x] /\ e.doc = s[x].doc /\ e.org = x /\ u = InHeap(t1, e)
      <3>1. PICK e : e = [w |-> a[x], doc |-> s[x].doc, org |-> x]
        OBVIOUS
      <3>2. u = InHeap(t1, e)
        BY <1>3, <1>4, <1>5, <1>13, <2>1, <3>1 DEF Offer
      <3>3. e \in HeapItem
        BY <1>2, <1>3, <1>9, <3>1 DEF HeapItem
      <3> QED
        BY <3>1, <3>2, <3>3
    <2>3. PICK sums1 : sums1 = [sums EXCEPT ![top.org] = top.w]
      OBVIOUS
    <2>4. t1 = [heap |-> h, sums |-> sums1]
      BY <1>6, <2>1, <2>3
    <2>5. sums1 \in [1 .. n -> Nat]
      BY <1>6, <1>8, <2>3
    <2>6. t1 \in Selection(n) /\ t1.heap = h /\ t1.sums = sums1
      BY <1>6, <2>4, <2>5 DEF Selection
    <2>7. /\ u \in Selection(n) /\ HeapOf(u.heap, s, a, m)
          /\ \A z \in 1 .. n : u.sums[z] = IF z = x THEN 0 ELSE sums1[z]
          /\ \A z \in 1 .. n : InHeapOf(u.heap, z) <=> (z = x \/ (InHeapOf(h, z) /\ z # top.org))
          /\ top.w <= u.heap[1].w
          /\ top.org \in 1 .. n /\ InHeapOf(h, top.org) /\ top.w = a[top.org] /\ u.heap[1].w \in Nat
      <3>1. a[x] > top.w /\ a[x] \in Nat
        BY <1>3, <1>8, <1>9, <1>13
      <3> QED
        <4>1. /\ Len(s) \in Nat /\ x \in 1 .. Len(s) /\ t1 \in Selection(Len(s)) /\ HeapOf(t1.heap, s, a, m)
              /\ ~InHeapOf(t1.heap, x) /\ s[x].doc \in Nat /\ a[x] > t1.heap[1].w
          BY <1>2, <1>5, <1>6, <1>9, <2>6, <3>1
        <4>2. Entered(u, t1, s, a, m, x)
          BY <2>2, <3>1, <4>1, InHeapIs
        <4> QED
          BY ONLY <1>2, <1>5, <2>6, <4>2 DEF Entered
    <2>8. \A z \in 1 .. n : u.sums[z] = IF z = x THEN 0 ELSE IF z = top.org THEN top.w ELSE sums[z]
      BY <1>6, <2>3, <2>5, <2>7
    <2>9. ASSUME NEW z \in 1 .. n
          PROVE  /\ InHeapOf(u.heap, z) => z <= x /\ u.sums[z] = 0
                 /\ ~InHeapOf(u.heap, z) /\ z <= x => u.sums[z] = a[z] /\ a[z] <= u.heap[1].w
                 /\ z > x => u.sums[z] = s[z].sum
      <3>1. CASE z = x
        BY <1>10, <2>7, <2>8, <3>1
      <3>2. CASE z # x /\ z = top.org
        BY <1>7, <1>10, <2>7, <2>8, <3>2
      <3>3. CASE z # x /\ z # top.org
        <4>1. u.sums[z] = sums[z] /\ (InHeapOf(u.heap, z) <=> InHeapOf(h, z))
          BY <2>7, <2>8, <3>3
        <4>2. a[z] <= top.w => a[z] <= u.heap[1].w
          BY <1>3, <1>8, <2>7
        <4> QED
          BY <1>7, <1>10, <3>3, <4>1, <4>2
      <3> QED
        BY <3>1, <3>2, <3>3
    <2> QED
      BY <1>1, <1>2, <2>7, <2>9 DEF Offered
  <1> QED
    BY <1>11, <1>12, <1>13

\* All accumulators have been offered: the heap has the best by approximate weights.
LEMMA ApproximateIs ==
  ASSUME NEW s \in Seq(Entry), NEW approx, NEW exact, Weighable(approx, exact),
         NEW m \in 1 .. Len(s), NEW skipZero, NEW t, t = Approximate(s, m, approx, skipZero)
  PROVE  Offered(t, s, ApproxWeights(s, approx), m, Len(s))
  <1>1. PICK n \in Nat : n = Len(s) /\ m \in Nat /\ m <= n /\ m # 0
    BY DocNats
  <1>2. PICK a : a = ApproxWeights(s, approx)
    OBVIOUS
  <1>3. PICK f : f = CHOOSE f1 : Offers(f1, s, m, approx, skipZero, n)
    OBVIOUS
  <1>4. \A j \in m .. n : f[j] = OfferStep(f, s, m, approx, skipZero, j)
    <2>1. Offers(f, s, m, approx, skipZero, n)
      BY <1>1, <1>3, OffersExist, Zenon
    <2> QED
      BY <1>1, <2>1, OffersAre
  <1>5. t = f[n]
    BY <1>1, <1>3, LoopsAre
  <1> DEFINE G == {k \in Nat : m + k <= n => Offered(f[m + k], s, a, m, m + k)}
  <1>6. 0 \in G
    <2>1. m \in m .. n /\ m + 0 = m
      BY <1>1
    <2>2. f[m] = Filled(s, m, approx)
      BY ONLY <1>4, <2>1, Zenon DEF OfferStep
    <2>3. Offered(f[m], s, a, m, m)
      BY <1>2, <2>2, FilledIs
    <2> QED
      BY <2>1, <2>3
  <1>7. ASSUME NEW k \in Nat, k \in G PROVE k + 1 \in G
    <2> SUFFICES ASSUME m + (k + 1) <= n PROVE Offered(f[m + (k + 1)], s, a, m, m + (k + 1))
      OBVIOUS
    <2>1. PICK y, x : y = m + k /\ x = m + (k + 1)
      OBVIOUS
    <2>2. y \in Nat /\ x = y + 1 /\ x \in m .. n /\ x # m /\ x - 1 = y /\ x \in 1 .. Len(s) /\ y <= n
      BY <1>1, <2>1
    <2>3. f[x] = Offer(f[y], x, s[x], approx, skipZero)
      <3>1. f[x] = OfferStep(f, s, m, approx, skipZero, x)
        BY <1>4, <2>2
      <3> QED
        BY ONLY <2>2, <3>1, Zenon DEF OfferStep
    <2>4. Offered(f[y], s, a, m, y)
      BY <1>7, <2>1, <2>2
    <2>5. m \in Nat \ {0}
      BY <1>1
    <2>6. Offered(f[x], s, a, m, x)
      BY <1>2, <2>2, <2>3, <2>4, <2>5, OfferIs
    <2> QED
      BY <2>1, <2>6
  <1>8. Nat \subseteq G
    <2> HIDE DEF G
    <2> QED
      BY <1>6, <1>7, NatInductionOnSet
  <1>9. n - m \in Nat /\ m + (n - m) = n
    BY <1>1
  <1>10. Offered(f[n], s, a, m, n)
    BY <1>8, <1>9
  <1> QED
    BY <1>1, <1>2, <1>5, <1>10

\* What has been offered is selected.
LEMMA OfferedSelected ==
  ASSUME NEW s, Len(s) \in Nat, NEW a, NEW m, NEW t, Offered(t, s, a, m, Len(s))
  PROVE  Selected(t.heap, s, a, m)
  BY DEF Offered, Selected

\* The heap by exact weights, before the others are tried.
Again(s, approx, exact) ==
  [x \in DOMAIN s.heap |-> [s.heap[x] EXCEPT !.w = Exactly1(s.heap[x].w, s.heap[x].doc, approx, exact)]]

\* The pass with exact weights, as one function over the accumulators.
LEMMA ExactlyRuns ==
  ASSUME NEW s0, NEW s, NEW approx, NEW exact
  PROVE  Exactly(s0, s, approx, exact)
           = (CHOOSE f : Tries(f, [s0 EXCEPT !.heap = Build(Again(s0, approx, exact), "lesser")],
                               s, approx, exact, Len(s)))[Len(s)]
  BY Zenon DEF Exactly, Again, Tries, TryStep

\* The heap with exact weights for approximate ones.
LEMMA AgainIs ==
  ASSUME NEW s \in Seq(Entry), NEW approx, NEW exact, Weighable(approx, exact),
         NEW m \in Nat \ {0}, NEW t, Offered(t, s, ApproxWeights(s, approx), m, Len(s)),
         NEW u, u = [t EXCEPT !.heap = Build(Again(t, approx, exact), "lesser")]
  PROVE  Tried(u, s, ApproxWeights(s, approx), ExactWeights(s, approx, exact), m, 0)
  <1>1. PICK a, b : a = ApproxWeights(s, approx) /\ b = ExactWeights(s, approx, exact)
    OBVIOUS
  <1>2. PICK n \in Nat : n = Len(s) /\ \A z \in 1 .. n : s[z].doc \in Nat
    BY DocNats
  <1>3. \A z \in 1 .. n : a[z] \in Nat /\ b[z] \in Nat /\ b[z] = Exactly1(a[z], s[z].doc, approx, exact)
    BY <1>1, <1>2, WeightsAre
  <1>4. PICK h, sums : h = t.heap /\ sums = t.sums
    OBVIOUS
  <1>5. /\ t \in Selection(n) /\ HeapOf(h, s, a, m) /\ sums \in [1 .. n -> Nat]
        /\ h \in Seq(HeapItem) /\ t = [heap |-> h, sums |-> sums]
    BY <1>1, <1>2, <1>4 DEF Offered, Selection
  <1>6. \A z \in 1 .. n : /\ InHeapOf(h, z) => sums[z] = 0
                          /\ ~InHeapOf(h, z) => sums[z] = a[z]
    BY <1>1, <1>2, <1>4 DEF Offered
  <1>7. /\ Len(h) = m /\ DOMAIN h = 1 .. m /\ OnceEach(h)
        /\ \A i \in 1 .. m : h[i] \in HeapItem /\ h[i].org \in 1 .. n /\ h[i].w = a[h[i].org]
                             /\ h[i].doc = s[h[i].org].doc
    <2>1. Len(h) = m /\ DOMAIN h = 1 .. m /\ OnceEach(h) /\ \A i \in 1 .. m : h[i] \in HeapItem
      BY <1>5, LenProperties, ElementOfSeq DEF HeapOf
    <2>2. \A i \in 1 .. m : h[i] \in Items(h)
      BY <2>1 DEF Items
    <2> QED
      BY <1>2, <1>5, <2>1, <2>2 DEF HeapOf
  <1>8. PICK g : g = Again(t, approx, exact)
    OBVIOUS
  <1>9. g = [i \in 1 .. m |-> [h[i] EXCEPT !.w = Exactly1(h[i].w, h[i].doc, approx, exact)]]
    BY <1>4, <1>7, <1>8 DEF Again
  <1>10. ASSUME NEW i \in 1 .. m
         PROVE  g[i] \in HeapItem /\ g[i].org = h[i].org /\ g[i].w = b[h[i].org] /\ g[i].doc = h[i].doc
    <2>1. PICK e : e = h[i] /\ e \in HeapItem
      BY <1>7
    <2>2. g[i] = [e EXCEPT !.w = b[e.org]]
      BY <1>3, <1>7, <1>9, <2>1
    <2>3. b[e.org] \in Nat
      BY <1>3, <1>7, <2>1
    <2> QED
      BY <2>1, <2>2, <2>3 DEF HeapItem
  <1>11. g \in Seq(HeapItem) /\ Len(g) = m
    <2>1. g = [i \in 1 .. m |-> g[i]]
      BY <1>9
    <2> QED
      BY <1>10, <2>1
  <1>12. OnceEach(g)
    BY <1>7, <1>10, <1>11 DEF OnceEach
  <1>13. PICK k : k = Build(g, "lesser")
    OBVIOUS
  <1>14. Reordered(g, k) /\ HeapFrom(k, 1, "lesser")
    BY <1>11, <1>13, BuildIs
  <1>15. k \in Seq(HeapItem) /\ Len(k) = m /\ OnceEach(k) /\ Items(k) = Items(g)
    BY <1>11, <1>12, <1>14 DEF Reordered
  <1>16. ASSUME NEW e \in Items(k)
         PROVE  e.org \in 1 .. n /\ e.w = b[e.org] /\ e.doc = s[e.org].doc /\ InHeapOf(h, e.org)
    <2>1. PICK i \in 1 .. m : e = g[i]
      BY <1>11, <1>15 DEF Items
    <2>2. h[i] \in Items(h)
      BY <1>7 DEF Items
    <2> QED
      BY <1>7, <1>10, <2>1, <2>2 DEF InHeapOf
  <1>17. HeapOf(k, s, b, m)
    BY <1>2, <1>14, <1>15, <1>16 DEF HeapOf
  <1>18. \A z \in 1 .. n : InHeapOf(k, z) <=> InHeapOf(h, z)
    <2> TAKE z \in 1 .. n
    <2>1. InHeapOf(k, z) => InHeapOf(h, z)
      BY <1>16 DEF InHeapOf
    <2>2. ASSUME InHeapOf(h, z) PROVE InHeapOf(k, z)
      <3>1. PICK i \in 1 .. m : h[i].org = z
        BY <1>7, <2>2 DEF InHeapOf, Items
      <3>2. g[i] \in Items(k) /\ g[i].org = z
        BY <1>10, <1>11, <1>15, <3>1 DEF Items
      <3> QED
        BY <3>2 DEF InHeapOf
    <2> QED
      BY <2>1, <2>2
  <1>19. u = [heap |-> k, sums |-> sums]
    BY <1>5, <1>8, <1>13
  <1>20. u \in Selection(n) /\ u.heap = k /\ u.sums = sums
    BY <1>5, <1>15, <1>19 DEF Selection
  <1>21. Tried(u, s, a, b, m, 0)
    <2>1. ASSUME NEW x \in 1 .. n
          PROVE  \/ sums[x] = 0 /\ (InHeapOf(k, x) \/ b[x] <= k[1].w)
                 \/ sums[x] = a[x] /\ ~InHeapOf(k, x) /\ (x > 0 \/ b[x] <= k[1].w)
      BY <1>6, <1>18
    <2> QED
      BY <1>2, <1>17, <1>20, <2>1 DEF Tried
  <1> QED
    BY <1>1, <1>21

\* The next accumulator is tried.
LEMMA TryIs ==
  ASSUME NEW s \in Seq(Entry), NEW approx, NEW exact, Weighable(approx, exact),
         NEW m \in Nat \ {0}, NEW y \in Nat, NEW x \in 1 .. Len(s), x = y + 1,
         NEW t, Tried(t, s, ApproxWeights(s, approx), ExactWeights(s, approx, exact), m, y),
         NEW u, u = Try(t, x, s[x].doc, approx, exact)
  PROVE  Tried(u, s, ApproxWeights(s, approx), ExactWeights(s, approx, exact), m, x)
  <1>1. PICK a, b : a = ApproxWeights(s, approx) /\ b = ExactWeights(s, approx, exact)
    OBVIOUS
  <1>2. PICK n \in Nat : n = Len(s) /\ x \in 1 .. n /\ \A z \in 1 .. n : s[z].doc \in Nat
    BY DocNats
  <1>3. \A z \in 1 .. n : /\ a[z] \in Nat /\ b[z] \in Nat /\ b[z] <= a[z]
                          /\ b[z] = Exactly1(a[z], s[z].doc, approx, exact)
    BY <1>1, <1>2, WeightsAre
  <1>4. PICK h, sums, top : h = t.heap /\ sums = t.sums /\ top = t.heap[1]
    OBVIOUS
  <1>5. t \in Selection(n) /\ HeapOf(h, s, b, m) /\ h \in Seq(HeapItem) /\ sums \in [1 .. n -> Nat]
    BY <1>1, <1>2, <1>4 DEF Tried, Selection
  <1>6. \A z \in 1 .. n :
          \/ sums[z] = 0 /\ (InHeapOf(h, z) \/ b[z] <= top.w)
          \/ sums[z] = a[z] /\ ~InHeapOf(h, z) /\ (z > y \/ b[z] <= top.w)
    BY <1>1, <1>2, <1>4 DEF Tried
  <1>7. top.w \in Nat
    <2>1. 1 \in 1 .. Len(h) /\ h[1] = top
      BY <1>4, <1>5 DEF HeapOf
    <2>2. top \in HeapItem
      BY <1>5, <2>1, ElementOfSeq
    <2> QED
      BY <2>2 DEF HeapItem
  <1>8. PICK w : w = Exactly1(sums[x], s[x].doc, approx, exact)
    OBVIOUS
  <1>9. \A z \in 1 .. n : z > y => z > x \/ z = x
    BY <1>2
  <1>10. CASE sums[x] = 0 \/ sums[x] <= top.w \/ w <= top.w
    <2>1. u = t
      BY <1>4, <1>8, <1>10 DEF Try
    <2>2. InHeapOf(h, x) \/ b[x] <= top.w
      BY <1>2, <1>3, <1>6, <1>7, <1>8, <1>10
    <2>3. ASSUME NEW z \in 1 .. n
          PROVE  \/ sums[z] = 0 /\ (InHeapOf(h, z) \/ b[z] <= top.w)
                 \/ sums[z] = a[z] /\ ~InHeapOf(h, z) /\ (z > x \/ b[z] <= top.w)
      BY <1>6, <1>9, <2>2
    <2> QED
      BY <1>1, <1>2, <1>4, <1>5, <2>1, <2>3 DEF Tried
  <1>11. CASE ~(sums[x] = 0 \/ sums[x] <= top.w \/ w <= top.w)
    <2>1. sums[x] = a[x] /\ ~InHeapOf(h, x) /\ w = b[x] /\ b[x] > top.w
      BY <1>2, <1>3, <1>6, <1>7, <1>8, <1>11
    <2>2. PICK e : e \in HeapItem /\ e.w = b[x] /\ e.doc = s[x].doc /\ e.org = x /\ u = InHeap(t, e)
      <3>1. PICK e : e = [w |-> w, doc |-> s[x].doc, org |-> x]
        OBVIOUS
      <3>2. u = InHeap(t, e)
        BY <1>4, <1>8, <1>11, <3>1 DEF Try
      <3>3. e \in HeapItem
        BY <1>2, <1>3, <2>1, <3>1 DEF HeapItem
      <3> QED
        BY <2>1, <3>1, <3>2, <3>3
    <2>3. Entered(u, t, s, b, m, x)
      <3>1. /\ Len(s) \in Nat /\ t \in Selection(Len(s)) /\ HeapOf(t.heap, s, b, m)
            /\ ~InHeapOf(t.heap, x) /\ s[x].doc \in Nat /\ b[x] \in Nat /\ b[x] > t.heap[1].w
        BY <1>2, <1>3, <1>4, <1>5, <2>1
      <3> QED
        BY <2>2, <3>1, InHeapIs
    <2>4. /\ u \in Selection(n) /\ HeapOf(u.heap, s, b, m)
          /\ \A z \in 1 .. n : u.sums[z] = IF z = x THEN 0 ELSE sums[z]
          /\ \A z \in 1 .. n : InHeapOf(u.heap, z) <=> (z = x \/ (InHeapOf(h, z) /\ z # top.org))
          /\ top.w <= u.heap[1].w
          /\ top.org \in 1 .. n /\ InHeapOf(h, top.org) /\ top.w = b[top.org] /\ u.heap[1].w \in Nat
      BY ONLY <1>2, <1>4, <2>3 DEF Entered
    <2>5. ASSUME NEW z \in 1 .. n
          PROVE  \/ u.sums[z] = 0 /\ (InHeapOf(u.heap, z) \/ b[z] <= u.heap[1].w)
                 \/ u.sums[z] = a[z] /\ ~InHeapOf(u.heap, z) /\ (z > x \/ b[z] <= u.heap[1].w)
      <3>1. b[z] <= top.w => b[z] <= u.heap[1].w
        BY <1>3, <1>7, <2>4
      <3>2. CASE z = x
        BY <2>4, <3>2
      <3>3. CASE z # x
        <4>1. u.sums[z] = sums[z] /\ (InHeapOf(u.heap, z) <=> (InHeapOf(h, z) /\ z # top.org))
          BY <2>4, <3>3
        <4>2. CASE z = top.org
          <5>1. b[z] <= top.w /\ InHeapOf(h, z)
            BY <1>7, <2>4, <4>2
          <5> QED
            BY <1>6, <3>1, <4>1, <5>1
        <4>3. CASE z # top.org
          BY <1>6, <1>9, <3>1, <3>3, <4>1, <4>3
        <4> QED
          BY <4>2, <4>3
      <3> QED
        BY <3>2, <3>3
    <2> QED
      BY <1>1, <1>2, <2>4, <2>5 DEF Tried
  <1> QED
    BY <1>10, <1>11

\* All have been tried: the heap has the best by exact weights.
LEMMA ExactlyIs ==
  ASSUME NEW s \in Seq(Entry), NEW approx, NEW exact, Weighable(approx, exact),
         NEW m \in Nat \ {0}, NEW t, Offered(t, s, ApproxWeights(s, approx), m, Len(s)),
         NEW u, u = Exactly(t, s, approx, exact)
  PROVE  Selected(u.heap, s, ExactWeights(s, approx, exact), m)
  <1>1. PICK n \in Nat : n = Len(s)
    BY DocNats
  <1>2. PICK a, b : a = ApproxWeights(s, approx) /\ b = ExactWeights(s, approx, exact)
    OBVIOUS
  <1>3. PICK t0 : t0 = [t EXCEPT !.heap = Build(Again(t, approx, exact), "lesser")]
    OBVIOUS
  <1>4. PICK f : f = CHOOSE f1 : Tries(f1, t0, s, approx, exact, n)
    OBVIOUS
  <1>5. \A j \in 0 .. n : f[j] = TryStep(f, t0, s, approx, exact, j)
    <2>1. Tries(f, t0, s, approx, exact, n)
      BY <1>1, <1>4, TriesExist, Zenon
    <2> QED
      BY <1>1, <2>1, TriesAre
  <1>6. u = f[n]
    BY <1>1, <1>3, <1>4, ExactlyRuns, Zenon
  <1> DEFINE G == {j \in Nat : j <= n => Tried(f[j], s, a, b, m, j)}
  <1>7. 0 \in G
    <2>1. 0 \in 0 .. n
      BY <1>1
    <2>2. f[0] = t0
      BY ONLY <1>5, <2>1, Zenon DEF TryStep
    <2>3. Tried(f[0], s, a, b, m, 0)
      BY <1>2, <1>3, <2>2, AgainIs, Zenon
    <2> QED
      BY <2>3
  <1>8. ASSUME NEW j \in Nat, j \in G PROVE j + 1 \in G
    <2> SUFFICES ASSUME j + 1 <= n PROVE Tried(f[j + 1], s, a, b, m, j + 1)
      OBVIOUS
    <2>1. PICK x : x = j + 1
      OBVIOUS
    <2>2. x \in 0 .. n /\ x # 0 /\ x - 1 = j /\ x \in 1 .. Len(s) /\ j <= n
      BY <1>1, <2>1
    <2>3. f[x] = Try(f[j], x, s[x].doc, approx, exact)
      <3>1. f[x] = TryStep(f, t0, s, approx, exact, x)
        BY <1>5, <2>2
      <3> QED
        BY ONLY <2>2, <3>1, Zenon DEF TryStep
    <2>4. Tried(f[j], s, a, b, m, j)
      BY <1>8, <2>2
    <2>5. Tried(f[x], s, a, b, m, x)
      BY <1>2, <2>1, <2>2, <2>3, <2>4, TryIs
    <2> QED
      BY <2>1, <2>5
  <1>9. Nat \subseteq G
    <2> HIDE DEF G
    <2> QED
      BY <1>7, <1>8, NatInductionOnSet
  <1>10. Tried(u, s, a, b, m, n)
    BY <1>1, <1>6, <1>9
  <1>11. Selected(u.heap, s, b, m)
    <2>1. ASSUME NEW x \in 1 .. n, ~InHeapOf(u.heap, x) PROVE b[x] <= u.heap[1].w
      <3>1. ~(x > n)
        BY <1>1
      <3> QED
        BY <1>1, <1>10, <2>1, <3>1 DEF Tried
    <2> QED
      BY <1>1, <1>10, <2>1 DEF Selected, Tried
  <1> QED
    BY <1>2, <1>11

\* The answers out are the best m of the accumulators s by the weights wt.
BestOf(out, s, wt, m) ==
  /\ out \in Seq(Answer) /\ Len(out) = m
  /\ \A x, y \in 1 .. m : x < y => out[x].w >= out[y].w /\ out[x].doc # out[y].doc
  /\ \A x \in 1 .. m : \E z \in 1 .. Len(s) : out[x].doc = s[z].doc /\ out[x].w = wt[z]
  /\ m > 0 => \A z \in 1 .. Len(s) : (\E x \in 1 .. m : out[x].doc = s[z].doc) \/ wt[z] <= out[m].w

\* What a heap of the best is emptied to.
LEMMA SelectedBest ==
  ASSUME NEW s \in Seq(Entry), OneEach(s), NEW wt, \A z \in 1 .. Len(s) : wt[z] \in Nat,
         NEW m \in Nat \ {0}, NEW h, Selected(h, s, wt, m),
         NEW out, out = Retrieved(Drained(Build(h, "greater"), "greater"))
  PROVE  BestOf(out, s, wt, m)
  <1>1. PICK n \in Nat : n = Len(s) /\ DOMAIN s = 1 .. n
    BY DocNats, LenProperties
  <1>2. /\ h \in Seq(HeapItem) /\ Len(h) = m /\ HeapFrom(h, 1, "lesser") /\ OnceEach(h)
        /\ \A e \in Items(h) : e.org \in 1 .. n /\ e.w = wt[e.org] /\ e.doc = s[e.org].doc
        /\ \A z \in 1 .. n : ~InHeapOf(h, z) => wt[z] <= h[1].w
    BY <1>1 DEF Selected, HeapOf
  <1>3. PICK g : g = Build(h, "greater")
    OBVIOUS
  <1>4. PICK d : d = Drained(g, "greater")
    OBVIOUS
  <1>5. /\ g \in Seq(HeapItem) /\ Len(g) = m /\ OnceEach(g) /\ Items(g) = Items(h)
        /\ HeapFrom(g, 1, "greater")
    <2>1. Reordered(h, g) /\ HeapFrom(g, 1, "greater")
      BY <1>2, <1>3, BuildIs
    <2> QED
      BY <1>2, <2>1 DEF Reordered
  <1>6. /\ d \in Seq(HeapItem) /\ Len(d) = m /\ Items(d) = Items(h) /\ OnceEach(d) /\ Ranked(d, "greater")
    BY <1>4, <1>5, DrainedIs
  <1>7. ASSUME NEW x \in 1 .. m
        PROVE  /\ d[x] \in HeapItem /\ d[x] \in Items(h) /\ d[x].w \in Nat /\ d[x].org \in 1 .. n
               /\ d[x].w = wt[d[x].org] /\ d[x].doc = s[d[x].org].doc
    <2>1. d[x] \in HeapItem
      BY <1>6, ElementOfSeq
    <2>2. d[x] \in Items(h)
      BY <1>6 DEF Items
    <2> QED
      BY <1>2, <2>1, <2>2 DEF HeapItem
  <1>8. \A x, y \in 1 .. m : x # y => d[x].doc # d[y].doc
    <2> SUFFICES ASSUME NEW x \in 1 .. m, NEW y \in 1 .. m, x # y PROVE d[x].doc # d[y].doc
      OBVIOUS
    <2>1. d[x].org # d[y].org
      BY <1>6 DEF OnceEach
    <2> QED
      BY <1>1, <1>7, <2>1 DEF OneEach
  <1>9. out = Retrieved(d)
    BY <1>3, <1>4
  <1>10. /\ out \in Seq(Answer) /\ Len(out) = m
         /\ \A x \in 1 .. m : out[x].doc = d[x].doc /\ out[x].w = d[x].w
    BY <1>6, <1>8, <1>9, RetrievedIs
  <1>11. ASSUME NEW x \in 1 .. m, NEW y \in 1 .. m, x < y PROVE d[x].w >= d[y].w
    <2>1. Key("greater", d[x]) <= Key("greater", d[y])
      BY <1>6, <1>11 DEF Ranked
    <2>2. 0 - d[x].w <= 0 - d[y].w
      BY <2>1 DEF Key
    <2> QED
      BY <1>7, <2>2
  <1>12. ASSUME NEW x \in 1 .. m, NEW y \in 1 .. m, x < y
         PROVE  out[x].w >= out[y].w /\ out[x].doc # out[y].doc
    BY <1>8, <1>10, <1>11, <1>12
  <1>13. ASSUME NEW x \in 1 .. m PROVE \E z \in 1 .. n : out[x].doc = s[z].doc /\ out[x].w = wt[z]
    BY <1>7, <1>10, SMTT(60)
  <1>14. ASSUME NEW z \in 1 .. n, ~(\E x \in 1 .. m : out[x].doc = s[z].doc) PROVE wt[z] <= out[m].w
    <2>1. ~InHeapOf(h, z)
      <3> SUFFICES ASSUME InHeapOf(h, z) PROVE FALSE
        OBVIOUS
      <3>1. PICK e \in Items(d) : e.org = z
        BY <1>6 DEF InHeapOf
      <3>2. PICK x \in 1 .. m : e = d[x]
        BY <1>6 DEF Items
      <3> QED
        BY <1>7, <1>10, <1>14, <3>1, <3>2
    <2>2. m \in 1 .. m
      OBVIOUS
    <2>3. PICK i \in 1 .. m : d[m] = h[i]
      BY <1>2, <1>7, <2>2 DEF Items
    <2>4. Key("lesser", h[1]) <= Key("lesser", h[i])
      BY <1>2, <2>3, HeadLeast
    <2>5. h[1].w <= d[m].w /\ h[1].w \in Nat
      <3>1. 1 \in 1 .. Len(h)
        BY <1>2
      <3>2. h[1] \in HeapItem
        BY <1>2, <3>1, ElementOfSeq
      <3> QED
        BY <2>3, <2>4, <3>2 DEF Key, HeapItem
    <2> QED
      BY <1>1, <1>2, <1>7, <1>10, <2>1, <2>2, <2>5
  <1> QED
    BY <1>1, <1>10, <1>12, <1>13, <1>14 DEF BestOf

\* The weights a query asks for.
WeightsFor(s, approx, exact, exactly) ==
  IF exactly THEN ExactWeights(s, approx, exact) ELSE ApproxWeights(s, approx)

\* CosineGet selects the best.
LEMMA CosineGetIs ==
  ASSUME NEW s \in Seq(Entry), OneEach(s), NEW approx, NEW exact, Weighable(approx, exact),
         NEW m \in 0 .. Len(s), NEW exactly \in BOOLEAN, NEW skipZero,
         NEW out, out = CosineGet(s, m, approx, exact, exactly, skipZero)
  PROVE  BestOf(out, s, WeightsFor(s, approx, exact, exactly), m)
  <1>1. PICK a, b, wt : /\ a = ApproxWeights(s, approx) /\ b = ExactWeights(s, approx, exact)
                        /\ wt = WeightsFor(s, approx, exact, exactly) /\ wt = (IF exactly THEN b ELSE a)
    BY DEF WeightsFor
  <1>2. Len(s) \in Nat
    BY DocNats
  <1>3. \A z \in 1 .. Len(s) : wt[z] \in Nat
    <2>1. \A z \in 1 .. Len(s) : a[z] \in Nat /\ b[z] \in Nat
      BY <1>1, WeightsAre
    <2> QED
      BY <1>1, <2>1
  <1>4. CASE m = 0
    <2>1. out = <<>>
      BY <1>4 DEF CosineGet
    <2>2. out \in Seq(Answer) /\ Len(out) = 0
      BY <2>1
    <2>3. BestOf(out, s, wt, m)
      BY <1>4, <2>2 DEF BestOf
    <2> QED
      BY <1>1, <2>3
  <1>5. CASE m # 0
    <2>1. PICK t : t = Approximate(s, m, approx, skipZero)
      OBVIOUS
    <2>2. PICK u : u = IF exactly THEN Exactly(t, s, approx, exact) ELSE t
      OBVIOUS
    <2>3. out = Retrieved(Drained(Build(u.heap, "greater"), "greater"))
      BY <1>5, <2>1, <2>2, Zenon DEF CosineGet
    <2>4. m \in 1 .. Len(s) /\ m \in Nat \ {0}
      BY <1>2, <1>5
    <2>5. Offered(t, s, a, m, Len(s))
      BY <1>1, <2>1, <2>4, ApproximateIs
    <2>6. Selected(u.heap, s, wt, m)
      <3>1. CASE exactly
        <4>1. u = Exactly(t, s, approx, exact) /\ wt = b
          BY <1>1, <2>2, <3>1
        <4>2. Selected(u.heap, s, ExactWeights(s, approx, exact), m)
          BY <1>1, <2>4, <2>5, <4>1, ExactlyIs
        <4> QED
          BY <1>1, <4>1, <4>2
      <3>2. CASE ~exactly
        <4>1. u = t /\ wt = a
          BY <1>1, <2>2, <3>2
        <4>2. Selected(t.heap, s, a, m)
          BY <1>2, <2>5, OfferedSelected
        <4> QED
          BY <4>1, <4>2
      <3> QED
        BY <3>1, <3>2
    <2>7. BestOf(out, s, wt, m)
      BY <1>3, <2>3, <2>4, <2>6, SelectedBest
    <2> QED
      BY <1>1, <2>7
  <1> QED
    BY <1>4, <1>5

----------------------------------------------------------------------------
(* The answers.                                                            *)

\* What the terms are worth is a multiple of every document's approximate weight.
Multiples == \A g \in Weighings : \A d \in Docs : total[d] % g.approx[d] = 0

\* The documents CosineGet may answer with.
Wanted == IF InUse > asked.m THEN asked.m ELSE InUse

\* Once asked, the answers are CosineGet's, of sums that do not change any more.
Answered ==
  /\ asked.m \in Nat
  /\ asked.m > 0 =>
       /\ stage = "added" /\ asked.g \in Weighings /\ asked.exact \in BOOLEAN
       /\ answers = CosineGet(acc, Wanted, asked.g.approx, asked.g.exact, asked.exact, query.method = "A")

HashSorted == stage = "added" /\ query.method = "H" => sorted

RInv == Types /\ Multiples /\ Answered /\ HashSorted

\* The weights of the documents, as assumed.
LEMMA WeighingIs ==
  ASSUME NEW g \in Weighings
  PROVE  /\ Weighable(g.approx, g.exact)
         /\ \A d \in Docs : g.approx[d] \in Nat \ {0} /\ g.exact[d] \in Nat \ {0}
         /\ \A d \in Docs, j \in DOMAIN TermWeights : TermWeights[j] % g.approx[d] = 0
  BY RankedAssumption DEF Weighable

\* Initially nothing is asked.
LEMMA AnsweredInit == InitQuery /\ Types => RInv
  <1> SUFFICES ASSUME InitQuery, Types PROVE RInv
    OBVIOUS
  <1>1. total = [d \in Docs |-> 0] /\ stage = "term" /\ asked = [m |-> 0]
    BY DEF InitQuery, Init
  <1>2. Multiples
    <2> SUFFICES ASSUME NEW g \in Weighings, NEW d \in Docs PROVE total[d] % g.approx[d] = 0
      BY DEF Multiples
    <2>1. PICK b \in Nat \ {0} : b = g.approx[d]
      BY WeighingIs
    <2>2. b * 0 = 0 /\ (b * 0) % b = 0
      BY ProductParts, SMT
    <2> QED
      BY <1>1, <2>1, <2>2
  <1>3. Answered /\ HashSorted
    BY <1>1 DEF Answered, HashSorted
  <1> QED
    BY <1>2, <1>3 DEF RInv

\* A term adds multiples.
LEMMA MultiplesKept ==
  ASSUME Types, Types', Multiples, NEW docs, BeginTerm(docs)
  PROVE  Multiples'
  <1> SUFFICES ASSUME NEW g \in Weighings, NEW d \in Docs PROVE total'[d] % g.approx[d] = 0
    BY DEF Multiples
  <1>1. PICK w : w = TermWeights[term + 1]
    OBVIOUS
  <1>2. w \in Nat /\ term + 1 \in DOMAIN TermWeights
    <2>1. term \in Nat /\ term + 1 \in 1 .. Len(TermWeights)
      BY AccumulatorsAssumption DEF BeginTerm, Types
    <2> QED
      BY <1>1, <2>1, AccumulatorsAssumption
  <1>3. PICK b \in Nat \ {0} : b = g.approx[d] /\ w % b = 0
    BY <1>1, <1>2, WeighingIs
  <1>4. PICK x \in Nat : x = total[d] /\ x % b = 0
    BY <1>3 DEF Types, Multiples
  <1>5. total'[d] \in {x, x + w}
    BY <1>1, <1>4 DEF BeginTerm
  <1>6. (x + w) % b = 0
    BY <1>2, <1>3, <1>4, MultiplesAdd
  <1> QED
    BY <1>3, <1>4, <1>5, <1>6

\* The invariant is kept.
LEMMA AnsweredStep ==
  ASSUME RInv, Types', [NextQuery]_allvars
  PROVE  RInv'
  <1>1. Types /\ Multiples /\ Answered /\ HashSorted
    BY DEF RInv
  <1>2. CASE Accumulate
    <2>1. stage # "added" /\ Next /\ answers' = answers /\ asked' = asked
      BY <1>2 DEF Accumulate
    <2>2. asked.m = 0 /\ asked'.m = 0
      BY <1>1, <2>1 DEF Answered
    <2>3. Answered'
      BY <2>2 DEF Answered
    <2>4. Multiples'
      <3>1. ASSUME NEW docs, BeginTerm(docs) PROVE Multiples'
        BY <1>1, <3>1, MultiplesKept
      <3>2. CASE total' = total
        BY <1>1, <3>2 DEF Multiples
      <3>3. Posting \/ EndTerm \/ EndTerms => total' = total
        BY DEF Posting, EndTerm, EndTerms
      <3> QED
        BY <2>1, <3>1, <3>2, <3>3 DEF Next
    <2>5. HashSorted'
      <3>1. \A docs : BeginTerm(docs) => stage' = "post"
        BY DEF BeginTerm
      <3>2. Posting => stage' = stage
        BY DEF Posting
      <3>3. EndTerm => stage' = "term"
        BY DEF EndTerm
      <3>4. EndTerms => sorted' = (sorted \/ query.method = "H") /\ query' = query
        BY DEF EndTerms
      <3>5. ASSUME EndTerms, query'.method = "H" PROVE sorted'
        BY <3>4, <3>5
      <3> QED
        BY <2>1, <3>1, <3>2, <3>3, <3>5 DEF Next, HashSorted
    <2> QED
      BY <2>3, <2>4, <2>5 DEF RInv
  <1>3. ASSUME NEW maxparas \in MaxParas, NEW g \in Weighings, NEW exact \in BOOLEAN,
               Select(maxparas, g, exact)
        PROVE  RInv'
    <2>1. /\ stage = "added" /\ UNCHANGED vars
          /\ asked' = [m |-> maxparas, g |-> g, exact |-> exact]
      BY <1>3 DEF Select
    <2>2. asked'.m = maxparas /\ asked'.g = g /\ asked'.exact = exact /\ maxparas \in Nat
      BY <2>1, RankedAssumption
    <2>3. stage' = "added" /\ acc' = acc /\ query' = query /\ total' = total /\ sorted' = sorted /\ InUse' = InUse
      BY <2>1 DEF vars, InUse
    <2>4. Wanted' = IF InUse > maxparas THEN maxparas ELSE InUse
      BY <2>2, <2>3 DEF Wanted
    <2>5. answers' = CosineGet(acc, Wanted', g.approx, g.exact, exact, query.method = "A")
      BY <1>3, <2>4, Zenon DEF Select
    <2>6. Answered'
      BY <2>2, <2>3, <2>5 DEF Answered
    <2>7. Multiples'
      BY <1>1, <2>3 DEF RInv, Multiples
    <2>8. HashSorted'
      BY <1>1, <2>1, <2>3 DEF RInv, HashSorted
    <2> QED
      BY <1>1, <2>6, <2>7, <2>8 DEF RInv
  <1>4. CASE UNCHANGED allvars
    <2>1. /\ stage' = stage /\ acc' = acc /\ query' = query /\ total' = total /\ sorted' = sorted
          /\ answers' = answers /\ asked' = asked /\ InUse' = InUse
      BY <1>4 DEF allvars, vars, InUse
    <2>2. Wanted' = Wanted
      BY <2>1 DEF Wanted
    <2>3. Answered'
      BY <1>1, <2>1, <2>2 DEF Answered
    <2> QED
      BY <1>1, <2>1, <2>3 DEF RInv, Multiples, HashSorted
  <1> QED
    BY <1>2, <1>3, <1>4 DEF NextQuery

\* Where there are as many documents as entries each has one.
LEMMA CountedOnce ==
  ASSUME NEW s \in Seq(Entry), Cardinality(DocsIn(s)) = Len(s)
  PROVE  OneEach(s)
  <1>1. DOMAIN s = 1 .. Len(s) /\ Len(s) \in Nat
    BY EntryFacts
  <1>2. PICK f : f = [x \in 1 .. Len(s) |-> s[x].doc]
    OBVIOUS
  <1>3. f \in Surjection(1 .. Len(s), DocsIn(s))
    BY <1>1, <1>2 DEF Surjection, DocsIn
  <1>4. IsFiniteSet(1 .. Len(s)) /\ Cardinality(1 .. Len(s)) = Len(s)
    <2>1. 1 \in Int /\ Len(s) \in Int /\ (IF 1 > Len(s) THEN 0 ELSE Len(s) - 1 + 1) = Len(s)
      BY <1>1
    <2> QED
      BY <2>1, FS_Interval
  <1>5. f \in Injection(1 .. Len(s), DocsIn(s))
    BY <1>3, <1>4, FS_Surjection
  <1> QED
    BY <1>1, <1>2, <1>5 DEF OneEach, Injection, IsInjective

\* The accumulators in use are no more than there are.
LEMMA UsedFew ==
  ASSUME Types
  PROVE  InUse \in 0 .. Len(acc)
  <1>1. acc \in Seq(Entry) /\ DOMAIN acc = 1 .. Len(acc) /\ Len(acc) \in Nat
    BY EntryFacts DEF Types
  <1>2. IsFiniteSet(1 .. Len(acc)) /\ Cardinality(1 .. Len(acc)) = Len(acc)
    <2>1. 1 \in Int /\ Len(acc) \in Int /\ (IF 1 > Len(acc) THEN 0 ELSE Len(acc) - 1 + 1) = Len(acc)
      BY <1>1
    <2> QED
      BY <2>1, FS_Interval
  <1>3. PICK S : S = {x \in DOMAIN acc : acc[x].sum # 0}
    OBVIOUS
  <1>4. S \in SUBSET (1 .. Len(acc))
    BY <1>1, <1>3
  <1>5. IsFiniteSet(S) /\ Cardinality(S) \in Nat /\ Cardinality(S) <= Len(acc)
    BY <1>2, <1>4, FS_Subset, FS_CardinalityType
  <1> QED
    BY <1>1, <1>3, <1>5 DEF InUse

\* Rank and weight are the same number.
LEMMA RankIs ==
  ASSUME IInv, RInv, asked.m > 0, OneEach(acc), NEW z \in 1 .. Len(acc)
  PROVE  RankOf(acc[z].doc) = WeightsFor(acc, asked.g.approx, asked.g.exact, asked.exact)[z]
  <1>1. /\ Types /\ Tables /\ Multiples /\ HashSorted
        /\ stage = "added" /\ asked.g \in Weighings /\ asked.exact \in BOOLEAN
    BY DEF IInv, RInv, Answered
  <1>2. acc \in Seq(Entry) /\ sup \in Seq(Entry) /\ sup = <<>> /\ z \in DOMAIN acc /\ Len(acc) \in Nat
    BY <1>1, EntryFacts DEF Types, Tables, HashSorted
  <1>3. PICK d : d = acc[z].doc /\ d \in Docs /\ d \in DocsIn(acc)
    BY <1>2, EntryFacts
  <1>4. PICK sum \in Nat : sum = acc[z].sum
    BY <1>2, EntryFacts
  <1>5. acc \o sup = acc
    BY <1>2, ConcatFacts
  <1>6. Kept(d) = sum
    BY <1>2, <1>3, <1>4, <1>5, SumOne DEF Kept
  <1>7. Kept(d) = total[d]
    <2>1. SumsExact
      BY SumsHold
    <2> QED
      BY <1>1, <1>3, <1>5, <2>1 DEF SumsExact
  <1>8. PICK a, b : a = asked.g.approx[d] /\ b = asked.g.exact[d] /\ a \in Nat \ {0} /\ b \in Nat \ {0}
                    /\ Weighable(asked.g.approx, asked.g.exact)
    BY <1>1, <1>3, WeighingIs
  <1>9. sum % a = 0
    BY <1>1, <1>3, <1>6, <1>7, <1>8 DEF Multiples
  <1>10. PICK w : w = sum \div a
    OBVIOUS
  <1>11. w * a = sum
    <2>1. w \in Nat /\ sum = a * w + 0
      <3>1. a \in Nat \ {0} /\ sum \in Nat
        BY <1>4, <1>8
      <3>2. /\ sum \div a \in Nat
            /\ sum = a * (sum \div a) + (sum % a)
        BY <3>1, Divided, Zenon
      <3> QED
        BY <1>9, <1>10, <3>2, Zenon
    <2>2. a * w \in Nat /\ a * w = w * a
      BY <1>8, <2>1, SMT
    <2> QED
      BY <2>1, <2>2
  <1>12. ApproxWeights(acc, asked.g.approx)[z] = w
    BY <1>2, <1>3, <1>4, <1>8, <1>10, WeightsAre
  <1>13. ExactWeights(acc, asked.g.approx, asked.g.exact)[z] = sum \div b
    <2>1. ExactWeights(acc, asked.g.approx, asked.g.exact)[z] = Exactly1(w, d, asked.g.approx, asked.g.exact)
      BY <1>2, <1>3, <1>8, <1>12, WeightsAre
    <2>2. Exactly1(w, d, asked.g.approx, asked.g.exact) = (w * a) \div b
      BY <1>8 DEF Exactly1
    <2> QED
      BY <1>11, <2>1, <2>2
  <1>14. RankOf(d) = IF asked.exact THEN sum \div b ELSE w
    BY <1>6, <1>8, <1>10 DEF RankOf
  <1> QED
    BY <1>3, <1>12, <1>13, <1>14 DEF WeightsFor

\* What has been answered is best.
LEMMA AnswersHold == IInv /\ RInv => BestAnswers
  <1> SUFFICES ASSUME IInv, RInv, asked.m > 0, Cardinality(DocsIn(acc)) = Len(acc)
               PROVE  /\ Len(answers) = Wanted
                      /\ \A x, y \in DOMAIN answers : x < y => /\ answers[x].w >= answers[y].w
                                                               /\ answers[x].doc # answers[y].doc
                      /\ \A x \in DOMAIN answers : answers[x].w = RankOf(answers[x].doc)
                      /\ answers # <<>> =>
                           \A d \in DocsIn(acc) \ DocsIn(answers) : RankOf(d) <= answers[Len(answers)].w
    BY DEF BestAnswers, Wanted
  <1>1. /\ Types /\ asked.m \in Nat /\ asked.g \in Weighings /\ asked.exact \in BOOLEAN
        /\ answers = CosineGet(acc, Wanted, asked.g.approx, asked.g.exact, asked.exact, query.method = "A")
    BY DEF RInv, Answered
  <1>2. acc \in Seq(Entry) /\ OneEach(acc) /\ DOMAIN acc = 1 .. Len(acc) /\ Len(acc) \in Nat
    BY <1>1, CountedOnce, EntryFacts DEF Types
  <1>3. PICK m : m = Wanted
    OBVIOUS
  <1>4. m \in 0 .. Len(acc) /\ m \in Nat
    BY <1>1, <1>2, <1>3, UsedFew DEF Wanted
  <1>5. PICK wt : wt = WeightsFor(acc, asked.g.approx, asked.g.exact, asked.exact)
    OBVIOUS
  <1>6. BestOf(answers, acc, wt, m)
    <2>1. Weighable(asked.g.approx, asked.g.exact)
      BY <1>1, WeighingIs
    <2> QED
      BY <1>1, <1>2, <1>3, <1>4, <1>5, <2>1, CosineGetIs
  <1>7. \A z \in 1 .. Len(acc) : RankOf(acc[z].doc) = wt[z]
    BY <1>2, <1>5, RankIs
  <1>8. Len(answers) = m /\ DOMAIN answers = 1 .. m
    BY <1>6, LenProperties DEF BestOf
  <1>9. \A x \in 1 .. m : answers[x].w = RankOf(answers[x].doc)
    <2> TAKE x \in 1 .. m
    <2>1. PICK z \in 1 .. Len(acc) : answers[x].doc = acc[z].doc /\ answers[x].w = wt[z]
      BY <1>6 DEF BestOf
    <2> QED
      BY <1>7, <2>1
  <1>10. ASSUME answers # <<>>, NEW d \in DocsIn(acc) \ DocsIn(answers)
         PROVE  RankOf(d) <= answers[Len(answers)].w
    <2>1. m > 0
      <3> SUFFICES ASSUME m = 0 PROVE FALSE
        BY <1>4
      <3>1. answers \in Seq(Answer) /\ Len(answers) = 0
        BY <1>6, <1>8 DEF BestOf
      <3> QED
        BY <1>10, <3>1, EmptySeq
    <2>2. PICK z \in 1 .. Len(acc) : d = acc[z].doc
      BY <1>2 DEF DocsIn
    <2>3. ~(\E x \in 1 .. m : answers[x].doc = acc[z].doc)
      BY <1>8, <2>2 DEF DocsIn
    <2> QED
      BY <1>6, <1>7, <1>8, <2>1, <2>2, <2>3 DEF BestOf
  <1>11. \A x, y \in 1 .. m : x < y => answers[x].w >= answers[y].w /\ answers[x].doc # answers[y].doc
    BY <1>6 DEF BestOf
  <1> QED
    BY <1>3, <1>8, <1>9, <1>10, <1>11

\* Where each document has one accumulator CosineGet answers with the best documents:
\* as many as asked for or found, each once, with its rank, best first, and no other
\* document ranks above the last.  Its heap, filled by approximate weights that are too
\* low and then by exact ones, leaves out none of them, whatever the weights and limits.
THEOREM AnswersAlwaysBest == SpecQuery => []BestAnswers
  <1>1. IInv => Types
    BY DEF IInv
  <1>2. InitQuery /\ IInv => RInv
    BY <1>1, AnsweredInit
  <1>3. RInv /\ IInv' /\ [NextQuery]_allvars => RInv'
    <2>1. IInv' => Types'
      BY DEF IInv
    <2> QED
      BY <2>1, AnsweredStep
  <1>4. SpecQuery => []IInv
    BY QueryAccumulates, Accumulating, PTL
  <1>5. SpecQuery => []RInv
    BY <1>2, <1>3, <1>4, PTL DEF SpecQuery
  <1> QED
    BY <1>4, <1>5, AnswersHold, PTL

=============================================================================
