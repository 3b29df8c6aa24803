------------------------ MODULE InvertedMerge_proofs ------------------------
(***************************************************************************)
(* mg_invf_merge, for any words and documents, any number of merges, fast  *)
(* and slow in any order: the merged dictionary counts what all documents  *)
(* hold, every entry decodes to the documents an index built of them all   *)
(* would list, and no file is read past its end or out of step with its    *)
(* index.                                                                  *)
(*                                                                         *)
(* An inverted file of some documents is described by where the entries    *)
(* of their words lie in it (Placed), whoever wrote it and by whichever    *)
(* parameter; a merge is described by how far it is in the words of both   *)
(* files, and what it has put out is the first entries of such a file.     *)
(***************************************************************************)
EXTENDS InvertedMerge, ArithmeticTheorems, SequenceTheorems

----------------------------------------------------------------------------
(* Sets of numbers in order.                                               *)

\* s has the members of S, each once and in order.
Ordered(s, S) ==
  /\ s \in Seq(S)
  /\ \A x, y \in 1 .. Len(s) : x < y => s[x] < s[y]
  /\ \A d \in S : \E x \in 1 .. Len(s) : s[x] = d

\* How many members of a set come before one.
Before(S, d) == Cardinality({e \in S : e < d})

\* A sequence's parts.
LEMMA SeqFacts ==
  ASSUME NEW S, NEW s \in Seq(S)
  PROVE  /\ Len(s) \in Nat /\ DOMAIN s = 1 .. Len(s) /\ s = [i \in 1 .. Len(s) |-> s[i]]
         /\ \A i \in 1 .. Len(s) : s[i] \in S
  BY SMT

\* What functions on 1 .. n are.
LEMMA FunctionIsSeq ==
  ASSUME NEW n \in Nat, NEW S, NEW f \in [1 .. n -> S]
  PROVE  f \in Seq(S) /\ Len(f) = n /\ DOMAIN f = 1 .. n
  BY SMT

\* Members before one: fewer than there are, and more for each later member.
LEMMA BeforeFacts ==
  ASSUME NEW S \in SUBSET Nat, IsFiniteSet(S)
  PROVE  /\ Cardinality(S) \in Nat
         /\ \A d \in S : Before(S, d) \in 0 .. Cardinality(S) - 1
         /\ \A d, e \in S : d < e => Before(S, d) < Before(S, e)
  <1>1. Cardinality(S) \in Nat
    BY FS_CardinalityType
  <1>2. ASSUME NEW T \in SUBSET S, NEW U \in SUBSET S, T \subseteq U, NEW d \in U, d \notin T
        PROVE  Cardinality(T) \in Nat /\ Cardinality(U) \in Nat /\ Cardinality(T) < Cardinality(U)
    <2>1. IsFiniteSet(U) /\ IsFiniteSet(T) /\ Cardinality(T) \in Nat /\ Cardinality(U) \in Nat
      BY FS_Subset, FS_CardinalityType
    <2>2. Cardinality(T) <= Cardinality(U) /\ (Cardinality(T) = Cardinality(U) => U = T)
      BY <1>2, <2>1, FS_Subset
    <2> QED
      BY <1>2, <2>1, <2>2
  <1>3. ASSUME NEW d \in S PROVE Before(S, d) \in 0 .. Cardinality(S) - 1
    <2>1. PICK T : T = {e \in S : e < d}
      OBVIOUS
    <2>2. T \in SUBSET S /\ d \notin T /\ S \in SUBSET S /\ T \subseteq S
      BY <2>1
    <2>3. Cardinality(T) \in Nat /\ Cardinality(T) < Cardinality(S)
      BY <1>2, <2>2
    <2>4. Before(S, d) = Cardinality(T)
      BY <2>1 DEF Before
    <2> QED
      BY <1>1, <2>3, <2>4
  <1>4. ASSUME NEW d \in S, NEW e \in S, d < e PROVE Before(S, d) < Before(S, e)
    <2>1. PICK T : T = {a \in S : a < d}
      OBVIOUS
    <2>2. PICK U : U = {a \in S : a < e}
      OBVIOUS
    <2>3. T \in SUBSET S /\ U \in SUBSET S
      BY <2>1, <2>2
    <2>4. T \subseteq U /\ d \in U /\ d \notin T
      <3>1. d \in Nat /\ e \in Nat
        OBVIOUS
      <3>2. \A a \in Nat : a < d => a < e
        BY <1>4, <3>1
      <3>3. ~(d < d)
        BY <3>1
      <3> QED
        BY <1>4, <2>1, <2>2, <3>2, <3>3
    <2>5. Cardinality(T) < Cardinality(U)
      BY <1>2, <2>3, <2>4
    <2> QED
      BY <2>1, <2>2, <2>5 DEF Before
  <1> QED
    BY <1>1, <1>3, <1>4

\* InOrder puts a set in order.
LEMMA InOrderIs ==
  ASSUME NEW S \in SUBSET Nat, IsFiniteSet(S)
  PROVE  Ordered(InOrder(S), S) /\ Len(InOrder(S)) = Cardinality(S) /\ Cardinality(S) \in Nat
  <1>1. PICK n \in Nat : n = Cardinality(S)
    BY FS_CardinalityType
  <1>2. PICK f : f = [d \in S |-> Before(S, d)]
    OBVIOUS
  <1>3. f \in [S -> 0 .. n - 1] /\ \A d \in S : f[d] = Before(S, d)
    BY <1>1, <1>2, BeforeFacts
  <1>4. \A d, e \in S : f[d] = f[e] => d = e
    <2>1. \A d, e \in S : d < e => Before(S, d) < Before(S, e)
      BY BeforeFacts
    <2>2. SUFFICES ASSUME NEW d \in S, NEW e \in S, f[d] = f[e] PROVE d = e
      OBVIOUS
    <2>3. Before(S, d) = Before(S, e) /\ Before(S, d) \in Int /\ d \in Nat /\ e \in Nat
      BY <1>3, <2>2, BeforeFacts
    <2>4. ~(d < e) /\ ~(e < d)
      BY <2>1, <2>3
    <2> QED
      BY <2>3, <2>4
  <1>5. f \in Injection(S, 0 .. n - 1)
    BY <1>3, <1>4 DEF Injection, IsInjective
  <1>6. IsFiniteSet(0 .. n - 1) /\ Cardinality(0 .. n - 1) = n
    <2>1. 0 \in Int /\ n - 1 \in Int /\ (IF 0 > n - 1 THEN 0 ELSE (n - 1) - 0 + 1) = n
      OBVIOUS
    <2> QED
      BY <2>1, FS_Interval
  <1>7. f \in Surjection(S, 0 .. n - 1)
    BY <1>1, <1>5, <1>6, FS_Injection
  <1>8. \A x \in 1 .. n : \E d \in S : Before(S, d) = x - 1
    <2> SUFFICES ASSUME NEW x \in 1 .. n PROVE \E d \in S : Before(S, d) = x - 1
      OBVIOUS
    <2>1. x - 1 \in 0 .. n - 1
      OBVIOUS
    <2> QED
      BY <1>3, <1>7, <2>1 DEF Surjection
  <1>9. InOrder(S) = [x \in 1 .. n |-> CHOOSE d \in S : Before(S, d) = x - 1]
    BY <1>1 DEF InOrder, Before
  <1>10. \A x \in 1 .. n : InOrder(S)[x] \in S /\ Before(S, InOrder(S)[x]) = x - 1
    BY <1>8, <1>9
  <1>11. InOrder(S) \in Seq(S) /\ Len(InOrder(S)) = n
    <2>1. InOrder(S) \in [1 .. n -> S]
      BY <1>9, <1>10
    <2> QED
      BY <2>1
  <1>12. ASSUME NEW x \in 1 .. n, NEW y \in 1 .. n, x < y
         PROVE  InOrder(S)[x] < InOrder(S)[y]
    <2>1. PICK d \in S : d = InOrder(S)[x]
      BY <1>10
    <2>2. PICK e \in S : e = InOrder(S)[y]
      BY <1>10
    <2>3. Before(S, d) < Before(S, e)
      BY <1>10, <1>12, <2>1, <2>2
    <2>4. d # e /\ ~(e < d)
      <3>1. e < d => Before(S, e) < Before(S, d)
        BY BeforeFacts
      <3>2. Before(S, d) \in Int /\ Before(S, e) \in Int
        BY BeforeFacts
      <3> QED
        BY <2>3, <3>1, <3>2
    <2>5. d \in Nat /\ e \in Nat
      OBVIOUS
    <2> QED
      BY <2>1, <2>2, <2>4, <2>5
  <1>13. ASSUME NEW d \in S PROVE \E x \in 1 .. n : InOrder(S)[x] = d
    <2>1. PICK x : x = Before(S, d) + 1
      OBVIOUS
    <2>2. x \in 1 .. n /\ x - 1 = Before(S, d)
      BY <1>1, <2>1, BeforeFacts
    <2>3. PICK e \in S : e = InOrder(S)[x] /\ Before(S, e) = x - 1
      BY <1>10, <2>2
    <2>4. e = d
      BY <1>3, <1>4, <2>2, <2>3
    <2> QED
      BY <2>2, <2>3, <2>4
  <1> QED
    BY <1>1, <1>11, <1>12, <1>13 DEF Ordered

\* The members before the i-th of a set in order.
LEMMA OrderedBefore ==
  ASSUME NEW S \in SUBSET Nat, NEW s, Ordered(s, S), NEW i \in 1 .. Len(s)
  PROVE  /\ IsFiniteSet(S) /\ Cardinality(S) = Len(s)
         /\ Before(S, s[i]) = i - 1
         /\ Cardinality({e \in S : e <= s[i]}) = i
  <1>1. Len(s) \in Nat /\ i \in Nat /\ \A x \in 1 .. Len(s) : s[x] \in S /\ s[x] \in Nat
    <2>1. s \in Seq(S)
      BY DEF Ordered
    <2> QED
      BY <2>1, SeqFacts
  <1>2. ASSUME NEW n \in 0 .. Len(s), NEW T, T = {s[x] : x \in 1 .. n}
        PROVE  IsFiniteSet(T) /\ Cardinality(T) = n
    <2>1. PICK f : f = [x \in 1 .. n |-> s[x]]
      OBVIOUS
    <2>2. \A x \in 1 .. n : f[x] = s[x] /\ x \in 1 .. Len(s)
      BY <1>1, <2>1
    <2>3. \A x, y \in 1 .. n : f[x] = f[y] => x = y
      <3> SUFFICES ASSUME NEW x \in 1 .. n, NEW y \in 1 .. n, x # y PROVE f[x] # f[y]
        OBVIOUS
      <3>1. x < y \/ y < x
        OBVIOUS
      <3>2. /\ x \in 1 .. Len(s) /\ y \in 1 .. Len(s) /\ f[x] = s[x] /\ f[y] = s[y]
            /\ s[x] \in Nat /\ s[y] \in Nat
        BY <1>1, <2>2
      <3> QED
        BY <3>1, <3>2 DEF Ordered
    <2>4. f \in Bijection(1 .. n, T)
      <3>1. f \in [1 .. n -> T]
        BY <1>2, <2>1
      <3>2. \A d \in T : \E x \in 1 .. n : f[x] = d
        BY <1>2, <2>2
      <3> QED
        BY <2>3, <3>1, <3>2 DEF Bijection, Injection, Surjection, IsInjective
    <2>5. IsFiniteSet(1 .. n) /\ Cardinality(1 .. n) = n
      <3>1. 1 \in Int /\ n \in Int /\ (IF 1 > n THEN 0 ELSE n - 1 + 1) = n
        OBVIOUS
      <3> QED
        BY <3>1, FS_Interval
    <2> QED
      BY <2>4, <2>5, FS_Bijection DEF ExistsBijection
  <1>3. S = {s[x] : x \in 1 .. Len(s)}
    BY <1>1 DEF Ordered
  <1>4. IsFiniteSet(S) /\ Cardinality(S) = Len(s)
    <2>1. Len(s) \in 0 .. Len(s)
      BY <1>1
    <2> QED
      BY <1>2, <1>3, <2>1
  <1>5. \A x \in 1 .. Len(s) : (s[x] < s[i] <=> x < i) /\ (s[x] <= s[i] <=> x <= i)
    <2> SUFFICES ASSUME NEW x \in 1 .. Len(s)
                 PROVE  (s[x] < s[i] <=> x < i) /\ (s[x] <= s[i] <=> x <= i)
      OBVIOUS
    <2>1. (x < i => s[x] < s[i]) /\ (i < x => s[i] < s[x]) /\ (x = i => s[x] = s[i])
      BY DEF Ordered
    <2>2. s[x] \in Nat /\ s[i] \in Nat /\ x \in Nat
      BY <1>1
    <2> QED
      BY <1>1, <2>1, <2>2
  <1>6. {e \in S : e < s[i]} = {s[x] : x \in 1 .. i - 1}
    <2>1. {e \in S : e < s[i]} = {s[x] : x \in {y \in 1 .. Len(s) : s[y] < s[i]}}
      BY <1>3
    <2>2. {y \in 1 .. Len(s) : s[y] < s[i]} = 1 .. i - 1
      BY <1>1, <1>5
    <2> QED
      BY <2>1, <2>2
  <1>7. {e \in S : e <= s[i]} = {s[x] : x \in 1 .. i}
    <2>1. {e \in S : e <= s[i]} = {s[x] : x \in {y \in 1 .. Len(s) : s[y] <= s[i]}}
      BY <1>3
    <2>2. {y \in 1 .. Len(s) : s[y] <= s[i]} = 1 .. i
      BY <1>1, <1>5
    <2> QED
      BY <2>1, <2>2
  <1>8. i - 1 \in 0 .. Len(s) /\ i \in 0 .. Len(s)
    BY <1>1
  <1> QED
    BY <1>2, <1>4, <1>6, <1>7, <1>8 DEF Before

\* There is one order.
LEMMA OrderUnique ==
  ASSUME NEW S \in SUBSET Nat, NEW s, Ordered(s, S)
  PROVE  IsFiniteSet(S) /\ Cardinality(S) = Len(s) /\ InOrder(S) = s
  <1>1. Len(s) \in Nat /\ s = [x \in 1 .. Len(s) |-> s[x]] /\ \A x \in 1 .. Len(s) : s[x] \in S
    BY SeqFacts DEF Ordered
  <1>2. IsFiniteSet(S) /\ Cardinality(S) = Len(s)
    <2>1. CASE S = {}
      <3>1. Len(s) = 0
        BY <1>1, <2>1
      <3> QED
        BY <2>1, <3>1, FS_EmptySet
    <2>2. CASE S # {}
      <3>1. \E i \in 1 .. Len(s) : TRUE
        BY <2>2 DEF Ordered
      <3> QED
        BY <3>1, OrderedBefore
    <2> QED
      BY <2>1, <2>2
  <1>3. InOrder(S) = [x \in 1 .. Len(s) |-> CHOOSE d \in S : Before(S, d) = x - 1]
    BY <1>2 DEF InOrder, Before
  <1>4. ASSUME NEW x \in 1 .. Len(s) PROVE (CHOOSE d \in S : Before(S, d) = x - 1) = s[x]
    <2>1. s[x] \in S /\ Before(S, s[x]) = x - 1
      BY <1>1, OrderedBefore
    <2>2. ASSUME NEW d \in S, Before(S, d) = x - 1 PROVE d = s[x]
      <3>1. PICK y \in 1 .. Len(s) : s[y] = d
        BY DEF Ordered
      <3>2. Before(S, d) = y - 1
        BY <3>1, OrderedBefore
      <3>3. x = y
        BY <1>1, <2>2, <3>2
      <3> QED
        BY <3>1, <3>3
    <2> QED
      BY <2>1, <2>2
  <1>5. [x \in 1 .. Len(s) |-> CHOOSE d \in S : Before(S, d) = x - 1] = [x \in 1 .. Len(s) |-> s[x]]
    BY <1>4
  <1> QED
    BY <1>1, <1>2, <1>3, <1>5

\* InvertedIndex counts as this module does.
LEMMA CardinalitySame ==
  ASSUME NEW lv, NEW S
  PROVE  Index(lv)!Cardinality(S) = Cardinality(S)
  BY DEF Index!Cardinality, Cardinality

\* The documents of a text that hold a word.
Holding(t, w) == {n \in DOMAIN t : t[n][w] > 0}

\* How often a document holds a word, at levels that have counts.
TfAt(lv, t, d, w) == IF lv = 1 THEN 0 ELSE t[d][w]

\* p lists the documents s.
Listed(p, s, lv, t, w) ==
  /\ p = [i \in 1 .. Len(s) |-> p[i]]
  /\ \A i \in 1 .. Len(s) : p[i] = [doc |-> s[i], tf |-> TfAt(lv, t, s[i], w)]

\* What InvertedIndex lists, by the documents in order.
LEMMA PostingsAre ==
  ASSUME NEW lv, NEW t, DOMAIN t \subseteq Nat, NEW w, NEW s, Ordered(s, Holding(t, w))
  PROVE  Listed(Index(lv)!Postings(t, w), s, lv, t, w)
  <1>1. PICK S : S = {n \in DOMAIN t : t[n][w] > 0} /\ S = Holding(t, w)
    BY DEF Holding
  <1>2. PICK nth : nth = [i \in 1 .. Len(s) |->
                            CHOOSE n \in S : Index(lv)!Cardinality({m \in S : m <= n}) = i]
    OBVIOUS
  <1>3. S \in SUBSET Nat /\ Ordered(s, S)
    BY <1>1
  <1>4. Index(lv)!Cardinality(S) = Len(s)
    BY <1>3, OrderUnique, CardinalitySame
  <1>5. Index(lv)!Postings(t, w)
        = [i \in 1 .. Len(s) |-> [doc |-> nth[i], tf |-> TfAt(lv, t, nth[i], w)]]
    <2> DEFINE H == {n \in DOMAIN t : t[n][w] > 0}
               Nth(i) == CHOOSE n \in H : Index(lv)!Cardinality({m \in H : m <= n}) = i
    <2>1. Index(lv)!Postings(t, w)
          = [i \in 1 .. Index(lv)!Cardinality(H) |->
               [doc |-> Nth(i), tf |-> TfAt(lv, t, Nth(i), w)]]
      BY DEF Index!Postings, TfAt
    <2>2. H = S
      BY <1>1
    <2>3. ASSUME NEW i \in 1 .. Len(s) PROVE Nth(i) = nth[i]
      <3>1. nth[i] = CHOOSE n \in S : Index(lv)!Cardinality({m \in S : m <= n}) = i
        BY <1>2
      <3>2. Nth(i) = CHOOSE n \in H : Index(lv)!Cardinality({m \in H : m <= n}) = i
        OBVIOUS
      <3> HIDE DEF H, Nth
      <3> QED
        BY <2>2, <3>1, <3>2
    <2>4. Index(lv)!Cardinality(H) = Len(s)
      BY <1>4, <2>2
    <2> HIDE DEF H, Nth
    <2> QED
      BY <2>1, <2>3, <2>4
  <1>6. ASSUME NEW i \in 1 .. Len(s) PROVE nth[i] = s[i]
    <2>1. nth[i] = CHOOSE n \in S : Index(lv)!Cardinality({m \in S : m <= n}) = i
      BY <1>2
    <2>2. s[i] \in S /\ Index(lv)!Cardinality({m \in S : m <= s[i]}) = i
      BY <1>3, OrderedBefore, CardinalitySame, SeqFacts DEF Ordered
    <2>3. ASSUME NEW n \in S, Index(lv)!Cardinality({m \in S : m <= n}) = i PROVE n = s[i]
      <3>1. PICK y \in 1 .. Len(s) : s[y] = n
        BY <1>3 DEF Ordered
      <3>2. Index(lv)!Cardinality({m \in S : m <= n}) = y
        <4>1. Cardinality({m \in S : m <= s[y]}) = y
          BY <1>3, OrderedBefore
        <4>2. PICK T : T = {m \in S : m <= s[y]} /\ T = {m \in S : m <= n}
          BY <3>1
        <4> QED
          BY <4>1, <4>2, CardinalitySame
      <3> QED
        BY <2>3, <3>1, <3>2
    <2> QED
      BY <2>1, <2>2, <2>3
  <1> QED
    BY <1>5, <1>6 DEF Listed

\* Later members come behind.
LEMMA OrderedJoined ==
  ASSUME NEW S \in SUBSET Nat, NEW s, Ordered(s, S), NEW T \in SUBSET Nat, NEW t, Ordered(t, T),
         \A d \in S, e \in T : d < e
  PROVE  Ordered(s \o t, S \cup T) /\ Len(s \o t) = Len(s) + Len(t)
  <1>1. PICK m \in Nat : m = Len(s) /\ \A x \in 1 .. m : s[x] \in S
    BY SeqFacts DEF Ordered
  <1>2. PICK n \in Nat : n = Len(t) /\ \A x \in 1 .. n : t[x] \in T
    BY SeqFacts DEF Ordered
  <1>3. s \in Seq(S \cup T) /\ t \in Seq(S \cup T)
    BY SeqMonotonic DEF Ordered
  <1>4. PICK u : u = s \o t
    OBVIOUS
  <1>5. /\ u \in Seq(S \cup T) /\ Len(u) = m + n
        /\ \A i \in 1 .. m + n : u[i] = IF i <= m THEN s[i] ELSE t[i - m]
    BY <1>1, <1>2, <1>3, <1>4, ConcatProperties
  <1>6. ASSUME NEW x \in 1 .. m + n, NEW y \in 1 .. m + n, x < y PROVE u[x] < u[y]
    <2>1. CASE y <= m
      <3>1. u[x] = s[x] /\ u[y] = s[y] /\ x \in 1 .. m /\ y \in 1 .. m
        BY <1>5, <1>6, <2>1
      <3> QED
        BY <1>1, <1>6, <3>1 DEF Ordered
    <2>2. CASE x <= m /\ y > m
      <3>1. u[x] = s[x] /\ u[y] = t[y - m] /\ x \in 1 .. m /\ y - m \in 1 .. n
        BY <1>5, <1>6, <2>2
      <3> QED
        BY <1>1, <1>2, <3>1
    <2>3. CASE x > m
      <3>1. u[x] = t[x - m] /\ u[y] = t[y - m] /\ x - m \in 1 .. n /\ y - m \in 1 .. n /\ x - m < y - m
        BY <1>5, <1>6, <2>3
      <3> QED
        BY <1>2, <3>1 DEF Ordered
    <2> QED
      BY <2>1, <2>2, <2>3
  <1>7. ASSUME NEW d \in S \cup T PROVE \E x \in 1 .. m + n : u[x] = d
    <2>1. CASE d \in S
      <3>1. PICK x \in 1 .. m : s[x] = d
        BY <1>1, <2>1 DEF Ordered
      <3> QED
        BY <1>5, <3>1
    <2>2. CASE d \in T
      <3>1. PICK x \in 1 .. n : t[x] = d
        BY <1>2, <2>2 DEF Ordered
      <3>2. x + m \in 1 .. m + n /\ ~(x + m <= m) /\ (x + m) - m = x
        BY <3>1
      <3> QED
        BY <1>5, <3>1, <3>2
    <2> QED
      BY <2>1, <2>2
  <1> QED
    BY <1>1, <1>2, <1>4, <1>5, <1>6, <1>7 DEF Ordered

\* A later member comes last.
LEMMA OrderedAppended ==
  ASSUME NEW S \in SUBSET Nat, NEW s, Ordered(s, S), NEW e \in Nat, \A d \in S : d < e
  PROVE  Ordered(Append(s, e), S \cup {e})
  <1>1. Ordered(<<e>>, {e})
    <2>1. <<e>> \in Seq({e}) /\ Len(<<e>>) = 1 /\ <<e>>[1] = e
      BY SMT
    <2> QED
      BY <2>1 DEF Ordered
  <1>2. s \o <<e>> = Append(s, e)
    <2>1. s \in Seq(S)
      BY DEF Ordered
    <2> QED
      BY <2>1, SMT
  <1>3. \A d \in S, f \in {e} : d < f
    OBVIOUS
  <1>4. {e} \in SUBSET Nat
    OBVIOUS
  <1>5. Ordered(s \o <<e>>, S \cup {e})
    BY <1>1, <1>3, <1>4, OrderedJoined, Zenon
  <1> QED
    BY <1>2, <1>5

\* Members moved up.
LEMMA OrderedShifted ==
  ASSUME NEW S \in SUBSET Nat, NEW s, Ordered(s, S), NEW k \in Nat,
         NEW t, t = [x \in 1 .. Len(s) |-> k + s[x]]
  PROVE  Ordered(t, {k + d : d \in S}) /\ Len(t) = Len(s)
  <1>1. PICK n \in Nat : n = Len(s) /\ \A x \in 1 .. n : s[x] \in S /\ s[x] \in Nat
    BY SeqFacts DEF Ordered
  <1>2. \A x \in 1 .. n : t[x] = k + s[x]
    BY <1>1
  <1>3. t \in Seq({k + d : d \in S}) /\ Len(t) = n
    <2>1. t \in [1 .. n -> {k + d : d \in S}]
      BY <1>1
    <2> QED
      BY <2>1, FunctionIsSeq
  <1>4. ASSUME NEW x \in 1 .. n, NEW y \in 1 .. n, x < y PROVE t[x] < t[y]
    <2>1. s[x] < s[y] /\ s[x] \in Nat /\ s[y] \in Nat
      BY <1>1, <1>4 DEF Ordered
    <2> QED
      BY <1>2, <2>1
  <1>5. ASSUME NEW d \in S PROVE \E x \in 1 .. n : t[x] = k + d
    BY <1>1, <1>2 DEF Ordered
  <1> QED
    BY <1>1, <1>3, <1>4, <1>5 DEF Ordered

----------------------------------------------------------------------------
(* Texts and what is listed of them.                                       *)

CountLimit == Shl(MaxLog) - 1

\* Documents and their words.
LEMMA TextFacts ==
  ASSUME NEW t \in Seq(Texts), NEW w \in Word
  PROVE  /\ DOMAIN t = 1 .. Len(t) /\ Len(t) \in Nat
         /\ \A d \in 1 .. Len(t) : t[d] \in Texts /\ t[d][w] \in 0 .. CountLimit
         /\ CountLimit \in Nat
         /\ Holding(t, w) \in SUBSET (1 .. Len(t)) /\ Holding(t, w) \in SUBSET Nat
         /\ IsFiniteSet(Holding(t, w))
  <1>1. DOMAIN t = 1 .. Len(t) /\ Len(t) \in Nat /\ \A d \in 1 .. Len(t) : t[d] \in Texts
    BY SeqFacts
  <1>2. CountLimit \in Nat
    <2>1. Shl(MaxLog) \in Nat \ {0}
      BY ShlType DEF MaxLog
    <2> QED
      BY <2>1 DEF CountLimit
  <1>3. ASSUME NEW d \in 1 .. Len(t) PROVE t[d][w] \in 0 .. CountLimit
    BY <1>1, InvertedMergeAssumption DEF CountLimit
  <1>4. Holding(t, w) \in SUBSET (1 .. Len(t)) /\ IsFiniteSet(1 .. Len(t))
    BY <1>1, FS_Interval DEF Holding
  <1>5. Holding(t, w) \in SUBSET Nat
    BY <1>1, <1>4
  <1> QED
    BY <1>1, <1>2, <1>3, <1>4, <1>5, FS_Subset

\* The documents that hold a word, in order.
HoldingList(t, w) == InOrder(Holding(t, w))

\* A posting of a level's list.
Tf(lv) == IF lv = 1 THEN {0} ELSE 1 .. CountLimit
Posting(lv) == [doc : Nat \ {0}, tf : Tf(lv)]

\* What is listed for a word.
ListedWell(p, s, lv, t, w) ==
  /\ Ordered(s, Holding(t, w)) /\ Len(s) = Record(t, w).fcnt /\ Len(s) \in 0 .. Len(t)
  /\ p \in Seq(Posting(lv)) /\ Len(p) = Len(s) /\ DOMAIN p = 1 .. Len(s)
  /\ \A i \in 1 .. Len(s) : /\ p[i] = [doc |-> s[i], tf |-> TfAt(lv, t, s[i], w)]
                            /\ p[i].doc = s[i] /\ s[i] \in 1 .. Len(t)
                            /\ p[i].tf = TfAt(lv, t, s[i], w)
                            /\ t[s[i]][w] \in 1 .. CountLimit
  /\ \A i, j \in 1 .. Len(s) : i < j => p[i].doc < p[j].doc

\* The list an index has for a word is of the documents that hold it, in order.
LEMMA ListedIs ==
  ASSUME NEW lv \in {1, 2}, NEW t \in Seq(Texts), NEW w \in Word
  PROVE  ListedWell(Index(lv)!Postings(t, w), HoldingList(t, w), lv, t, w)
  <1>a. PICK s : s = HoldingList(t, w)
    OBVIOUS
  <1>b. PICK p : p = Index(lv)!Postings(t, w)
    OBVIOUS
  <1>1. PICK S : S = Holding(t, w) /\ S \in SUBSET (1 .. Len(t)) /\ S \in SUBSET Nat /\ IsFiniteSet(S)
                 /\ Len(t) \in Nat /\ DOMAIN t = 1 .. Len(t)
    BY TextFacts
  <1>2. Ordered(s, S) /\ Len(s) = Cardinality(S) /\ Cardinality(S) \in Nat
    BY <1>a, <1>1, InOrderIs DEF HoldingList
  <1>3. Record(t, w).fcnt = Cardinality(S)
    BY <1>1 DEF Record, Holding
  <1>4. Cardinality(S) <= Len(t)
    <2>1. 1 \in Int /\ Len(t) \in Int /\ (IF 1 > Len(t) THEN 0 ELSE Len(t) - 1 + 1) = Len(t)
      BY <1>1
    <2>2. IsFiniteSet(1 .. Len(t)) /\ Cardinality(1 .. Len(t)) = Len(t)
      BY <2>1, FS_Interval
    <2> QED
      BY <1>1, <2>2, FS_Subset
  <1>5. /\ p = [i \in 1 .. Len(s) |-> p[i]]
        /\ \A i \in 1 .. Len(s) : p[i] = [doc |-> s[i], tf |-> TfAt(lv, t, s[i], w)]
    <2>1. DOMAIN t \subseteq Nat
      BY <1>1
    <2>2. Ordered(s, Holding(t, w))
      BY <1>1, <1>2
    <2>3. Listed(Index(lv)!Postings(t, w), s, lv, t, w)
      BY <2>1, <2>2, PostingsAre
    <2>4. Listed(p, s, lv, t, w)
      BY <1>b, <2>3
    <2> QED
      BY <2>4 DEF Listed
  <1>6. ASSUME NEW i \in 1 .. Len(s)
        PROVE  s[i] \in S /\ s[i] \in 1 .. Len(t) /\ s[i] \in Nat \ {0} /\ t[s[i]][w] \in 1 .. CountLimit
    <2>1. s[i] \in S
      BY <1>2, SeqFacts DEF Ordered
    <2>2. s[i] \in 1 .. Len(t) /\ t[s[i]][w] > 0
      BY <1>1, <2>1 DEF Holding
    <2>3. t[s[i]][w] \in 0 .. CountLimit /\ CountLimit \in Nat
      BY <2>2, TextFacts
    <2> QED
      BY <1>1, <2>1, <2>2, <2>3
  <1>7. p \in Seq(Posting(lv)) /\ Len(p) = Len(s) /\ DOMAIN p = 1 .. Len(s)
    <2>1. ASSUME NEW i \in 1 .. Len(s)
          PROVE  [doc |-> s[i], tf |-> TfAt(lv, t, s[i], w)] \in Posting(lv)
      <3>1. s[i] \in Nat \ {0} /\ TfAt(lv, t, s[i], w) \in Tf(lv)
        BY <1>6 DEF Tf, TfAt
      <3> QED
        BY <3>1 DEF Posting
    <2>2. p \in [1 .. Len(s) -> Posting(lv)]
      BY <1>5, <2>1
    <2> QED
      BY <1>2, <2>2, FunctionIsSeq
  <1>8. \A i \in 1 .. Len(s) : /\ p[i] = [doc |-> s[i], tf |-> TfAt(lv, t, s[i], w)]
                               /\ p[i].doc = s[i] /\ p[i].tf = TfAt(lv, t, s[i], w)
    BY <1>5
  <1> QED
    <2>1. \A i, j \in 1 .. Len(s) : i < j => p[i].doc < p[j].doc
      BY <1>2, <1>8 DEF Ordered
    <2>2. Len(s) \in 0 .. Len(t)
      BY <1>1, <1>2, <1>4
    <2> QED
      BY <1>a, <1>b, <1>1, <1>2, <1>3, <1>6, <1>7, <1>8, <2>1, <2>2 DEF ListedWell

\* Two texts one behind the other.
LEMMA TextsJoined ==
  ASSUME NEW t \in Seq(Texts), NEW u \in Seq(Texts), NEW w \in Word
  PROVE  /\ t \o u \in Seq(Texts) /\ Len(t \o u) = Len(t) + Len(u)
         /\ \A d \in 1 .. Len(t) + Len(u) : (t \o u)[d] = IF d <= Len(t) THEN t[d] ELSE u[d - Len(t)]
         /\ Holding(t \o u, w) = Holding(t, w) \cup {Len(t) + d : d \in Holding(u, w)}
         /\ Ordered(HoldingList(t, w) \o [x \in 1 .. Len(HoldingList(u, w)) |-> Len(t) + HoldingList(u, w)[x]],
                    Holding(t \o u, w))
  <1>1. PICK m \in Nat : m = Len(t) /\ DOMAIN t = 1 .. m
    BY SeqFacts
  <1>2. PICK n \in Nat : n = Len(u) /\ DOMAIN u = 1 .. n
    BY SeqFacts
  <1>3. PICK v : v = t \o u /\ v \in Seq(Texts) /\ Len(v) = m + n /\ DOMAIN v = 1 .. m + n
                 /\ \A d \in 1 .. m + n : v[d] = IF d <= m THEN t[d] ELSE u[d - m]
    <2>1. /\ t \o u \in Seq(Texts) /\ Len(t \o u) = m + n
          /\ \A d \in 1 .. m + n : (t \o u)[d] = IF d <= m THEN t[d] ELSE u[d - m]
      BY <1>1, <1>2, ConcatProperties
    <2>2. DOMAIN (t \o u) = 1 .. m + n
      BY <2>1, SeqFacts
    <2> QED
      BY <2>1, <2>2
  <1>4. Holding(v, w) \subseteq Holding(t, w) \cup {m + d : d \in Holding(u, w)}
    <2> SUFFICES ASSUME NEW d \in 1 .. m + n, v[d][w] > 0
                 PROVE  d \in Holding(t, w) \cup {m + e : e \in Holding(u, w)}
      BY <1>3 DEF Holding
    <2>1. CASE d <= m
      BY <1>1, <1>3, <2>1 DEF Holding
    <2>2. CASE d > m
      <3>1. d - m \in 1 .. n /\ u[d - m][w] > 0 /\ d = m + (d - m)
        BY <1>3, <2>2
      <3> QED
        BY <1>2, <3>1 DEF Holding
    <2> QED
      BY <2>1, <2>2
  <1>5. Holding(t, w) \subseteq Holding(v, w)
    <2> SUFFICES ASSUME NEW d \in 1 .. m, t[d][w] > 0 PROVE d \in Holding(v, w)
      BY <1>1 DEF Holding
    <2>1. d \in 1 .. m + n /\ v[d] = t[d]
      BY <1>3
    <2> QED
      BY <1>3, <2>1 DEF Holding
  <1>6. {m + d : d \in Holding(u, w)} \subseteq Holding(v, w)
    <2> SUFFICES ASSUME NEW d \in 1 .. n, u[d][w] > 0 PROVE m + d \in Holding(v, w)
      BY <1>2 DEF Holding
    <2>1. m + d \in 1 .. m + n /\ ~(m + d <= m) /\ (m + d) - m = d
      OBVIOUS
    <2>2. v[m + d] = u[d]
      BY <1>3, <2>1
    <2> QED
      BY <1>3, <2>1, <2>2 DEF Holding
  <1>7. Holding(v, w) = Holding(t, w) \cup {m + d : d \in Holding(u, w)}
    BY <1>4, <1>5, <1>6
  <1>8. /\ Holding(t, w) \in SUBSET (1 .. m) /\ Holding(u, w) \in SUBSET (1 .. n)
        /\ Ordered(HoldingList(t, w), Holding(t, w)) /\ Ordered(HoldingList(u, w), Holding(u, w))
    BY <1>1, <1>2, TextFacts, InOrderIs DEF HoldingList
  <1>9. Ordered([x \in 1 .. Len(HoldingList(u, w)) |-> m + HoldingList(u, w)[x]],
                {m + d : d \in Holding(u, w)})
    <2>1. Holding(u, w) \in SUBSET Nat
      BY <1>2, <1>8
    <2> QED
      BY <1>8, <2>1, OrderedShifted
  <1>10. \A d \in Holding(t, w), e \in {m + f : f \in Holding(u, w)} : d < e
    BY <1>8
  <1>11. Holding(t, w) \in SUBSET Nat /\ {m + d : d \in Holding(u, w)} \in SUBSET Nat
    BY <1>8
  <1>12. Ordered(HoldingList(t, w) \o [x \in 1 .. Len(HoldingList(u, w)) |-> m + HoldingList(u, w)[x]],
                 Holding(v, w))
    BY <1>7, <1>8, <1>9, <1>10, <1>11, OrderedJoined
  <1> QED
    BY <1>1, <1>2, <1>3, <1>7, <1>12

\* r is the postings p and, behind them, the postings q moved up by n documents.
JoinedWell(r, p, q, n) ==
  /\ Len(r) = Len(p) + Len(q) /\ Len(p) \in Nat /\ Len(q) \in Nat
  /\ \A i \in 1 .. Len(p) : r[i] = p[i]
  /\ \A i \in 1 .. Len(q) : /\ r[Len(p) + i] = [doc |-> n + q[i].doc, tf |-> q[i].tf]
                            /\ r[Len(p) + i].doc = n + q[i].doc /\ r[Len(p) + i].tf = q[i].tf

\* What is listed of two texts.
LEMMA PostingsJoined ==
  ASSUME NEW lv \in {1, 2}, NEW t \in Seq(Texts), NEW u \in Seq(Texts), NEW w \in Word
  PROVE  /\ JoinedWell(Index(lv)!Postings(t \o u, w), Index(lv)!Postings(t, w),
                       Index(lv)!Postings(u, w), Len(t))
         /\ Record(t \o u, w).fcnt = Record(t, w).fcnt + Record(u, w).fcnt
  <1>1. PICK a : a = HoldingList(t, w)
    OBVIOUS
  <1>2. PICK b : b = HoldingList(u, w)
    OBVIOUS
  <1>a. PICK p : p = Index(lv)!Postings(t, w)
    OBVIOUS
  <1>b. PICK q : q = Index(lv)!Postings(u, w)
    OBVIOUS
  <1>3. PICK v : v = t \o u
    OBVIOUS
  <1>z. /\ v \in Seq(Texts) /\ Len(v) = Len(t) + Len(u)
        /\ \A d \in 1 .. Len(t) + Len(u) : v[d] = IF d <= Len(t) THEN t[d] ELSE u[d - Len(t)]
    BY <1>3, TextsJoined
  <1>4. PICK c : c = HoldingList(v, w)
    OBVIOUS
  <1>c. PICK r : r = Index(lv)!Postings(v, w)
    OBVIOUS
  <1>d. ListedWell(p, a, lv, t, w) /\ ListedWell(q, b, lv, u, w) /\ ListedWell(r, c, lv, v, w)
    BY <1>1, <1>2, <1>a, <1>b, <1>z, <1>4, <1>c, ListedIs
  <1>e. Len(t) \in Nat /\ Len(u) \in Nat
    BY SeqFacts
  <1>5. PICK m \in Nat : m = Len(a)
    BY <1>d, <1>e DEF ListedWell
  <1>x. /\ m = Len(p) /\ m = Record(t, w).fcnt
        /\ \A i \in 1 .. m : /\ p[i] = [doc |-> a[i], tf |-> TfAt(lv, t, a[i], w)]
                             /\ a[i] \in 1 .. Len(t) /\ p[i].doc = a[i]
    BY <1>d, <1>5 DEF ListedWell
  <1>6. PICK n \in Nat : n = Len(b)
    BY <1>d, <1>e DEF ListedWell
  <1>y. /\ n = Len(q) /\ n = Record(u, w).fcnt
        /\ \A i \in 1 .. n : /\ q[i] = [doc |-> b[i], tf |-> TfAt(lv, u, b[i], w)]
                             /\ b[i] \in 1 .. Len(u) /\ q[i].doc = b[i]
                             /\ q[i].tf = TfAt(lv, u, b[i], w)
    BY <1>d, <1>6 DEF ListedWell
  <1>7. /\ Len(c) = Record(v, w).fcnt /\ Len(r) = Len(c)
        /\ \A i \in 1 .. Len(c) : r[i] = [doc |-> c[i], tf |-> TfAt(lv, v, c[i], w)]
    BY <1>d DEF ListedWell
  <1>8. PICK k \in Nat : k = Len(t) /\ Len(u) \in Nat
    BY SeqFacts
  <1>9. PICK e : e = [x \in 1 .. n |-> k + b[x]]
    OBVIOUS
  <1>10. c = a \o e
    <2>1. Ordered(a \o e, Holding(v, w))
      <3>1. e = [x \in 1 .. Len(HoldingList(u, w)) |-> Len(t) + HoldingList(u, w)[x]]
        BY <1>2, <1>6, <1>8, <1>9
      <3> QED
        BY <1>1, <1>3, <3>1, TextsJoined
    <2>2. Holding(v, w) \in SUBSET Nat
      BY <1>z, TextFacts
    <2> QED
      BY <1>4, <2>1, <2>2, OrderUnique DEF HoldingList
  <1>11. /\ Len(c) = m + n
         /\ \A i \in 1 .. m : c[i] = a[i]
         /\ \A i \in 1 .. n : c[m + i] = e[i]
    <2>1. a \in Seq(Nat)
      <3>1. Ordered(a, Holding(t, w)) /\ Holding(t, w) \in SUBSET Nat
        BY <1>d, TextFacts DEF ListedWell
      <3> QED
        BY <3>1, SeqMonotonic DEF Ordered
    <2>2. e \in Seq(Nat) /\ Len(e) = n
      <3>1. ASSUME NEW x \in 1 .. n PROVE k + b[x] \in Nat
        <4>1. b[x] \in 1 .. Len(u) /\ Len(u) \in Nat /\ k \in Nat
          BY <1>y, <1>8
        <4> QED
          BY <4>1
      <3>2. e \in [1 .. n -> Nat]
        BY <1>9, <3>1
      <3> QED
        BY <3>2, FunctionIsSeq
    <2>3. /\ Len(a \o e) = m + n
          /\ \A i \in 1 .. m + n : (a \o e)[i] = IF i <= m THEN a[i] ELSE e[i - m]
      BY <1>5, <2>1, <2>2, ConcatProperties
    <2>4. \A i \in 1 .. n : m + i \in 1 .. m + n /\ ~(m + i <= m) /\ (m + i) - m = i
      OBVIOUS
    <2>5. \A i \in 1 .. m : i \in 1 .. m + n /\ i <= m
      OBVIOUS
    <2> QED
      BY <1>10, <2>3, <2>4, <2>5
  <1>12. ASSUME NEW i \in 1 .. m PROVE r[i] = p[i]
    <2>1. r[i] = [doc |-> c[i], tf |-> TfAt(lv, v, c[i], w)]
      BY <1>7, <1>11
    <2>2. c[i] = a[i] /\ a[i] \in 1 .. k
      BY <1>x, <1>8, <1>11
    <2>3. v[a[i]] = t[a[i]]
      <3>1. a[i] \in 1 .. k + Len(u) /\ a[i] <= k
        BY <1>8, <2>2
      <3> QED
        BY <1>z, <1>8, <3>1
    <2>4. TfAt(lv, v, a[i], w) = TfAt(lv, t, a[i], w)
      BY <2>3 DEF TfAt
    <2> QED
      BY <1>x, <2>1, <2>2, <2>4
  <1>13. ASSUME NEW i \in 1 .. n
         PROVE  r[m + i] = [doc |-> k + q[i].doc, tf |-> q[i].tf]
    <2>1. m + i \in 1 .. m + n
      OBVIOUS
    <2>2. r[m + i] = [doc |-> c[m + i], tf |-> TfAt(lv, v, c[m + i], w)]
      BY <1>7, <1>11, <2>1
    <2>3. c[m + i] = k + b[i] /\ b[i] \in 1 .. Len(u) /\ q[i].doc = b[i]
      BY <1>y, <1>9, <1>11
    <2>4. v[k + b[i]] = u[b[i]]
      <3>1. k + b[i] \in 1 .. k + Len(u) /\ ~(k + b[i] <= k) /\ (k + b[i]) - k = b[i]
        BY <1>8, <2>3
      <3> QED
        BY <1>z, <1>8, <3>1
    <2>5. TfAt(lv, v, k + b[i], w) = TfAt(lv, u, b[i], w)
      BY <2>4 DEF TfAt
    <2> QED
      BY <1>y, <2>2, <2>3, <2>5
  <1>14. JoinedWell(r, p, q, k)
    <2>1. ASSUME NEW i \in 1 .. n PROVE r[m + i].doc = k + q[i].doc /\ r[m + i].tf = q[i].tf
      <3>1. r[m + i] = [doc |-> k + q[i].doc, tf |-> q[i].tf]
        BY <1>13
      <3> QED
        BY <3>1
    <2> QED
      BY <1>x, <1>y, <1>7, <1>11, <1>12, <1>13, <2>1 DEF JoinedWell
  <1>15. Record(v, w).fcnt = Record(t, w).fcnt + Record(u, w).fcnt
    BY <1>x, <1>y, <1>7, <1>11
  <1> QED
    BY <1>3, <1>a, <1>b, <1>c, <1>8, <1>14, <1>15

----------------------------------------------------------------------------
(* Gaps.                                                                   *)

Gap(lv) == [gap : Nat \ {0}, tf : Tf(lv)]

\* A list of postings, in order.
Listing(p, lv) == p \in Seq(Posting(lv)) /\ \A i, j \in 1 .. Len(p) : i < j => p[i].doc < p[j].doc

\* g is the gaps of the postings p, which they add up to.
GapsWell(g, p, lv) ==
  /\ g \in Seq(Gap(lv)) /\ Len(g) = Len(p) /\ Len(p) \in Nat /\ DOMAIN g = 1 .. Len(p)
  /\ \A i \in 1 .. Len(p) : /\ g[i] \in Gap(lv)
                            /\ g[i].gap = p[i].doc - (IF i = 1 THEN 0 ELSE p[i - 1].doc)
                            /\ g[i].tf = p[i].tf /\ p[i].doc \in Nat \ {0}
  /\ \A i \in 1 .. Len(p) : UpTo(g, i) = p[i].doc
  /\ LastOf(g) = IF Len(p) = 0 THEN 0 ELSE p[Len(p)].doc

\* Gaps lead to the documents they are made of.
LEMMA GapsAre ==
  ASSUME NEW lv, NEW p, Listing(p, lv)
  PROVE  GapsWell(Gaps(p), p, lv)
  <1>a. PICK g : g = Gaps(p)
    OBVIOUS
  <1>b. /\ Len(p) \in Nat /\ DOMAIN p = 1 .. Len(p) /\ \A i \in 1 .. Len(p) : p[i] \in Posting(lv)
    BY SeqFacts DEF Listing
  <1>c. \A x \in Posting(lv) : x.doc \in Nat \ {0} /\ x.tf \in Tf(lv)
    BY DEF Posting
  <1>1. PICK n \in Nat : n = Len(p)
    BY <1>b
  <1>d. DOMAIN p = 1 .. n /\ \A i \in 1 .. n : p[i] \in Posting(lv) /\ p[i].doc \in Nat \ {0} /\ p[i].tf \in Tf(lv)
    BY <1>b, <1>c, <1>1
  <1>2. \A i \in 1 .. n : /\ g[i] = [gap |-> p[i].doc - (IF i = 1 THEN 0 ELSE p[i - 1].doc), tf |-> p[i].tf]
                          /\ g[i].gap = p[i].doc - (IF i = 1 THEN 0 ELSE p[i - 1].doc)
                          /\ g[i].tf = p[i].tf
    BY <1>a, <1>d DEF Gaps
  <1>3. ASSUME NEW i \in 1 .. n PROVE g[i] \in Gap(lv)
    <2>1. p[i].doc - (IF i = 1 THEN 0 ELSE p[i - 1].doc) \in Nat \ {0}
      <3>1. CASE i = 1
        BY <1>d, <3>1
      <3>2. CASE i # 1
        <4>1. i - 1 \in 1 .. n /\ i - 1 < i
          BY <3>2
        <4>2. p[i - 1].doc < p[i].doc /\ p[i - 1].doc \in Nat /\ p[i].doc \in Nat
          BY <1>1, <1>d, <4>1 DEF Listing
        <4> QED
          BY <3>2, <4>2
      <3> QED
        BY <3>1, <3>2
    <2> QED
      <3>1. PICK x \in Nat \ {0} : x = p[i].doc - (IF i = 1 THEN 0 ELSE p[i - 1].doc)
        BY <2>1
      <3>2. g[i] = [gap |-> x, tf |-> p[i].tf] /\ p[i].tf \in Tf(lv)
        BY <1>2, <1>d, <3>1
      <3> QED
        BY <3>2 DEF Gap
  <1>4. g \in Seq(Gap(lv)) /\ Len(g) = n
    <2>1. g = [i \in 1 .. n |-> g[i]]
      BY <1>a, <1>d DEF Gaps
    <2>2. g \in [1 .. n -> Gap(lv)]
      BY <1>3, <2>1
    <2> QED
      BY <2>2, FunctionIsSeq
  <1>5. ASSUME NEW k \in 0 .. n PROVE UpTo(g, k) = IF k = 0 THEN 0 ELSE p[k].doc
    <2>1. PICK h : h = [i \in 0 .. k |-> IF i = 0 THEN 0 ELSE p[i].doc]
      OBVIOUS
    <2>2. PICK x : x = [i \in 1 .. k |-> g[i].gap]
      OBVIOUS
    <2>3. \A i \in 0 .. k : h[i] \in Int
      BY <1>d, <2>1
    <2>4. \A i \in 1 .. k : x[i] = h[i] - h[i - 1]
      <3> SUFFICES ASSUME NEW i \in 1 .. k PROVE x[i] = h[i] - h[i - 1]
        OBVIOUS
      <3>0. i \in 1 .. n /\ i \in 0 .. k /\ i # 0
        BY <1>1
      <3>1. x[i] = p[i].doc - (IF i = 1 THEN 0 ELSE p[i - 1].doc) /\ h[i] = p[i].doc
        BY <1>2, <2>1, <2>2, <3>0
      <3>2. h[i - 1] = IF i = 1 THEN 0 ELSE p[i - 1].doc
        BY <2>1
      <3> QED
        BY <3>1, <3>2
    <2>5. SumFunctionOnSet(x, 1 .. k) = h[k] - h[0]
      BY <2>3, <2>4, SumTelescopes
    <2>6. UpTo(g, k) = SumFunctionOnSet(x, 1 .. k)
      BY <2>2 DEF UpTo
    <2>7. h[0] = 0 /\ h[k] = IF k = 0 THEN 0 ELSE p[k].doc
      BY <2>1
    <2>8. h[k] \in Int
      BY <2>3
    <2> QED
      BY <2>5, <2>6, <2>7, <2>8
  <1>6. LastOf(g) = IF n = 0 THEN 0 ELSE p[n].doc
    <2>1. n \in 0 .. n
      OBVIOUS
    <2> QED
      BY <1>4, <1>5, <2>1 DEF LastOf
  <1>7. DOMAIN g = 1 .. n
    BY <1>4, SeqFacts
  <1>8. \A i \in 1 .. n : UpTo(g, i) = p[i].doc
    BY <1>5
  <1> QED
    BY <1>a, <1>1, <1>2, <1>3, <1>d, <1>4, <1>6, <1>7, <1>8 DEF GapsWell

\* What is listed is a listing.
LEMMA ListingIs ==
  ASSUME NEW lv \in {1, 2}, NEW t \in Seq(Texts), NEW w \in Word
  PROVE  /\ Listing(Index(lv)!Postings(t, w), lv)
         /\ Len(Index(lv)!Postings(t, w)) = Record(t, w).fcnt
         /\ \A i \in 1 .. Len(Index(lv)!Postings(t, w)) : Index(lv)!Postings(t, w)[i].doc \in 1 .. Len(t)
  <1>1. PICK p : p = Index(lv)!Postings(t, w)
    OBVIOUS
  <1>2. PICK s : s = HoldingList(t, w)
    OBVIOUS
  <1>3. ListedWell(p, s, lv, t, w)
    BY <1>1, <1>2, ListedIs
  <1>4. /\ Listing(p, lv) /\ Len(p) = Record(t, w).fcnt
        /\ \A i \in 1 .. Len(p) : p[i].doc \in 1 .. Len(t)
    BY <1>3 DEF Listing, ListedWell
  <1> QED
    BY <1>1, <1>4

\* The gaps of the new postings with the first of them grown, as procEntry_slow has them.
Moved(g, by) == [i \in DOMAIN g |-> IF i = 1 THEN [g[i] EXCEPT !.gap = @ + by] ELSE g[i]]

\* m is the gaps behind g that the documents of a second text's postings q have.
MovedWell(m, g, q, n, lv) ==
  /\ m \in Seq(Gap(lv)) /\ Len(m) = Len(q) /\ Len(q) \in Nat /\ DOMAIN m = 1 .. Len(q)
  /\ \A i \in 1 .. Len(q) : m[i].tf = q[i].tf /\ LastOf(g) + UpTo(m, i) - n = q[i].doc

\* g and h are the gaps of a word in t and in u, and m those of u behind t.
Joining(g, h, m, t, u, w, lv) ==
  /\ g = Gaps(Index(lv)!Postings(t, w))
  /\ h = Gaps(Index(lv)!Postings(u, w))
  /\ m = Moved(h, Len(t) - LastOf(g))

\* The gaps of two texts.
LEMMA GapsJoined ==
  ASSUME NEW lv \in {1, 2}, NEW t \in Seq(Texts), NEW u \in Seq(Texts), NEW w \in Word,
         NEW g, NEW h, NEW m, Joining(g, h, m, t, u, w, lv)
  PROVE  /\ g \o m = Gaps(Index(lv)!Postings(t \o u, w))
         /\ MovedWell(m, g, Index(lv)!Postings(u, w), Len(t), lv)
         /\ Len(g \o m) = Len(g) + Len(Index(lv)!Postings(u, w))
  <1> USE DEF Joining
  <1>0. PICK q : q = Index(lv)!Postings(u, w) /\ h = Gaps(q)
    OBVIOUS
  <1>1. PICK k \in Nat : k = Len(t)
    BY SeqFacts
  <1>2. PICK p : p = Index(lv)!Postings(t, w)
    OBVIOUS
  <1>3. PICK r : r = Index(lv)!Postings(t \o u, w)
    OBVIOUS
  <1>4. /\ Listing(p, lv) /\ Listing(q, lv) /\ Listing(r, lv)
        /\ \A i \in 1 .. Len(p) : p[i].doc \in 1 .. k
    BY <1>0, <1>1, <1>2, <1>3, ListingIs, TextsJoined
  <1>a. GapsWell(g, p, lv) /\ GapsWell(h, q, lv) /\ GapsWell(Gaps(r), r, lv)
    BY <1>0, <1>2, <1>4, GapsAre
  <1>b. JoinedWell(r, p, q, k)
    BY <1>0, <1>1, <1>2, <1>3, PostingsJoined
  <1>5. PICK a \in Nat : a = Len(p)
    BY <1>a DEF GapsWell
  <1>c. /\ g \in Seq(Gap(lv)) /\ Len(g) = a
        /\ \A i \in 1 .. a : /\ g[i].gap = p[i].doc - (IF i = 1 THEN 0 ELSE p[i - 1].doc)
                             /\ g[i].tf = p[i].tf /\ p[i].doc \in Nat \ {0}
        /\ LastOf(g) = IF a = 0 THEN 0 ELSE p[a].doc
    BY <1>a, <1>5 DEF GapsWell
  <1>6. PICK b \in Nat : b = Len(q)
    BY <1>a DEF GapsWell
  <1>d. /\ h \in Seq(Gap(lv)) /\ Len(h) = b /\ DOMAIN h = 1 .. b
        /\ \A i \in 1 .. b : /\ h[i].gap = q[i].doc - (IF i = 1 THEN 0 ELSE q[i - 1].doc)
                             /\ h[i].tf = q[i].tf /\ q[i].doc \in Nat \ {0} /\ h[i] \in Gap(lv)
    BY <1>a, <1>6 DEF GapsWell
  <1>7. PICK last \in 0 .. k : last = LastOf(g)
    <2>1. a # 0 => a \in 1 .. Len(p)
      BY <1>5
    <2> QED
      BY <1>4, <1>c, <2>1
  <1>8. \A i \in 1 .. b : /\ m[i] \in Gap(lv) /\ m[i].tf = h[i].tf
                          /\ m[i].gap = IF i = 1 THEN h[i].gap + (k - last) ELSE h[i].gap
    <2> SUFFICES ASSUME NEW i \in 1 .. b
                 PROVE  /\ m[i] \in Gap(lv) /\ m[i].tf = h[i].tf
                        /\ m[i].gap = IF i = 1 THEN h[i].gap + (k - last) ELSE h[i].gap
      OBVIOUS
    <2>1. m[i] = IF i = 1 THEN [h[i] EXCEPT !.gap = @ + (k - last)] ELSE h[i]
      BY <1>1, <1>7, <1>d DEF Moved
    <2>2. h[i].gap \in Nat \ {0} /\ h[i].tf \in Tf(lv) /\ h[i] \in Gap(lv)
      BY <1>d DEF Gap
    <2>3. h[i].gap + (k - last) \in Nat \ {0}
      <3>1. PICK y \in Nat \ {0} : y = h[i].gap
        BY <2>2
      <3>2. k - last \in Nat
        BY <1>1, <1>7
      <3> QED
        BY <3>1, <3>2
    <2>4. [h[i] EXCEPT !.gap = @ + (k - last)] = [gap |-> h[i].gap + (k - last), tf |-> h[i].tf]
      <3>1. h[i] = [gap |-> h[i].gap, tf |-> h[i].tf]
        BY <2>2 DEF Gap
      <3> QED
        BY <3>1
    <2>5. [gap |-> h[i].gap + (k - last), tf |-> h[i].tf] \in Gap(lv)
      BY <2>2, <2>3 DEF Gap
    <2> QED
      BY <2>1, <2>2, <2>4, <2>5
  <1>9. m \in Seq(Gap(lv)) /\ Len(m) = b /\ DOMAIN m = 1 .. b
    <2>1. m = [i \in 1 .. b |-> m[i]]
      BY <1>d DEF Moved
    <2>2. m \in [1 .. b -> Gap(lv)]
      BY <1>8, <2>1
    <2> QED
      BY <2>2, FunctionIsSeq
  <1>10. PICK f : f = Gaps(r)
    OBVIOUS
  <1>e. /\ Len(r) = a + b
        /\ \A i \in 1 .. a : r[i] = p[i]
        /\ \A i \in 1 .. b : r[a + i].doc = k + q[i].doc /\ r[a + i].tf = q[i].tf
    BY <1>b, <1>5, <1>6 DEF JoinedWell
  <1>f. /\ f \in Seq(Gap(lv)) /\ Len(f) = a + b
        /\ \A i \in 1 .. a + b : /\ f[i].gap = r[i].doc - (IF i = 1 THEN 0 ELSE r[i - 1].doc)
                                 /\ f[i].tf = r[i].tf /\ f[i] \in Gap(lv)
    BY <1>a, <1>10, <1>e DEF GapsWell
  <1>12. /\ g \o m \in Seq(Gap(lv)) /\ Len(g \o m) = a + b
         /\ \A i \in 1 .. a + b : (g \o m)[i] = IF i <= a THEN g[i] ELSE m[i - a]
    <2>1. PICK S : S = Gap(lv)
      OBVIOUS
    <2>2. g \in Seq(S) /\ m \in Seq(S) /\ Len(g) = a /\ Len(m) = b
      BY <1>c, <1>9, <2>1
    <2>3. /\ g \o m \in Seq(S) /\ Len(g \o m) = Len(g) + Len(m)
          /\ \A i \in 1 .. Len(g) + Len(m) : (g \o m)[i] = IF i <= Len(g) THEN g[i] ELSE m[i - Len(g)]
      BY <2>2, ConcatProperties
    <2> QED
      BY <2>1, <2>2, <2>3
  <1>13. ASSUME NEW i \in 1 .. a + b PROVE (g \o m)[i] = f[i]
    <2>1. /\ f[i] \in Gap(lv) /\ (g \o m)[i] \in Gap(lv)
          /\ f[i].gap = r[i].doc - (IF i = 1 THEN 0 ELSE r[i - 1].doc) /\ f[i].tf = r[i].tf
      <3>1. (g \o m)[i] \in Gap(lv)
        BY <1>12, SeqFacts
      <3> QED
        BY <1>f, <3>1
    <2>2. \A x, y \in Gap(lv) : x.gap = y.gap /\ x.tf = y.tf => x = y
      BY DEF Gap
    <2>3. CASE i <= a
      <3>1. (g \o m)[i] = g[i] /\ i \in 1 .. a /\ r[i] = p[i]
        BY <1>e, <1>12, <2>3
      <3>2. i # 1 => r[i - 1] = p[i - 1]
        <4> SUFFICES ASSUME i # 1 PROVE r[i - 1] = p[i - 1]
          OBVIOUS
        <4>1. i - 1 \in 1 .. a
          BY <2>3
        <4> QED
          BY <1>e, <4>1
      <3>3. g[i].gap = f[i].gap /\ g[i].tf = f[i].tf
        BY <1>c, <2>1, <3>1, <3>2
      <3> QED
        BY <2>1, <2>2, <3>1, <3>3
    <2>4. CASE i > a
      <3>1. PICK j \in 1 .. b : i = a + j
        <4>1. i - a \in 1 .. b /\ i = a + (i - a)
          BY <2>4
        <4> QED
          BY <4>1
      <3>2. (g \o m)[i] = m[j] /\ r[i].doc = k + q[j].doc /\ r[i].tf = q[j].tf
        <4>1. ~(i <= a) /\ i - a = j
          BY <3>1
        <4>2. (g \o m)[i] = m[j]
          BY <1>12, <4>1
        <4> QED
          BY <1>e, <3>1, <4>2
      <3>3. m[j].tf = f[i].tf
        BY <1>d, <1>8, <2>1, <3>2
      <3>4. m[j].gap = f[i].gap
        <4>1. CASE j = 1
          <5>1. m[j].gap = q[j].doc + (k - last)
            BY <1>d, <1>8, <4>1
          <5>2. (IF i = 1 THEN 0 ELSE r[i - 1].doc) = IF a = 0 THEN 0 ELSE k - (k - last)
            <6>1. CASE a = 0
              BY <3>1, <4>1, <6>1
            <6>2. CASE a # 0
              <7>1. a \in 1 .. a /\ i - 1 = a /\ i # 1
                BY <3>1, <4>1, <6>2
              <7>2. r[a] = p[a] /\ last = p[a].doc
                BY <1>7, <1>c, <1>e, <6>2, <7>1
              <7> QED
                BY <1>7, <6>2, <7>1, <7>2
            <6> QED
              BY <6>1, <6>2
          <5>3. q[j].doc \in Nat /\ (a = 0 => last = 0)
            BY <1>7, <1>c, <1>d
          <5> QED
            BY <2>1, <3>2, <5>1, <5>2, <5>3
        <4>2. CASE j # 1
          <5>1. m[j].gap = q[j].doc - q[j - 1].doc
            BY <1>d, <1>8, <4>2
          <5>2. i - 1 = a + (j - 1) /\ i # 1 /\ j - 1 \in 1 .. b
            BY <3>1, <4>2
          <5>3. r[i - 1].doc = k + q[j - 1].doc
            BY <1>e, <5>2
          <5>4. PICK x \in Nat : x = q[j].doc
            BY <1>d
          <5>5. PICK y \in Nat : y = q[j - 1].doc
            BY <1>d, <5>2
          <5>6. f[i].gap = (k + x) - (k + y)
            BY <2>1, <3>2, <5>2, <5>3, <5>4, <5>5
          <5>7. (k + x) - (k + y) = x - y
            BY <1>5, <1>6
          <5> QED
            BY <5>1, <5>4, <5>5, <5>6, <5>7
        <4> QED
          BY <4>1, <4>2
      <3> QED
        BY <2>1, <2>2, <3>2, <3>3, <3>4
    <2>5. i <= a \/ i > a
      BY <1>5, <1>6
    <2> QED
      BY <2>3, <2>4, <2>5
  <1>14. g \o m = f
    <2>1. PICK S : S = Gap(lv)
      OBVIOUS
    <2>2. g \o m \in Seq(S) /\ f \in Seq(S) /\ Len(g \o m) = Len(f) /\ Len(f) = a + b
      BY <1>12, <1>f, <2>1
    <2>3. \A i \in 1 .. a + b : (g \o m)[i] = f[i]
      BY <1>13
    <2> QED
      BY ONLY <2>2, <2>3, SeqEqual
  <1>15. ASSUME NEW i \in 1 .. b PROVE last + UpTo(m, i) - k = q[i].doc
    <2>1. PICK z : z = [j \in 0 .. i |-> IF j = 0 THEN last - k ELSE q[j].doc]
      OBVIOUS
    <2>2. PICK x : x = [j \in 1 .. i |-> m[j].gap]
      OBVIOUS
    <2>3. \A j \in 0 .. i : z[j] \in Int
      BY <1>d, <2>1
    <2>4. ASSUME NEW j \in 1 .. i PROVE x[j] = z[j] - z[j - 1]
      <3>1. j \in 1 .. b
        OBVIOUS
      <3>2. x[j] = m[j].gap /\ z[j] = q[j].doc /\ z[j - 1] = IF j = 1 THEN last - k ELSE q[j - 1].doc
        BY <2>1, <2>2
      <3>3. q[j].doc \in Nat /\ (j # 1 => q[j - 1].doc \in Nat)
        BY <1>d, <3>1
      <3>4. m[j].gap = IF j = 1 THEN q[j].doc + (k - last) ELSE q[j].doc - q[j - 1].doc
        BY <1>d, <1>8, <3>1, <3>3
      <3>5. CASE j = 1
        <4>1. m[j].gap = q[j].doc + (k - last) /\ z[j - 1] = last - k
          BY <3>2, <3>4, <3>5
        <4> QED
          BY <1>5, <1>7, <3>2, <3>3, <4>1
      <3>6. CASE j # 1
        <4>1. m[j].gap = q[j].doc - q[j - 1].doc /\ z[j - 1] = q[j - 1].doc
          BY <3>2, <3>4, <3>6
        <4> QED
          BY <3>2, <4>1
      <3> QED
        BY <3>5, <3>6
    <2>5. SumFunctionOnSet(x, 1 .. i) = z[i] - z[0]
      <3>1. i \in Nat
        OBVIOUS
      <3>2. \A j \in 1 .. i : x[j] = z[j] - z[j - 1]
        BY <2>4
      <3> QED
        BY ONLY <2>3, <3>1, <3>2, SumTelescopes
    <2>6. z[i] = q[i].doc /\ z[0] = last - k /\ q[i].doc \in Nat
      BY <1>d, <2>1
    <2>7. UpTo(m, i) = q[i].doc - (last - k)
      BY <2>2, <2>5, <2>6 DEF UpTo
    <2> QED
      BY <2>6, <2>7
  <1>16. MovedWell(m, g, q, k, lv)
    BY <1>6, <1>7, <1>8, <1>9, <1>15, <1>d DEF MovedWell
  <1> QED
    BY <1>0, <1>1, <1>3, <1>6, <1>c, <1>10, <1>12, <1>14, <1>16

----------------------------------------------------------------------------
(* Code words.                                                             *)

\* A block code's parameter, for any number of entries.
LEMMA BblockInitAny ==
  ASSUME NEW N \in 1 .. CountLimit, NEW p \in Nat \ {0}
  PROVE  BblockInit(N, p) \in Operand
  <1> DEFINE a == 5000000 * p + 6931471 * N
             d == 10000000 * p
             b == a \div d
  <1>0. Shl(MaxLog) \in Nat
    BY ShlType DEF MaxLog
  <1>1. N \in Nat /\ p \in Nat /\ p >= 1 /\ N >= 1 /\ N + 1 <= Shl(MaxLog)
    BY <1>0 DEF CountLimit
  <1>2. a \in Nat /\ d \in Nat \ {0}
    BY <1>1
  <1>3. p * N >= N /\ p * N \in Nat
    BY <1>1, SMT
  <1>4. (N + 1) * d = 10000000 * (p * N) + 10000000 * p
    BY <1>1, <1>3, SMT
  <1>5. a <= (N + 1) * d
    BY <1>1, <1>3, <1>4, SMT
  <1>6. 0 * d <= a
    BY <1>2
  <1> HIDE DEF a, d
  <1>7. b \in Int /\ b <= N + 1 /\ 0 <= b
    <2>1. a \in Int /\ N + 1 \in Int /\ 0 \in Int
      BY <1>1, <1>2
    <2>2. b \in Int
      BY <1>2, <2>1, DivRem
    <2>3. b <= N + 1
      BY <1>2, <1>5, <2>1, DivLeast
    <2> QED
      BY <1>2, <1>6, <2>1, <2>2, <2>3, DivGreatest
  <1>8. BblockInit(N, p) = IF b = 0 THEN 1 ELSE b
    BY DEF BblockInit, a, d
  <1> HIDE DEF b
  <1> QED
    BY <1>0, <1>1, <1>7, <1>8 DEF Operand

\* A code word has at least a bit.
Word8 == {c \in [unary : Nat, binary : [nbits : Nat, value : Nat]] : c.unary + c.binary.nbits > 0}

Width(c) == c.unary + c.binary.nbits

\* A code word has bits.
LEMMA WidthIs ==
  ASSUME NEW c \in Word8
  PROVE  Width(c) \in Nat \ {0}
  <1>1. /\ c \in [unary : Nat, binary : [nbits : Nat, value : Nat]]
        /\ c.unary + c.binary.nbits > 0
    BY DEF Word8
  <1>2. c.unary \in Nat /\ c.binary.nbits \in Nat
    BY <1>1
  <1> QED
    BY <1>1, <1>2 DEF Width

\* What code words are made of.
LEMMA WordIs ==
  ASSUME NEW u \in Nat, NEW n \in Nat, NEW v \in Nat, u + n > 0,
         NEW c, c = [unary |-> u, binary |-> [nbits |-> n, value |-> v]]
  PROVE  c \in Word8 /\ Width(c) = u + n
  BY DEF Word8, Width

\* Gaps are coded by words that decode to them, and all of whose bits are read.
LEMMA GapCode ==
  ASSUME NEW b \in Operand, NEW x \in Nat \ {0}
  PROVE  /\ BblockEncode(x, b) \in Word8
         /\ BblockDecode(BblockEncode(x, b), b) = x
         /\ BblockEncode(x, b).binary.nbits = BinaryDecode(BblockEncode(x, b).binary, b).used
  <1>1. b \in Nat \ {0} /\ Shl(0) = 1
    BY OperandType DEF Shl, Pow2
  <1>2. PICK u \in Nat \ {0} : u = (x - 1) \div b + 1
    <2>1. (x - 1) \div b \in Int /\ 0 <= (x - 1) \div b
      <3>1. x - 1 \in Int /\ 0 \in Int /\ 0 * b <= x - 1
        BY <1>1
      <3> QED
        BY <1>1, <3>1, DivRem, DivGreatest
    <2> QED
      BY <2>1
  <1>3. PICK r \in 0 .. b - 1 : r = (x - 1) % b
    <2>1. x - 1 \in Int
      OBVIOUS
    <2> QED
      BY <1>1, <2>1, DivRem
  <1>4. PICK c \in Nat : c = CeilLog2(b)
    BY CeilLogSpec
  <1>5. PICK t \in Nat : t = Thresh(b)
    BY ThreshRange
  <1>6. t > 0 => c # 0
    <2>1. t = Shl(c) - b
      BY <1>4, <1>5 DEF Thresh
    <2> QED
      BY <1>1, <1>4, <1>5, <2>1
  <1>7. BblockEncode(x, b) = [unary |-> u, binary |-> BinaryEncode(r + 1, b)]
    BY <1>2, <1>3 DEF BblockEncode
  <1>8. BinaryEncode(r + 1, b) = IF r < t THEN [nbits |-> c - 1, value |-> r]
                                 ELSE [nbits |-> c, value |-> r + t]
    <2>1. (r + 1) - 1 = r
      BY <1>1
    <2> QED
      BY <1>4, <1>5, <2>1 DEF BinaryEncode
  <1>9. BblockEncode(x, b) \in Word8
    <2>1. CASE r < t
      <3>1. BblockEncode(x, b) = [unary |-> u, binary |-> [nbits |-> c - 1, value |-> r]]
        BY <1>7, <1>8, <2>1
      <3>2. c - 1 \in Nat /\ r \in Nat /\ u + (c - 1) > 0
        BY <1>1, <1>4, <1>5, <1>6, <2>1
      <3> QED
        BY <3>1, <3>2, WordIs
    <2>2. CASE ~(r < t)
      <3>1. BblockEncode(x, b) = [unary |-> u, binary |-> [nbits |-> c, value |-> r + t]]
        BY <1>7, <1>8, <2>2
      <3>2. r + t \in Nat /\ u + c > 0
        BY <1>1
      <3> QED
        BY <3>1, <3>2, WordIs
    <2> QED
      BY <2>1, <2>2
  <1> QED
    BY <1>9, BblockRoundTrip

\* So are counts.
LEMMA CountCode ==
  ASSUME NEW x \in 1 .. CountLimit
  PROVE  GammaEncode(x) \in Word8 /\ GammaDecode(GammaEncode(x)) = x
  <1>1. x \in Operand /\ CountLimit \in Nat
    <2>1. Shl(MaxLog) \in Nat \ {0}
      BY ShlType DEF MaxLog
    <2> QED
      BY <2>1 DEF Operand, CountLimit
  <1>2. PICK k \in 0 .. MaxLog : k = FloorLog2(x) /\ Shl(k) <= x
    BY <1>1, FloorLogSpec
  <1>3. PICK y \in Nat : y = Shl(k)
    BY ShlType
  <1>4. k \in Nat /\ (k + 1) - 1 = k /\ x - y \in Nat /\ y + (x - y) = x /\ k + 1 \in Nat /\ (k + 1) + k > 0
    BY <1>2, <1>3 DEF MaxLog
  <1>5. GammaEncode(x) = [unary |-> k + 1, binary |-> [nbits |-> k, value |-> x - y]]
    BY <1>2, <1>3 DEF GammaEncode
  <1>6. GammaEncode(x) \in Word8
    BY <1>4, <1>5, WordIs
  <1>7. GammaDecode(GammaEncode(x)) = Shl((k + 1) - 1) + (x - y)
    BY <1>5 DEF GammaDecode
  <1> QED
    BY <1>3, <1>4, <1>6, <1>7

----------------------------------------------------------------------------
(* Bits.                                                                   *)

\* The bits of the places from one on to another.
LEMMA BitsType ==
  ASSUME NEW f \in Seq(Word8), NEW a \in 1 .. Len(f) + 1, NEW c \in 0 .. Len(f)
  PROVE  Bits(f, a .. c) \in Nat
  <1>1. PICK w : w = [i \in a .. c |-> f[i].unary + f[i].binary.nbits]
    OBVIOUS
  <1>2. \A i \in a .. c : w[i] \in Nat
    <2> SUFFICES ASSUME NEW i \in a .. c PROVE w[i] \in Nat
      OBVIOUS
    <2>1. i \in 1 .. Len(f)
      BY SeqFacts
    <2>2. f[i] \in Word8
      BY <2>1, SeqFacts
    <2>3. w[i] = Width(f[i])
      BY <1>1 DEF Width
    <2> QED
      BY <2>2, <2>3, WidthIs
  <1>3. IsFiniteSet(a .. c)
    <2>1. a \in Int /\ c \in Int
      OBVIOUS
    <2> QED
      BY <2>1, FS_Interval
  <1> QED
    BY <1>1, <1>2, <1>3, SumNat DEF Bits

\* Of no code words there are no bits.
LEMMA BitsNone ==
  ASSUME NEW f, NEW a \in Int, NEW c \in Int, c < a
  PROVE  Bits(f, a .. c) = 0
  <1>1. a .. c = {}
    OBVIOUS
  <1> QED
    BY <1>1, SumEmpty DEF Bits

\* One place more.
LEMMA BitsStep ==
  ASSUME NEW f \in Seq(Word8), NEW a \in 1 .. Len(f), NEW c \in a .. Len(f)
  PROVE  Bits(f, a .. c) = Bits(f, a .. c - 1) + Width(f[c])
  <1>1. PICK w : w = [i \in a .. c |-> f[i].unary + f[i].binary.nbits]
    OBVIOUS
  <1>2. PICK v : v = [i \in a .. c - 1 |-> f[i].unary + f[i].binary.nbits]
    OBVIOUS
  <1>0. Len(f) \in Nat
    BY SeqFacts
  <1>3. \A i \in a .. c : w[i] \in Int /\ w[i] = Width(f[i])
    <2> SUFFICES ASSUME NEW i \in a .. c PROVE w[i] \in Int /\ w[i] = Width(f[i])
      OBVIOUS
    <2>1. i \in 1 .. Len(f)
      BY <1>0
    <2>2. f[i] \in Word8
      BY <2>1, SeqFacts
    <2>3. w[i] = Width(f[i])
      BY <1>1 DEF Width
    <2> QED
      BY <2>2, <2>3, WidthIs
  <1>4. IsFiniteSet(a .. c - 1)
    <2>1. a \in Int /\ c - 1 \in Int
      OBVIOUS
    <2> QED
      BY <2>1, FS_Interval
  <1>5. c \notin a .. c - 1 /\ (a .. c - 1) \cup {c} = a .. c /\ c \in a .. c
    BY <1>0
  <1>6. SumFunctionOnSet(w, (a .. c - 1) \cup {c}) = SumFunctionOnSet(w, a .. c - 1) + w[c]
    <2>1. \A y \in (a .. c - 1) \cup {c} : w[y] \in Int
      BY <1>3, <1>5
    <2> QED
      BY <1>4, <1>5, <2>1, SumAdd
  <1>7. SumFunctionOnSet(v, a .. c - 1) = SumFunctionOnSet(w, a .. c - 1)
    <2>1. \A x \in a .. c - 1 : v[x] = w[x] /\ v[x] \in Int
      <3> SUFFICES ASSUME NEW x \in a .. c - 1 PROVE v[x] = w[x] /\ v[x] \in Int
        OBVIOUS
      <3>1. x \in a .. c
        BY <1>0
      <3>2. v[x] = w[x]
        BY <1>1, <1>2, <3>1
      <3> QED
        BY <1>3, <3>1, <3>2
    <2> QED
      BY <1>4, <2>1, SumSame
  <1> QED
    BY <1>1, <1>2, <1>3, <1>5, <1>6, <1>7 DEF Bits

\* Bits from a place on are those up to the end without those before it.
LEMMA BitsRange ==
  ASSUME NEW f \in Seq(Word8), NEW a \in 1 .. Len(f) + 1, NEW c \in a - 1 .. Len(f)
  PROVE  Bits(f, a .. c) = Bits(f, 1 .. c) - Bits(f, 1 .. a - 1)
  <1>0. Len(f) \in Nat /\ a \in Nat /\ c \in Nat
    BY SeqFacts
  <1>1. PICK G : G = {k \in Nat : a - 1 + k <= Len(f) =>
                        Bits(f, a .. a - 1 + k) = Bits(f, 1 .. a - 1 + k) - Bits(f, 1 .. a - 1)}
    OBVIOUS
  <1>2. 0 \in G
    <2>1. Bits(f, a .. a - 1 + 0) = 0
      BY <1>0, BitsNone
    <2>2. Bits(f, 1 .. a - 1) \in Nat /\ a - 1 + 0 = a - 1
      BY <1>0, BitsType
    <2> QED
      BY <1>1, <2>1, <2>2
  <1>3. ASSUME NEW k \in Nat, k \in G PROVE k + 1 \in G
    <2> SUFFICES ASSUME a - 1 + (k + 1) <= Len(f)
                 PROVE  Bits(f, a .. a - 1 + (k + 1)) = Bits(f, 1 .. a - 1 + (k + 1)) - Bits(f, 1 .. a - 1)
      BY <1>1
    <2>1. PICK e \in Nat : e = a - 1 + (k + 1)
      BY <1>0
    <2>2. e - 1 = a - 1 + k /\ e \in a .. Len(f) /\ e \in 1 .. Len(f) /\ a \in 1 .. Len(f) /\ 1 \in 1 .. Len(f)
      BY <1>0, <2>1
    <2>3. Bits(f, a .. e - 1) = Bits(f, 1 .. e - 1) - Bits(f, 1 .. a - 1)
      BY <1>0, <1>1, <1>3, <2>2
    <2>4. Bits(f, a .. e) = Bits(f, a .. e - 1) + Width(f[e])
      BY <2>2, BitsStep
    <2>5. Bits(f, 1 .. e) = Bits(f, 1 .. e - 1) + Width(f[e])
      BY <2>2, BitsStep
    <2>6. Width(f[e]) \in Nat /\ Bits(f, 1 .. e - 1) \in Nat /\ Bits(f, 1 .. a - 1) \in Nat
      <3>1. f[e] \in Word8 /\ e - 1 \in 0 .. Len(f) /\ a - 1 \in 0 .. Len(f) /\ 1 \in 1 .. Len(f) + 1
        BY <1>0, <2>2, SeqFacts
      <3> QED
        BY <3>1, WidthIs, BitsType
    <2> QED
      BY <2>1, <2>3, <2>4, <2>5, <2>6
  <1>4. Nat \subseteq G
    BY <1>2, <1>3, NatInductionOnSet
  <1>5. PICK k \in Nat : c = a - 1 + k
    <2>1. c - (a - 1) \in Nat /\ c = a - 1 + (c - (a - 1))
      BY <1>0
    <2> QED
      BY <2>1
  <1>6. Bits(f, a .. a - 1 + k) = Bits(f, 1 .. a - 1 + k) - Bits(f, 1 .. a - 1)
    <2>1. k \in G /\ a - 1 + k <= Len(f)
      BY <1>0, <1>4, <1>5
    <2> QED
      BY <1>1, <2>1
  <1> QED
    BY <1>5, <1>6

\* More places, more bits.
LEMMA BitsGrow ==
  ASSUME NEW f \in Seq(Word8), NEW a \in 0 .. Len(f), NEW c \in a .. Len(f)
  PROVE  /\ Bits(f, 1 .. a) \in Nat /\ Bits(f, 1 .. c) \in Nat
         /\ Bits(f, 1 .. a) <= Bits(f, 1 .. c)
         /\ a < c => Bits(f, 1 .. a) < Bits(f, 1 .. c)
  <1>0. Len(f) \in Nat /\ a \in Nat /\ c \in Nat
    BY SeqFacts
  <1>1. Bits(f, 1 .. a) \in Nat /\ Bits(f, 1 .. c) \in Nat
    <2>1. 1 \in 1 .. Len(f) + 1 /\ a \in 0 .. Len(f) /\ c \in 0 .. Len(f)
      BY <1>0
    <2> QED
      BY <2>1, BitsType
  <1>2. ASSUME a < c PROVE Bits(f, 1 .. a) < Bits(f, 1 .. c)
    <2>1. PICK e : e = a + 1
      OBVIOUS
    <2>2. e \in 1 .. Len(f) /\ c \in e .. Len(f) /\ c \in e - 1 .. Len(f) /\ e - 1 = a
          /\ e \in 1 .. Len(f) + 1 /\ c - 1 \in 0 .. Len(f)
      BY <1>0, <1>2, <2>1
    <2>3. Bits(f, e .. c) = Bits(f, 1 .. c) - Bits(f, 1 .. a)
      BY <2>2, BitsRange
    <2>4. Bits(f, e .. c) = Bits(f, e .. c - 1) + Width(f[c])
      BY <2>2, BitsStep
    <2>5. Bits(f, e .. c - 1) \in Nat
      BY <2>2, BitsType
    <2>6. Width(f[c]) \in Nat \ {0}
      <3>1. f[c] \in Word8
        BY <1>0, <2>2, SeqFacts
      <3> QED
        BY <3>1, WidthIs
    <2> QED
      BY <1>1, <2>3, <2>4, <2>5, <2>6
  <1>3. a = c \/ a < c
    BY <1>0
  <1> QED
    BY <1>1, <1>2, <1>3

\* How many code words some whole words' bytes hold.
LEMMA HeldIs ==
  ASSUME NEW f \in Seq(Word8), NEW p \in 1 .. Len(f) + 1, NEW q \in p .. Len(f) + 1,
         NEW bytes \in Int, Bits(f, p .. q - 1) = 8 * bytes
  PROVE  Held(f, p, bytes) = q - p
  <1>0. Len(f) \in Nat /\ p \in Nat /\ q \in Nat /\ p >= 1 /\ q >= p
    BY SeqFacts
  <1>1. ASSUME NEW i \in p .. Len(f) PROVE Bits(f, p .. i) <= 8 * bytes <=> i \in p .. q - 1
    <2>1. Bits(f, p .. i) = Bits(f, 1 .. i) - Bits(f, 1 .. p - 1)
      <3>1. i \in p - 1 .. Len(f)
        BY <1>0
      <3> QED
        BY <3>1, BitsRange
    <2>2. Bits(f, p .. q - 1) = Bits(f, 1 .. q - 1) - Bits(f, 1 .. p - 1)
      <3>1. q - 1 \in p - 1 .. Len(f)
        BY <1>0
      <3> QED
        BY <3>1, BitsRange
    <2>3. Bits(f, 1 .. p - 1) \in Nat /\ Bits(f, 1 .. q - 1) \in Nat /\ Bits(f, 1 .. i) \in Nat
      <3>1. p - 1 \in 0 .. Len(f) /\ q - 1 \in 0 .. Len(f) /\ i \in 0 .. Len(f) /\ 1 \in 1 .. Len(f) + 1
        BY <1>0
      <3> QED
        BY <3>1, BitsType
    <2>4. CASE i <= q - 1
      <3>1. i \in 0 .. Len(f) /\ q - 1 \in i .. Len(f)
        BY <1>0, <2>4
      <3>2. Bits(f, 1 .. i) <= Bits(f, 1 .. q - 1)
        BY <3>1, BitsGrow
      <3> QED
        BY <1>0, <2>1, <2>2, <2>3, <2>4, <3>2
    <2>5. CASE i > q - 1
      <3>1. q - 1 \in 0 .. Len(f) /\ i \in q - 1 .. Len(f) /\ q - 1 < i
        BY <1>0, <2>5
      <3>2. Bits(f, 1 .. q - 1) < Bits(f, 1 .. i)
        BY <3>1, BitsGrow
      <3> QED
        BY <1>0, <2>1, <2>2, <2>3, <2>5, <3>2
    <2> QED
      BY <1>0, <2>4, <2>5
  <1>2. {i \in p .. Len(f) : Bits(f, p .. i) <= 8 * bytes} = p .. q - 1
    <2>1. \A i \in p .. q - 1 : i \in p .. Len(f)
      BY <1>0
    <2> QED
      BY <1>1, <2>1
  <1>3. Cardinality(p .. q - 1) = q - p
    <2>1. p \in Int /\ q - 1 \in Int /\ (IF p > q - 1 THEN 0 ELSE (q - 1) - p + 1) = q - p
      BY <1>0
    <2> QED
      BY <2>1, FS_Interval
  <1> QED
    BY <1>2, <1>3 DEF Held

\* g stands in f from the place p on.
Stands(g, f, p) ==
  /\ p \in Nat \ {0} /\ p + Len(g) <= Len(f) + 1
  /\ \A k \in 1 .. Len(g) : f[p + k - 1] = g[k]

\* A code has the same bits in a file as by itself.
LEMMA StandsBits ==
  ASSUME NEW f \in Seq(Word8), NEW g \in Seq(Word8), NEW p, Stands(g, f, p), NEW n \in 0 .. Len(g)
  PROVE  Bits(f, p .. p + n - 1) = Bits(g, 1 .. n)
  <1>0. Len(f) \in Nat /\ Len(g) \in Nat /\ p \in Nat \ {0} /\ p + Len(g) <= Len(f) + 1
    BY SeqFacts DEF Stands
  <1>1. PICK G : G = {k \in Nat : k <= Len(g) => Bits(f, p .. p + k - 1) = Bits(g, 1 .. k)}
    OBVIOUS
  <1>2. 0 \in G
    <2>1. p + 0 - 1 \in Int /\ p + 0 - 1 < p /\ p \in Int /\ 1 \in Int /\ 0 \in Int /\ 0 < 1
      BY <1>0
    <2>2. Bits(f, p .. p + 0 - 1) = 0 /\ Bits(g, 1 .. 0) = 0
      BY <2>1, BitsNone
    <2> QED
      BY <1>1, <2>2
  <1>3. ASSUME NEW k \in Nat, k \in G PROVE k + 1 \in G
    <2> SUFFICES ASSUME k + 1 <= Len(g)
                 PROVE  Bits(f, p .. p + (k + 1) - 1) = Bits(g, 1 .. k + 1)
      BY <1>1
    <2>1. PICK c \in Nat : c = p + (k + 1) - 1
      BY <1>0
    <2>2. /\ c - 1 = p + k - 1 /\ p \in 1 .. Len(f) /\ c \in p .. Len(f) /\ k + 1 \in 1 .. Len(g)
          /\ 1 \in 1 .. Len(g) /\ (k + 1) - 1 = k /\ k <= Len(g)
      BY <1>0, <2>1
    <2>3. Bits(f, p .. c) = Bits(f, p .. c - 1) + Width(f[c])
      BY <2>2, BitsStep
    <2>4. PICK d : d = k + 1
      OBVIOUS
    <2>5. Bits(g, 1 .. d) = Bits(g, 1 .. d - 1) + Width(g[d])
      BY <2>2, <2>4, BitsStep
    <2>6. f[c] = g[d]
      BY <2>1, <2>2, <2>4 DEF Stands
    <2>7. Bits(f, p .. c - 1) = Bits(g, 1 .. d - 1)
      BY <1>1, <1>3, <2>2, <2>4
    <2> QED
      BY <2>1, <2>3, <2>4, <2>5, <2>6, <2>7
  <1>4. Nat \subseteq G
    BY <1>2, <1>3, NatInductionOnSet
  <1>5. n \in Nat /\ n <= Len(g)
    BY <1>0
  <1> QED
    BY <1>1, <1>4, <1>5

----------------------------------------------------------------------------
(* Entries.                                                                *)

Whole(x) == x \in Seq(Word8) /\ \E n \in Nat : Bits(x, 1 .. Len(x)) = 8 * n

\* Padding fills the last byte.
LEMMA PaddedIs ==
  ASSUME NEW x \in Seq(Word8)
  PROVE  /\ Whole(Padded(x)) /\ Padded(x) \in Seq(Word8)
         /\ Len(Padded(x)) = IF Bits(x, 1 .. Len(x)) % 8 = 0 THEN Len(x) ELSE Len(x) + 1
         /\ \A k \in 1 .. Len(x) : Padded(x)[k] = x[k]
  <1>0. Len(x) \in Nat /\ DOMAIN x = 1 .. Len(x)
    BY SeqFacts
  <1>1. PICK n \in Nat : n = Len(x)
    BY <1>0
  <1>2. PICK b \in Nat : b = Bits(x, 1 .. n)
    <2>1. 1 \in 1 .. Len(x) + 1 /\ n \in 0 .. Len(x)
      BY <1>0, <1>1
    <2> QED
      BY <2>1, BitsType
  <1>3. PICK o \in 0 .. 7 : o = b % 8 /\ b = 8 * (b \div 8) + o /\ b \div 8 \in Nat
    BY SMT
  <1>4. PICK y : y = Padded(x)
    OBVIOUS
  <1>5. y = IF o = 0 THEN x ELSE Append(x, [unary |-> 0, binary |-> [nbits |-> 8 - o, value |-> 0]])
    BY <1>0, <1>1, <1>2, <1>3, <1>4 DEF Padded
  <1>6. CASE o = 0
    <2>1. y = x
      BY <1>5, <1>6
    <2>2. Whole(x)
      <3>1. Bits(x, 1 .. Len(x)) = 8 * (b \div 8) /\ b \div 8 \in Nat
        BY <1>1, <1>2, <1>3, <1>6
      <3> QED
        BY <3>1 DEF Whole
    <2> QED
      BY <1>1, <1>2, <1>3, <1>4, <1>6, <2>1, <2>2
  <1>7. CASE o # 0
    <2>1. PICK c : c = [unary |-> 0, binary |-> [nbits |-> 8 - o, value |-> 0]]
      OBVIOUS
    <2>2. c \in Word8 /\ Width(c) = 8 - o
      <3>1. 0 \in Nat /\ 8 - o \in Nat /\ 0 + (8 - o) > 0 /\ 0 + (8 - o) = 8 - o
        BY <1>7
      <3> QED
        BY <2>1, <3>1, WordIs
    <2>3. y = Append(x, c)
      BY <1>5, <1>7, <2>1
    <2>4. y \in Seq(Word8) /\ Len(y) = n + 1 /\ y[n + 1] = c /\ \A k \in 1 .. n : y[k] = x[k]
      BY <1>1, <2>2, <2>3, AppendProperties
    <2>5. Stands(x, y, 1)
      BY <1>1, <2>4 DEF Stands
    <2>6. Bits(y, 1 .. n) = b
      <3>1. n \in 0 .. Len(x) /\ 1 + n - 1 = n
        BY <1>1
      <3>2. Bits(y, 1 .. 1 + n - 1) = Bits(x, 1 .. n)
        BY <2>4, <2>5, <3>1, StandsBits
      <3> QED
        BY <1>2, <3>1, <3>2
    <2>7. Bits(y, 1 .. n + 1) = 8 * (b \div 8 + 1)
      <3>1. 1 \in 1 .. Len(y) /\ n + 1 \in 1 .. Len(y) /\ (n + 1) - 1 = n
        BY <2>4
      <3>2. Bits(y, 1 .. n + 1) = Bits(y, 1 .. (n + 1) - 1) + Width(y[n + 1])
        BY <2>4, <3>1, BitsStep
      <3> QED
        BY <1>3, <2>2, <2>4, <2>6, <3>1, <3>2
    <2>8. Whole(y)
      <3>1. b \div 8 + 1 \in Nat
        BY <1>3
      <3> QED
        BY <2>4, <2>7, <3>1 DEF Whole
    <2> QED
      BY <1>1, <1>2, <1>3, <1>4, <1>7, <2>4, <2>8
  <1> QED
    BY <1>6, <1>7

\* The code words of a list.
LEMMA CodedIs ==
  ASSUME NEW lv \in {1, 2}, NEW list \in Seq(Gap(lv)), NEW b \in Operand
  PROVE  /\ Coded(list, b, lv) \in Seq(Word8) /\ Len(Coded(list, b, lv)) = lv * Len(list)
         /\ \A i \in 1 .. Len(list) :
              /\ lv * (i - 1) + 1 \in 1 .. lv * Len(list)
              /\ Coded(list, b, lv)[lv * (i - 1) + 1] = BblockEncode(list[i].gap, b)
              /\ lv = 2 => /\ lv * (i - 1) + 2 \in 1 .. lv * Len(list)
                           /\ Coded(list, b, lv)[lv * (i - 1) + 2] = GammaEncode(list[i].tf)
  <1>1. PICK n \in Nat : n = Len(list)
    BY SeqFacts
  <1>2. PICK x : x = Coded(list, b, lv)
    OBVIOUS
  <1>3. ASSUME NEW i \in 1 .. n
        PROVE  list[i].gap \in Nat \ {0} /\ (lv = 2 => list[i].tf \in 1 .. CountLimit)
    <2>1. list[i] \in Gap(lv)
      BY <1>1, SeqFacts
    <2> QED
      BY <2>1 DEF Gap, Tf
  <1>4. CASE lv = 1
    <2>1. x = [k \in 1 .. 1 * n |-> IF 1 = 2 /\ k % 2 = 0 THEN GammaEncode(list[(k + 1 - 1) \div 1].tf)
                                    ELSE BblockEncode(list[(k + 1 - 1) \div 1].gap, b)]
      BY <1>1, <1>2, <1>4 DEF Coded
    <2>2. \A k \in 1 .. n : (k + 1 - 1) \div 1 = k
      OBVIOUS
    <2>3. \A k \in 1 .. n : x[k] = BblockEncode(list[k].gap, b)
      BY <2>1, <2>2
    <2>4. \A k \in 1 .. n : x[k] \in Word8
      BY <1>3, <2>3, GapCode
    <2>5. x \in Seq(Word8) /\ Len(x) = n
      <3>1. x = [k \in 1 .. n |-> x[k]]
        BY <2>1
      <3>2. x \in [1 .. n -> Word8]
        BY <2>4, <3>1
      <3> QED
        BY <3>2, FunctionIsSeq
    <2>6. \A i \in 1 .. n : 1 * (i - 1) + 1 = i
      OBVIOUS
    <2> QED
      BY <1>1, <1>2, <1>4, <2>3, <2>5, <2>6
  <1>5. CASE lv = 2
    <2>1. x = [k \in 1 .. 2 * n |-> IF k % 2 = 0 THEN GammaEncode(list[(k + 2 - 1) \div 2].tf)
                                    ELSE BblockEncode(list[(k + 2 - 1) \div 2].gap, b)]
      BY <1>1, <1>2, <1>5 DEF Coded
    <2>2. ASSUME NEW i \in 1 .. n
          PROVE  /\ 2 * (i - 1) + 1 \in 1 .. 2 * n /\ 2 * (i - 1) + 2 \in 1 .. 2 * n
                 /\ x[2 * (i - 1) + 1] = BblockEncode(list[i].gap, b)
                 /\ x[2 * (i - 1) + 2] = GammaEncode(list[i].tf)
      <3>1. PICK k : k = 2 * (i - 1) + 1
        OBVIOUS
      <3>2. k \in 1 .. 2 * n /\ k % 2 # 0 /\ (k + 2 - 1) \div 2 = i
        BY <3>1
      <3>3. PICK j : j = 2 * (i - 1) + 2
        OBVIOUS
      <3>4. j \in 1 .. 2 * n /\ j % 2 = 0 /\ (j + 2 - 1) \div 2 = i
        BY <3>3
      <3>5. x[k] = BblockEncode(list[i].gap, b)
        BY <2>1, <3>2
      <3>6. x[j] = GammaEncode(list[i].tf)
        BY <2>1, <3>4
      <3> QED
        BY <3>1, <3>2, <3>3, <3>4, <3>5, <3>6
    <2>3. ASSUME NEW k \in 1 .. 2 * n PROVE x[k] \in Word8
      <3>1. PICK i \in 1 .. n : k = 2 * (i - 1) + 1 \/ k = 2 * (i - 1) + 2
        <4>1. (k + 1) \div 2 \in 1 .. n
          OBVIOUS
        <4>2. k = 2 * ((k + 1) \div 2 - 1) + 1 \/ k = 2 * ((k + 1) \div 2 - 1) + 2
          OBVIOUS
        <4> QED
          BY <4>1, <4>2
      <3>2. list[i].gap \in Nat \ {0} /\ list[i].tf \in 1 .. CountLimit
        BY <1>3, <1>5
      <3> QED
        BY <2>2, <3>1, <3>2, GapCode, CountCode
    <2>4. x \in Seq(Word8) /\ Len(x) = 2 * n
      <3>1. x = [k \in 1 .. 2 * n |-> x[k]]
        BY <2>1
      <3>2. x \in [1 .. 2 * n -> Word8] /\ 2 * n \in Nat
        BY <2>3, <3>1
      <3> QED
        BY <3>2, FunctionIsSeq
    <2> QED
      BY <1>1, <1>2, <1>5, <2>2, <2>4
  <1> QED
    BY <1>4, <1>5

\* An entry decodes to the list it was made of, and the next one stands behind it.
LEMMA EntryRead ==
  ASSUME NEW f \in Seq(Word8), NEW p, NEW lv \in {1, 2}, NEW list \in Seq(Gap(lv)), NEW b \in Operand,
         Stands(Padded(Coded(list, b, lv)), f, p)
  PROVE  /\ Decoded(f, p, Len(list), b, lv) = list
         /\ Behind(f, p, Len(list), lv) = p + Len(Padded(Coded(list, b, lv)))
         /\ \A i \in 1 .. Len(list) :
              LET word == f[p + lv * (i - 1)].binary IN word.nbits = BinaryDecode(word, b).used
  <1>1. PICK n \in Nat : n = Len(list)
    BY SeqFacts
  <1>2. PICK x : x = Coded(list, b, lv)
    OBVIOUS
  <1>3. PICK y : y = Padded(x)
    OBVIOUS
  <1>4. x \in Seq(Word8) /\ Len(x) = lv * n /\ lv * n \in Nat
    BY <1>1, <1>2, CodedIs
  <1>5. \A i \in 1 .. n :
          /\ lv * (i - 1) + 1 \in 1 .. lv * n
          /\ x[lv * (i - 1) + 1] = BblockEncode(list[i].gap, b)
          /\ lv = 2 => /\ lv * (i - 1) + 2 \in 1 .. lv * n
                       /\ x[lv * (i - 1) + 2] = GammaEncode(list[i].tf)
    BY <1>1, <1>2, CodedIs
  <1>6. /\ y \in Seq(Word8)
        /\ Len(y) = IF Bits(x, 1 .. lv * n) % 8 = 0 THEN lv * n ELSE lv * n + 1
        /\ \A k \in 1 .. lv * n : y[k] = x[k]
    BY <1>3, <1>4, PaddedIs
  <1>7. Stands(y, f, p)
    BY <1>2, <1>3
  <1>8. Stands(x, f, p)
    <2>1. Len(x) <= Len(y) /\ Len(y) \in Nat
      BY <1>4, <1>6
    <2>2. \A k \in 1 .. Len(x) : f[p + k - 1] = x[k]
      <3> SUFFICES ASSUME NEW k \in 1 .. Len(x) PROVE f[p + k - 1] = x[k]
        OBVIOUS
      <3>1. k \in 1 .. Len(y) /\ k \in 1 .. lv * n
        BY <1>4, <2>1
      <3> QED
        BY <1>6, <1>7, <3>1 DEF Stands
    <2>3. p \in Nat \ {0} /\ p + Len(x) <= Len(f) + 1
      <3>1. Len(f) \in Nat
        BY SeqFacts
      <3> QED
        BY <1>4, <1>7, <2>1, <3>1 DEF Stands
    <2> QED
      BY <2>2, <2>3 DEF Stands
  <1>9. p \in Nat \ {0}
    BY <1>8 DEF Stands
  <1>10. ASSUME NEW i \in 1 .. n
         PROVE  /\ f[p + lv * (i - 1)] = BblockEncode(list[i].gap, b)
                /\ lv = 2 => f[p + lv * (i - 1) + 1] = GammaEncode(list[i].tf)
                /\ list[i] \in Gap(lv)
    <2>0. lv * (i - 1) \in Int
      OBVIOUS
    <2>1. f[p + (lv * (i - 1) + 1) - 1] = x[lv * (i - 1) + 1]
      BY <1>4, <1>5, <1>8 DEF Stands
    <2>2. p + (lv * (i - 1) + 1) - 1 = p + lv * (i - 1)
      BY <1>9, <2>0
    <2>3. lv = 2 => f[p + (lv * (i - 1) + 2) - 1] = x[lv * (i - 1) + 2]
      BY <1>4, <1>5, <1>8 DEF Stands
    <2>4. p + (lv * (i - 1) + 2) - 1 = p + lv * (i - 1) + 1
      BY <1>9, <2>0
    <2>5. list[i] \in Gap(lv)
      BY <1>1, SeqFacts
    <2> QED
      BY <1>5, <2>1, <2>2, <2>3, <2>4, <2>5
  <1>11. ASSUME NEW i \in 1 .. n
         PROVE  /\ BblockDecode(f[p + lv * (i - 1)], b) = list[i].gap
                /\ (IF lv >= 2 THEN GammaDecode(f[p + lv * (i - 1) + 1]) ELSE 0) = list[i].tf
                /\ f[p + lv * (i - 1)].binary.nbits = BinaryDecode(f[p + lv * (i - 1)].binary, b).used
    <2>1. list[i].gap \in Nat \ {0} /\ list[i].tf \in Tf(lv)
      BY <1>10 DEF Gap
    <2>2. /\ BblockDecode(f[p + lv * (i - 1)], b) = list[i].gap
          /\ f[p + lv * (i - 1)].binary.nbits = BinaryDecode(f[p + lv * (i - 1)].binary, b).used
      BY <1>10, <2>1, GapCode
    <2>3. (IF lv >= 2 THEN GammaDecode(f[p + lv * (i - 1) + 1]) ELSE 0) = list[i].tf
      <3>1. CASE lv = 1
        BY <2>1, <3>1 DEF Tf
      <3>2. CASE lv = 2
        <4>1. list[i].tf \in 1 .. CountLimit
          BY <2>1, <3>2 DEF Tf
        <4>2. GammaDecode(f[p + lv * (i - 1) + 1]) = list[i].tf
          BY <1>10, <3>2, <4>1, CountCode
        <4> QED
          BY <3>2, <4>2
      <3> QED
        BY <3>1, <3>2
    <2> QED
      BY <2>2, <2>3
  <1>12. Decoded(f, p, n, b, lv) = list
    <2>1. Decoded(f, p, n, b, lv)
          = [i \in 1 .. n |-> [gap |-> BblockDecode(f[p + lv * (i - 1)], b),
                               tf  |-> IF lv >= 2 THEN GammaDecode(f[p + lv * (i - 1) + 1]) ELSE 0]]
      BY DEF Decoded
    <2>2. ASSUME NEW i \in 1 .. n
          PROVE  [gap |-> BblockDecode(f[p + lv * (i - 1)], b),
                  tf  |-> IF lv >= 2 THEN GammaDecode(f[p + lv * (i - 1) + 1]) ELSE 0] = list[i]
      <3>1. list[i] = [gap |-> list[i].gap, tf |-> list[i].tf]
        BY <1>10 DEF Gap
      <3> QED
        BY <1>11, <3>1
    <2>3. list = [i \in 1 .. n |-> list[i]]
      BY <1>1, SeqFacts
    <2>4. [i \in 1 .. n |-> [gap |-> BblockDecode(f[p + lv * (i - 1)], b),
                             tf  |-> IF lv >= 2 THEN GammaDecode(f[p + lv * (i - 1) + 1]) ELSE 0]]
          = [i \in 1 .. n |-> list[i]]
      BY <2>2
    <2> QED
      BY <2>1, <2>3, <2>4
  <1>13. Behind(f, p, n, lv) = p + Len(y)
    <2>1. Bits(f, p .. p + lv * n - 1) = Bits(x, 1 .. lv * n)
      <3>1. lv * n \in 0 .. Len(x)
        BY <1>4
      <3> QED
        BY <1>4, <1>8, <3>1, StandsBits
    <2>2. PICK end : end = p + lv * n
      OBVIOUS
    <2>3. Behind(f, p, n, lv) = IF Bits(f, p .. end - 1) % 8 = 0 THEN end ELSE end + 1
      BY <2>2 DEF Behind
    <2> QED
      BY <1>4, <1>6, <1>9, <2>1, <2>2, <2>3
  <1>14. \A i \in 1 .. n :
           LET word == f[p + lv * (i - 1)].binary IN word.nbits = BinaryDecode(word, b).used
    BY <1>11
  <1> QED
    BY <1>1, <1>2, <1>3, <1>12, <1>13, <1>14

\* An entry of no documents.
LEMMA EntryNone ==
  ASSUME NEW f, NEW p \in Nat \ {0}, NEW lv \in {1, 2}, NEW b
  PROVE  Decoded(f, p, 0, b, lv) = <<>> /\ Behind(f, p, 0, lv) = p
  <1>1. Decoded(f, p, 0, b, lv) = <<>>
    BY DEF Decoded
  <1>2. Bits(f, p .. p + lv * 0 - 1) = 0
    <2>1. p + lv * 0 - 1 \in Int /\ p + lv * 0 - 1 < p
      OBVIOUS
    <2> QED
      BY <2>1, BitsNone
  <1>3. p + lv * 0 = p
    OBVIOUS
  <1> QED
    BY <1>1, <1>2, <1>3 DEF Behind

----------------------------------------------------------------------------
(* Files.                                                                  *)

\* A file of the entries e, which start at the places s and by the bytes idx.
Laid(f, idx, e, s) ==
  /\ f \in Seq(Word8) /\ e \in Seq(Seq(Word8)) /\ idx \in Seq(Nat) /\ s \in Seq(Nat \ {0})
  /\ Len(idx) = Len(e) + 1 /\ Len(s) = Len(e) + 1
  /\ s[1] = 1 /\ s[Len(e) + 1] = Len(f) + 1
  /\ \A i \in 1 .. Len(e) : s[i + 1] = s[i] + Len(e[i]) /\ Stands(e[i], f, s[i])
  /\ \A i \in 1 .. Len(e) + 1 : s[i] <= Len(f) + 1 /\ Bits(f, 1 .. s[i] - 1) = 8 * idx[i]

\* An empty file.
LEMMA LaidNone == \E s : Laid(<<>>, <<0>>, <<>>, s)
  <1>1. PICK s : s = <<1>>
    OBVIOUS
  <1>2. s \in Seq(Nat \ {0}) /\ Len(s) = 1 /\ s[1] = 1
    BY <1>1
  <1>3. <<0>> \in Seq(Nat) /\ Len(<<0>>) = 1 /\ <<0>>[1] = 0
    OBVIOUS
  <1>4. <<>> \in Seq(Word8) /\ <<>> \in Seq(Seq(Word8)) /\ Len(<<>>) = 0
    OBVIOUS
  <1>5. Bits(<<>>, 1 .. 1 - 1) = 0
    BY BitsNone
  <1>6. \A i \in 1 .. Len(<<>>) + 1 : i = 1
    BY <1>4
  <1>7. \A i \in 1 .. Len(<<>>) : FALSE
    BY <1>4
  <1>8. Laid(<<>>, <<0>>, <<>>, s)
    BY <1>2, <1>3, <1>4, <1>5, <1>6, <1>7 DEF Laid
  <1> QED
    BY <1>8

\* Code words stay where they are when more are put behind them.
LEMMA StandsOn ==
  ASSUME NEW f \in Seq(Word8), NEW g \in Seq(Word8), NEW x \in Seq(Word8), NEW p, Stands(g, f, p)
  PROVE  Stands(g, f \o x, p)
  <1>1. Len(f) \in Nat /\ Len(x) \in Nat /\ Len(g) \in Nat /\ p \in Nat \ {0} /\ p + Len(g) <= Len(f) + 1
    BY SeqFacts DEF Stands
  <1>2. /\ f \o x \in Seq(Word8) /\ Len(f \o x) = Len(f) + Len(x)
        /\ \A i \in 1 .. Len(f) + Len(x) : (f \o x)[i] = IF i <= Len(f) THEN f[i] ELSE x[i - Len(f)]
    BY ConcatProperties
  <1>3. ASSUME NEW k \in 1 .. Len(g) PROVE (f \o x)[p + k - 1] = g[k]
    <2>1. p + k - 1 \in 1 .. Len(f) + Len(x) /\ p + k - 1 <= Len(f)
      BY <1>1
    <2>2. f[p + k - 1] = g[k]
      BY DEF Stands
    <2> QED
      BY <1>2, <2>1, <2>2
  <1> QED
    BY <1>1, <1>2, <1>3 DEF Stands

\* One more entry.
LEMMA LaidNext ==
  ASSUME NEW f, NEW idx, NEW e, NEW s, Laid(f, idx, e, s), NEW x, Whole(x)
  PROVE  /\ idx[Len(e) + 1] = Bits(f, DOMAIN f) \div 8
         /\ \E t : Laid(f \o x, Append(idx, Bits(f \o x, DOMAIN (f \o x)) \div 8), Append(e, x), t)
  <1>1. /\ f \in Seq(Word8) /\ e \in Seq(Seq(Word8)) /\ idx \in Seq(Nat) /\ s \in Seq(Nat \ {0})
        /\ Len(idx) = Len(e) + 1 /\ Len(s) = Len(e) + 1
        /\ s[1] = 1 /\ s[Len(e) + 1] = Len(f) + 1
    BY DEF Laid
  <1>2. /\ \A i \in 1 .. Len(e) : s[i + 1] = s[i] + Len(e[i]) /\ Stands(e[i], f, s[i])
        /\ \A i \in 1 .. Len(e) + 1 : s[i] <= Len(f) + 1 /\ Bits(f, 1 .. s[i] - 1) = 8 * idx[i]
    BY DEF Laid
  <1>3. PICK n \in Nat : n = Len(e)
    BY <1>1, SeqFacts
  <1>4. PICK l \in Nat : l = Len(f) /\ DOMAIN f = 1 .. l
    BY <1>1, SeqFacts
  <1>5. x \in Seq(Word8)
    BY DEF Whole
  <1>6. PICK m \in Nat : m = Len(x)
    BY <1>5, SeqFacts
  <1>7. PICK c \in Nat : Bits(x, 1 .. m) = 8 * c
    BY <1>6 DEF Whole
  <1>8. PICK g : g = f \o x
    OBVIOUS
  <1>9. /\ g \in Seq(Word8) /\ Len(g) = l + m /\ DOMAIN g = 1 .. l + m
        /\ \A i \in 1 .. l + m : g[i] = IF i <= l THEN f[i] ELSE x[i - l]
    <2>1. /\ g \in Seq(Word8) /\ Len(g) = l + m
          /\ \A i \in 1 .. l + m : g[i] = IF i <= l THEN f[i] ELSE x[i - l]
      BY <1>1, <1>4, <1>5, <1>6, <1>8, ConcatProperties
    <2> QED
      BY <2>1, SeqFacts
  <1>10. Stands(f, g, 1)
    <2>1. \A k \in 1 .. l : g[1 + k - 1] = f[k]
      BY <1>9
    <2> QED
      BY <1>4, <1>6, <1>9, <2>1 DEF Stands
  <1>11. Stands(x, g, l + 1)
    <2>1. ASSUME NEW k \in 1 .. m PROVE g[l + 1 + k - 1] = x[k]
      <3>1. l + 1 + k - 1 \in 1 .. l + m /\ ~(l + 1 + k - 1 <= l) /\ (l + 1 + k - 1) - l = k
        BY <1>4, <1>6
      <3> QED
        BY <1>9, <3>1
    <2> QED
      BY <1>4, <1>6, <1>9, <2>1 DEF Stands
  <1>12. PICK d \in Nat : d = idx[n + 1]
    BY <1>1, <1>3, SeqFacts
  <1>13. Bits(f, 1 .. l) = 8 * d /\ (8 * d) \div 8 = d
    <2>1. n + 1 \in 1 .. Len(e) + 1 /\ (l + 1) - 1 = l /\ (8 * d) \div 8 = d
      BY <1>3, <1>4, <1>12
    <2>2. s[n + 1] = l + 1
      BY <1>1, <1>3, <1>4
    <2>3. Bits(f, 1 .. s[n + 1] - 1) = 8 * idx[n + 1]
      BY <1>2, <2>1
    <2> QED
      BY <1>12, <2>1, <2>2, <2>3
  <1>14. idx[Len(e) + 1] = Bits(f, DOMAIN f) \div 8
    BY <1>3, <1>4, <1>12, <1>13
  <1>15. ASSUME NEW k \in 0 .. l PROVE Bits(g, 1 .. k) = Bits(f, 1 .. k)
    <2>1. k \in 0 .. Len(f) /\ 1 + k - 1 = k
      BY <1>4
    <2>2. Bits(g, 1 .. 1 + k - 1) = Bits(f, 1 .. k)
      BY <1>1, <1>9, <1>10, <2>1, StandsBits
    <2> QED
      BY <2>1, <2>2
  <1>16. Bits(g, 1 .. l + m) = 8 * (d + c)
    <2>1. Bits(g, l + 1 .. l + 1 + m - 1) = Bits(x, 1 .. m)
      <3>1. m \in 0 .. Len(x)
        BY <1>6
      <3> QED
        BY <1>5, <1>9, <1>11, <3>1, StandsBits
    <2>2. l + 1 \in 1 .. Len(g) + 1 /\ l + m \in (l + 1) - 1 .. Len(g) /\ (l + 1) - 1 = l
          /\ l + 1 + m - 1 = l + m
      BY <1>4, <1>6, <1>9
    <2>3. Bits(g, l + 1 .. l + m) = Bits(g, 1 .. l + m) - Bits(g, 1 .. (l + 1) - 1)
      BY <1>9, <2>2, BitsRange
    <2>4. Bits(g, 1 .. l) = 8 * d
      <3>1. l \in 0 .. l
        BY <1>4
      <3> QED
        BY <1>13, <1>15, <3>1
    <2>5. Bits(g, 1 .. l + m) \in Nat
      <3>1. 1 \in 1 .. Len(g) + 1 /\ l + m \in 0 .. Len(g)
        BY <1>4, <1>6, <1>9
      <3> QED
        BY <1>9, <3>1, BitsType
    <2> QED
      BY <1>7, <2>1, <2>2, <2>3, <2>4, <2>5
  <1>17. PICK idx2 : idx2 = Append(idx, Bits(g, DOMAIN g) \div 8)
    OBVIOUS
  <1>18. Bits(g, DOMAIN g) \div 8 = d + c
    <2>1. (8 * (d + c)) \div 8 = d + c
      OBVIOUS
    <2> QED
      BY <1>9, <1>16, <2>1
  <1>19. idx2 \in Seq(Nat) /\ Len(idx2) = n + 2 /\ idx2[n + 2] = d + c
         /\ \A i \in 1 .. n + 1 : idx2[i] = idx[i]
    <2>1. d + c \in Nat
      OBVIOUS
    <2> QED
      BY <1>1, <1>3, <1>17, <1>18, <2>1, AppendProperties
  <1>20. PICK e2 : e2 = Append(e, x)
    OBVIOUS
  <1>21. e2 \in Seq(Seq(Word8)) /\ Len(e2) = n + 1 /\ e2[n + 1] = x /\ \A i \in 1 .. n : e2[i] = e[i]
    BY <1>1, <1>3, <1>5, <1>20, AppendProperties
  <1>22. PICK t : t = Append(s, l + m + 1)
    OBVIOUS
  <1>23. t \in Seq(Nat \ {0}) /\ Len(t) = n + 2 /\ t[n + 2] = l + m + 1 /\ \A i \in 1 .. n + 1 : t[i] = s[i]
    <2>1. l + m + 1 \in Nat \ {0}
      BY <1>4, <1>6
    <2> QED
      BY <1>1, <1>3, <1>22, <2>1, AppendProperties
  <1>24. ASSUME NEW i \in 1 .. n + 1 PROVE t[i + 1] = t[i] + Len(e2[i]) /\ Stands(e2[i], g, t[i])
    <2>1. CASE i \in 1 .. n
      <3>1. i \in 1 .. Len(e) /\ i + 1 \in 1 .. n + 1
        BY <1>3, <2>1
      <3>2. e[i] \in Seq(Word8)
        BY <1>1, <3>1, SeqFacts
      <3>3. Stands(e[i], f \o x, s[i])
        BY <1>1, <1>2, <1>5, <3>1, <3>2, StandsOn
      <3> QED
        BY <1>2, <1>8, <1>21, <1>23, <2>1, <3>1, <3>3
    <2>2. CASE i = n + 1
      <3>1. t[i] = l + 1 /\ t[i + 1] = l + m + 1 /\ e2[i] = x
        <4>1. s[n + 1] = l + 1 /\ n + 1 \in 1 .. n + 1 /\ (n + 1) + 1 = n + 2
          BY <1>1, <1>3, <1>4
        <4>2. t[n + 1] = l + 1 /\ t[n + 2] = l + m + 1
          BY <1>23, <4>1
        <4> QED
          BY <1>21, <2>2, <4>1, <4>2
      <3> QED
        BY <1>4, <1>6, <1>11, <3>1
    <2> QED
      BY <1>3, <2>1, <2>2
  <1>25. ASSUME NEW i \in 1 .. n + 2
         PROVE  t[i] <= Len(g) + 1 /\ Bits(g, 1 .. t[i] - 1) = 8 * idx2[i]
    <2>1. CASE i \in 1 .. n + 1
      <3>1. s[i] <= l + 1 /\ Bits(f, 1 .. s[i] - 1) = 8 * idx[i] /\ s[i] \in Nat \ {0}
        BY <1>1, <1>2, <1>3, <1>4, <2>1, SeqFacts
      <3>2. s[i] - 1 \in 0 .. l
        BY <1>4, <3>1
      <3>3. Bits(g, 1 .. s[i] - 1) = Bits(f, 1 .. s[i] - 1)
        BY <1>15, <3>2
      <3> QED
        BY <1>4, <1>6, <1>9, <1>19, <1>23, <2>1, <3>1, <3>3
    <2>2. CASE i = n + 2
      <3>1. (l + m + 1) - 1 = l + m
        BY <1>4, <1>6
      <3> QED
        BY <1>9, <1>16, <1>19, <1>23, <2>2, <3>1
    <2> QED
      BY <1>3, <2>1, <2>2
  <1>26. Laid(g, idx2, e2, t)
    <2>1. t[1] = 1
      BY <1>1, <1>3, <1>23
    <2>2. (n + 1) + 1 = n + 2
      BY <1>3
    <2> QED
      BY <1>9, <1>19, <1>21, <1>23, <1>24, <1>25, <2>1, <2>2 DEF Laid
  <1> QED
    BY <1>8, <1>14, <1>17, <1>20, <1>26

\* A function's values, one more.
LEMMA AppendNext ==
  ASSUME NEW n \in Nat, NEW g
  PROVE  Append([i \in 1 .. n |-> g[i]], g[n + 1]) = [i \in 1 .. n + 1 |-> g[i]]
  <1>1. PICK s : s = [i \in 1 .. n |-> g[i]]
    OBVIOUS
  <1>2. PICK S : S = {g[i] : i \in 1 .. n + 1}
    OBVIOUS
  <1>3. \A i \in 1 .. n : g[i] \in S
    BY <1>2
  <1>4. g[n + 1] \in S
    BY <1>2
  <1>5. s \in Seq(S) /\ Len(s) = n
    <2>1. s \in [1 .. n -> S]
      BY <1>1, <1>3
    <2> QED
      BY <2>1, FunctionIsSeq
  <1>6. PICK t : t = [i \in 1 .. n + 1 |-> g[i]]
    OBVIOUS
  <1>7. t \in Seq(S) /\ Len(t) = n + 1
    <2>1. \A i \in 1 .. n + 1 : g[i] \in S
      BY <1>2
    <2>2. t \in [1 .. n + 1 -> S]
      BY <1>6, <2>1
    <2> QED
      BY <2>2, FunctionIsSeq
  <1>8. /\ Append(s, g[n + 1]) \in Seq(S) /\ Len(Append(s, g[n + 1])) = n + 1
        /\ \A i \in 1 .. n : Append(s, g[n + 1])[i] = s[i]
        /\ Append(s, g[n + 1])[n + 1] = g[n + 1]
    BY <1>4, <1>5, AppendProperties
  <1>9. ASSUME NEW i \in 1 .. n + 1 PROVE Append(s, g[n + 1])[i] = t[i]
    <2>1. CASE i \in 1 .. n
      BY <1>1, <1>6, <1>8, <2>1
    <2>2. CASE i = n + 1
      BY <1>6, <1>8, <2>2
    <2>3. i \in 1 .. n \/ i = n + 1
      OBVIOUS
    <2> QED
      BY <2>1, <2>2, <2>3
  <1>10. Append(s, g[n + 1]) = t
    BY <1>7, <1>8, <1>9, SeqEqual
  <1> QED
    BY <1>1, <1>6, <1>10

\* The files of the first entries, one by one.
LEMMA FilesAre ==
  ASSUME NEW e, Len(e) \in Nat
  PROVE  Files(e) = [i \in 0 .. Len(e) |-> IF i = 0 THEN <<>> ELSE Files(e)[i - 1] \o e[i]]
  <1> DEFINE Of(f, n) == f = [i \in 0 .. n |-> IF i = 0 THEN <<>> ELSE f[i - 1] \o e[i]]
  <1>1. PICK G : G = {n \in Nat : \E f : Of(f, n)}
    OBVIOUS
  <1>2. 0 \in G
    <2>1. PICK f : f = [i \in 0 .. 0 |-> <<>>]
      OBVIOUS
    <2>2. \A i \in 0 .. 0 : i = 0
      OBVIOUS
    <2>3. f = [i \in 0 .. 0 |-> IF i = 0 THEN <<>> ELSE f[i - 1] \o e[i]]
      BY <2>1, <2>2
    <2> QED
      BY <1>1, <2>3
  <1>3. ASSUME NEW n \in Nat, n \in G PROVE n + 1 \in G
    <2>1. PICK f : Of(f, n)
      BY <1>1, <1>3
    <2>2. PICK g : g = [i \in 0 .. n + 1 |-> IF i = n + 1 THEN f[n] \o e[n + 1] ELSE f[i]]
      OBVIOUS
    <2>3. ASSUME NEW i \in 0 .. n + 1 PROVE g[i] = IF i = 0 THEN <<>> ELSE g[i - 1] \o e[i]
      <3>1. CASE i = n + 1
        <4>1. n \in 0 .. n + 1 /\ n # n + 1 /\ i - 1 = n /\ i # 0
          BY <3>1
        <4>2. g[n] = f[n] /\ g[i] = f[n] \o e[n + 1]
          BY <2>2, <3>1, <4>1
        <4> QED
          BY <3>1, <4>1, <4>2
      <3>2. CASE i # n + 1 /\ i # 0
        <4>1. i \in 0 .. n /\ i - 1 \in 0 .. n + 1 /\ i - 1 # n + 1
          BY <3>2
        <4>2. g[i] = f[i] /\ g[i - 1] = f[i - 1]
          BY <2>2, <3>2, <4>1
        <4>3. f[i] = f[i - 1] \o e[i]
          BY <2>1, <3>2, <4>1
        <4> QED
          BY <3>2, <4>2, <4>3
      <3>3. CASE i = 0
        <4>1. 0 \in 0 .. n /\ 0 # n + 1
          OBVIOUS
        <4>2. g[0] = f[0] /\ f[0] = <<>>
          BY <2>1, <2>2, <4>1
        <4> QED
          BY <3>3, <4>2
      <3> QED
        BY <3>1, <3>2, <3>3
    <2>4. Of(g, n + 1)
      <3>1. g = [i \in 0 .. n + 1 |-> g[i]]
        BY <2>2
      <3> QED
        BY <2>3, <3>1
    <2> HIDE DEF Of
    <2> QED
      BY <1>1, <2>4
  <1>4. Nat \subseteq G
    BY <1>2, <1>3, NatInductionOnSet
  <1>5. \E f : Of(f, Len(e))
    BY <1>1, <1>4
  <1>6. Files(e) = CHOOSE f : f = [i \in 0 .. Len(e) |-> IF i = 0 THEN <<>> ELSE f[i - 1] \o e[i]]
    BY DEF Files
  <1> QED
    BY <1>5, <1>6

\* The file of all entries, and the index of their places.
LEMMA FilesLaid ==
  ASSUME NEW e \in Seq(Seq(Word8)), \A i \in 1 .. Len(e) : Whole(e[i]),
         NEW f, f = Files(e),
         NEW g, g = [i \in 1 .. Len(e) + 1 |-> Bits(f[i - 1], DOMAIN f[i - 1]) \div 8]
  PROVE  \E s : Laid(f[Len(e)], g, e, s)
  <1>1. PICK m \in Nat : m = Len(e) /\ e = [i \in 1 .. m |-> e[i]]
    BY SeqFacts
  <1>2. f = [i \in 0 .. m |-> IF i = 0 THEN <<>> ELSE f[i - 1] \o e[i]]
    BY <1>1, FilesAre
  <1>3. PICK G : G = {n \in Nat : n <= m =>
                        \E s : Laid(f[n], [i \in 1 .. n + 1 |-> g[i]], [i \in 1 .. n |-> e[i]], s)}
    OBVIOUS
  <1>4. 0 \in G
    <2>1. f[0] = <<>>
      BY <1>2
    <2>2. g[1] = Bits(f[1 - 1], DOMAIN f[1 - 1]) \div 8
      BY <1>1
    <2>3. Bits(<<>>, DOMAIN <<>>) = 0
      <3>1. DOMAIN <<>> = {}
        OBVIOUS
      <3> QED
        BY <3>1, SumEmpty DEF Bits
    <2>4. g[1] = 0
      <3>1. 1 - 1 = 0 /\ 0 \div 8 = 0
        OBVIOUS
      <3> QED
        BY <2>1, <2>2, <2>3, <3>1
    <2>5. [i \in 1 .. 0 + 1 |-> g[i]] = <<0>> /\ [i \in 1 .. 0 |-> e[i]] = <<>>
      BY <2>4
    <2>6. \E s : Laid(f[0], [i \in 1 .. 0 + 1 |-> g[i]], [i \in 1 .. 0 |-> e[i]], s)
      BY <2>1, <2>5, LaidNone
    <2> QED
      BY <1>3, <2>6
  <1>5. ASSUME NEW n \in Nat, n \in G PROVE n + 1 \in G
    <2>0. CASE ~(n + 1 <= m)
      BY <1>3, <2>0
    <2>1. CASE n + 1 <= m
      <3>1. PICK s : Laid(f[n], [i \in 1 .. n + 1 |-> g[i]], [i \in 1 .. n |-> e[i]], s)
        <4>1. n <= m
          BY <1>1, <2>1
        <4> QED
          BY <1>3, <1>5, <4>1
      <3>2. Whole(e[n + 1])
        <4>1. n + 1 \in 1 .. Len(e)
          BY <1>1, <2>1
        <4> QED
          BY <4>1
      <3>3. f[n + 1] = f[n] \o e[n + 1]
        <4>1. n + 1 \in 0 .. m /\ n + 1 # 0 /\ (n + 1) - 1 = n
          BY <1>1, <2>1
        <4> QED
          BY <1>2, <4>1
      <3>4. PICK h : h = f[n + 1]
        OBVIOUS
      <3>5. g[(n + 1) + 1] = Bits(h, DOMAIN h) \div 8
        <4>1. (n + 1) + 1 \in 1 .. Len(e) + 1 /\ ((n + 1) + 1) - 1 = n + 1
          BY <1>1, <2>1
        <4> QED
          BY <3>4, <4>1
      <3>6. PICK k : k = f[n]
        OBVIOUS
      <3>7. PICK x : x = e[n + 1]
        OBVIOUS
      <3>8. PICK I : I = [i \in 1 .. n + 1 |-> g[i]]
        OBVIOUS
      <3>9. PICK J : J = [i \in 1 .. n |-> e[i]]
        OBVIOUS
      <3>10. h = k \o x /\ Laid(k, I, J, s) /\ Whole(x)
        BY <3>1, <3>2, <3>3, <3>4, <3>6, <3>7, <3>8, <3>9
      <3>11. \E t : Laid(k \o x, Append(I, Bits(k \o x, DOMAIN (k \o x)) \div 8), Append(J, x), t)
        BY <3>10, LaidNext
      <3>12. Append(I, Bits(h, DOMAIN h) \div 8) = [i \in 1 .. (n + 1) + 1 |-> g[i]]
        BY <3>5, <3>8, AppendNext
      <3>13. Append(J, x) = [i \in 1 .. n + 1 |-> e[i]]
        BY <3>7, <3>9, AppendNext
      <3>14. \E t : Laid(f[n + 1], [i \in 1 .. (n + 1) + 1 |-> g[i]], [i \in 1 .. n + 1 |-> e[i]], t)
        BY <3>4, <3>10, <3>11, <3>12, <3>13
      <3>15. n + 1 \in Nat
        OBVIOUS
      <3> QED
        BY <1>3, <3>14, <3>15
    <2> QED
      BY <2>0, <2>1
  <1>6. m \in G
    BY <1>4, <1>5, NatInductionOnSet
  <1>7. [i \in 1 .. m + 1 |-> g[i]] = g
    BY <1>1
  <1>8. \E s : Laid(f[m], [i \in 1 .. m + 1 |-> g[i]], [i \in 1 .. m |-> e[i]], s)
    <2>1. m <= m
      BY <1>1
    <2> QED
      BY <1>3, <1>6, <2>1
  <1> QED
    BY <1>1, <1>7, <1>8

----------------------------------------------------------------------------
(* Dictionaries.                                                           *)

Vocab(t) == {w \in Word : \E d \in DOMAIN t : t[d][w] > 0}

Terms(t) == InOrder(Vocab(t))

\* d is a dictionary of the words x of a text.
DictWell(d, x, t) ==
  /\ Ordered(x, Vocab(t)) /\ Len(x) \in Nat /\ Len(x) = Cardinality(Vocab(t))
  /\ Len(d) = Len(x) /\ DOMAIN d = 1 .. Len(x) /\ d = [i \in 1 .. Len(x) |-> d[i]]
  /\ \A i \in 1 .. Len(x) : /\ d[i] = Record(t, x[i]) /\ x[i] \in Vocab(t) /\ x[i] \in Word /\ x[i] \in Nat
                            /\ d[i].term = x[i] /\ d[i].fcnt = Record(t, x[i]).fcnt
                            /\ d[i].wcnt = Record(t, x[i]).wcnt

\* The words of a text.
LEMMA VocabIs ==
  ASSUME NEW t
  PROVE  /\ Vocab(t) \in SUBSET Nat /\ Vocab(t) \in SUBSET Word /\ IsFiniteSet(Vocab(t))
         /\ IsFiniteSet(Word) /\ Cardinality(Vocab(t)) <= Cardinality(Word)
  <1>1. Vocab(t) \in SUBSET Word /\ Word \subseteq Nat /\ IsFiniteSet(Word)
    BY InvertedMergeAssumption DEF Vocab
  <1>2. Vocab(t) \in SUBSET Nat
    BY <1>1
  <1> QED
    BY <1>1, <1>2, FS_Subset

\* A word of a text has a document.
LEMMA HoldingVocab ==
  ASSUME NEW t, NEW w \in Word
  PROVE  /\ w \in Vocab(t) <=> Holding(t, w) # {}
  BY DEF Vocab, Holding

\* The record of a word.
LEMMA RecordIs ==
  ASSUME NEW t \in Seq(Texts), NEW w \in Word
  PROVE  /\ Record(t, w).fcnt \in 0 .. Len(t) /\ Record(t, w).term = w
         /\ Record(t, w).fcnt = Cardinality(Holding(t, w))
         /\ Record(t, w).wcnt = SumFunctionOnSet([d \in DOMAIN t |-> t[d][w]], DOMAIN t)
         /\ Record(t, w).fcnt > 0 <=> w \in Vocab(t)
         /\ Record(t, w) = [term |-> w, fcnt |-> Record(t, w).fcnt, wcnt |-> Record(t, w).wcnt]
  <1>1. PICK c : c = Cardinality(Holding(t, w))
    OBVIOUS
  <1>2. PICK z : z = SumFunctionOnSet([d \in DOMAIN t |-> t[d][w]], DOMAIN t)
    OBVIOUS
  <1>3. Record(t, w) = [term |-> w, fcnt |-> c, wcnt |-> z]
    BY <1>1, <1>2 DEF Record, Holding
  <1>4. c \in 0 .. Len(t)
    <2>1. Holding(t, w) \in SUBSET (1 .. Len(t)) /\ IsFiniteSet(Holding(t, w)) /\ Len(t) \in Nat
      BY TextFacts
    <2>2. 1 \in Int /\ Len(t) \in Int /\ (IF 1 > Len(t) THEN 0 ELSE Len(t) - 1 + 1) = Len(t)
      BY <2>1
    <2>3. IsFiniteSet(1 .. Len(t)) /\ Cardinality(1 .. Len(t)) = Len(t)
      BY <2>2, FS_Interval
    <2>4. c <= Len(t) /\ c \in Nat
      BY <1>1, <2>1, <2>3, FS_Subset, FS_CardinalityType
    <2> QED
      BY <2>1, <2>4
  <1>5. c > 0 <=> w \in Vocab(t)
    <2>1. IsFiniteSet(Holding(t, w))
      BY TextFacts
    <2>2. c = 0 <=> Holding(t, w) = {}
      BY <1>1, <2>1, FS_EmptySet
    <2>3. c > 0 <=> c # 0
      BY <1>4
    <2> QED
      BY <2>2, <2>3, HoldingVocab
  <1> QED
    BY <1>1, <1>2, <1>3, <1>4, <1>5

\* A dictionary has the records of the words of its documents, in order.
LEMMA DictIs ==
  ASSUME NEW t \in Seq(Texts)
  PROVE  DictWell(Dictionary(t), Terms(t), t)
  <1>1. PICK x : x = Terms(t)
    OBVIOUS
  <1>2. PICK d : d = Dictionary(t)
    OBVIOUS
  <1>3. Ordered(x, Vocab(t)) /\ Len(x) = Cardinality(Vocab(t)) /\ Len(x) \in Nat /\ DOMAIN x = 1 .. Len(x)
    <2>1. Ordered(x, Vocab(t)) /\ Len(x) = Cardinality(Vocab(t))
      BY <1>1, VocabIs, InOrderIs DEF Terms
    <2> QED
      BY <2>1, SeqFacts DEF Ordered
  <1>4. d = [i \in 1 .. Len(x) |-> Record(t, x[i])]
    <2>1. d = [i \in DOMAIN x |-> Record(t, x[i])]
      BY <1>1, <1>2 DEF Dictionary, Terms, Vocab
    <2> QED
      BY <1>3, <2>1
  <1>5. \A i \in 1 .. Len(x) : x[i] \in Vocab(t) /\ x[i] \in Word /\ x[i] \in Nat
    BY <1>3, VocabIs, SeqFacts DEF Ordered
  <1>6. \A i \in 1 .. Len(x) : /\ d[i] = Record(t, x[i]) /\ d[i].term = x[i]
                               /\ d[i].fcnt = Record(t, x[i]).fcnt /\ d[i].wcnt = Record(t, x[i]).wcnt
    <2> SUFFICES ASSUME NEW i \in 1 .. Len(x)
                 PROVE  /\ d[i] = Record(t, x[i]) /\ d[i].term = x[i]
                        /\ d[i].fcnt = Record(t, x[i]).fcnt /\ d[i].wcnt = Record(t, x[i]).wcnt
      OBVIOUS
    <2>1. d[i] = Record(t, x[i])
      BY <1>4
    <2>2. Record(t, x[i]).term = x[i]
      BY <1>5, RecordIs
    <2> QED
      BY <2>1, <2>2
  <1>7. Len(d) = Len(x) /\ DOMAIN d = 1 .. Len(x) /\ d = [i \in 1 .. Len(x) |-> d[i]]
    BY <1>3, <1>4
  <1> QED
    BY <1>1, <1>2, <1>3, <1>5, <1>6, <1>7 DEF DictWell

----------------------------------------------------------------------------
(* Collections.                                                            *)

\* A word's entry: of the gaps of its postings, coded for N documents.
GapsOf(t, w, lv) == Gaps(Index(lv)!Postings(t, w))
EntryOf(t, w, N, lv) == Padded(Coded(GapsOf(t, w, lv), BblockInit(N, Record(t, w).fcnt), lv))

\* A word's entry has a code for each of its documents, and is of whole bytes.
LEMMA EntryIs ==
  ASSUME NEW lv \in {1, 2}, NEW t \in Seq(Texts), NEW w \in Vocab(t), NEW N \in 1 .. CountLimit
  PROVE  /\ w \in Word /\ GapsOf(t, w, lv) \in Seq(Gap(lv)) /\ Len(GapsOf(t, w, lv)) = Record(t, w).fcnt
         /\ Record(t, w).fcnt \in Nat \ {0}
         /\ BblockInit(N, Record(t, w).fcnt) \in Operand
         /\ Whole(EntryOf(t, w, N, lv)) /\ EntryOf(t, w, N, lv) \in Seq(Word8)
  <1>1. w \in Word
    BY DEF Vocab
  <1>2. Record(t, w).fcnt \in Nat \ {0}
    <2>1. Record(t, w).fcnt \in 0 .. Len(t) /\ Record(t, w).fcnt > 0 /\ Len(t) \in Nat
      BY <1>1, RecordIs, SeqFacts
    <2> QED
      BY <2>1
  <1>3. BblockInit(N, Record(t, w).fcnt) \in Operand
    BY <1>2, BblockInitAny
  <1>4. PICK p : p = Index(lv)!Postings(t, w)
    OBVIOUS
  <1>5. Listing(p, lv) /\ Len(p) = Record(t, w).fcnt
    BY <1>1, <1>4, ListingIs
  <1>6. GapsWell(GapsOf(t, w, lv), p, lv)
    BY <1>4, <1>5, GapsAre DEF GapsOf
  <1>7. GapsOf(t, w, lv) \in Seq(Gap(lv)) /\ Len(GapsOf(t, w, lv)) = Record(t, w).fcnt
    BY <1>5, <1>6 DEF GapsWell
  <1>8. Coded(GapsOf(t, w, lv), BblockInit(N, Record(t, w).fcnt), lv) \in Seq(Word8)
    BY <1>3, <1>7, CodedIs
  <1>9. Whole(EntryOf(t, w, N, lv)) /\ EntryOf(t, w, N, lv) \in Seq(Word8)
    BY <1>8, PaddedIs DEF EntryOf
  <1> QED
    BY <1>1, <1>2, <1>3, <1>7, <1>9

\* The entries of a text's words.
Entries(t, N, lv) == [i \in 1 .. Len(Terms(t)) |-> EntryOf(t, Terms(t)[i], N, lv)]

\* And so have the entries of all words.
LEMMA EntriesAre ==
  ASSUME NEW lv \in {1, 2}, NEW t \in Seq(Texts), NEW N \in 1 .. CountLimit
  PROVE  /\ Entries(t, N, lv) \in Seq(Seq(Word8)) /\ Len(Entries(t, N, lv)) = Len(Terms(t))
         /\ Len(Terms(t)) \in Nat
         /\ \A i \in 1 .. Len(Terms(t)) : /\ Entries(t, N, lv)[i] = EntryOf(t, Terms(t)[i], N, lv)
                                          /\ Whole(Entries(t, N, lv)[i])
  <1>1. PICK x : x = Terms(t)
    OBVIOUS
  <1>2. Len(x) \in Nat /\ \A i \in 1 .. Len(x) : x[i] \in Vocab(t)
    BY <1>1, DictIs DEF DictWell
  <1>3. PICK e : e = Entries(t, N, lv)
    OBVIOUS
  <1>4. e = [i \in 1 .. Len(x) |-> EntryOf(t, x[i], N, lv)]
    BY <1>1, <1>3 DEF Entries
  <1>5. \A i \in 1 .. Len(x) : e[i] = EntryOf(t, x[i], N, lv) /\ Whole(e[i]) /\ e[i] \in Seq(Word8)
    BY <1>2, <1>4, EntryIs
  <1>6. e \in Seq(Seq(Word8)) /\ Len(e) = Len(x)
    <2>1. e \in [1 .. Len(x) -> Seq(Word8)]
      BY <1>4, <1>5
    <2> QED
      BY <1>2, <2>1, FunctionIsSeq
  <1> QED
    BY <1>1, <1>2, <1>3, <1>5, <1>6

\* c is a collection of the documents t.
Collection(c, t) ==
  /\ t \in Seq(Texts) /\ Len(t) \in 1 .. CountLimit
  /\ c.level \in {1, 2} /\ c.nDocs = Len(t) /\ c.static \in 1 .. CountLimit
  /\ c.dict = Dictionary(t) /\ c.ptrs = Pointers(Dictionary(t))
  /\ \E s : Laid(c.invf, c.idx, Entries(t, c.static, c.level), s)

\* What a build makes of documents is a collection of them.
LEMMA BuildIs ==
  ASSUME NEW lv \in {1, 2}, NEW t \in Seq(Texts), Len(t) \in 1 .. CountLimit
  PROVE  /\ Collection(Build(t, lv), t)
         /\ Build(t, lv).level = lv /\ Build(t, lv).static = Len(t)
  <1>1. PICK d : d = Dictionary(t)
    OBVIOUS
  <1>2. PICK x : x = Terms(t)
    OBVIOUS
  <1>3. DictWell(d, x, t)
    BY <1>1, <1>2, DictIs
  <1>4. PICK n \in Nat : n = Len(x)
    BY <1>3 DEF DictWell
  <1>5. PICK e : e = [i \in DOMAIN d |-> Padded(Coded(Gaps(Index(lv)!Postings(t, d[i].term)),
                                                     BblockInit(Len(t), d[i].fcnt), lv))]
    OBVIOUS
  <1>6. e = Entries(t, Len(t), lv)
    <2>1. DOMAIN d = 1 .. n /\ \A i \in 1 .. n : d[i].term = x[i] /\ d[i].fcnt = Record(t, x[i]).fcnt
      BY <1>3, <1>4 DEF DictWell
    <2>2. e = [i \in 1 .. n |-> EntryOf(t, x[i], Len(t), lv)]
      BY <1>5, <2>1 DEF EntryOf, GapsOf
    <2> QED
      BY <1>2, <1>4, <2>2 DEF Entries
  <1>7. e \in Seq(Seq(Word8)) /\ Len(e) = n /\ \A i \in 1 .. Len(e) : Whole(e[i])
    BY <1>2, <1>4, <1>6, EntriesAre
  <1>8. PICK f : f = Files(e)
    OBVIOUS
  <1>9. PICK g : g = [i \in 1 .. n + 1 |-> Bits(f[i - 1], DOMAIN f[i - 1]) \div 8]
    OBVIOUS
  <1>10. PICK s : Laid(f[n], g, e, s)
    BY <1>7, <1>8, <1>9, FilesLaid
  <1>11. Len(d) = n
    BY <1>3, <1>4 DEF DictWell
  <1>12. Build(t, lv) = [level |-> lv, nDocs |-> Len(t), static |-> Len(t), dict |-> d,
                         ptrs |-> Pointers(d), invf |-> f[n], idx |-> g]
    <2>1. Build(t, lv) = [level |-> lv, nDocs |-> Len(t), static |-> Len(t), dict |-> d,
                          ptrs |-> Pointers(d), invf |-> f[Len(d)],
                          idx |-> [i \in 1 .. Len(d) + 1 |-> Bits(f[i - 1], DOMAIN f[i - 1]) \div 8]]
      BY <1>1, <1>5, <1>8 DEF Build
    <2> QED
      BY <1>9, <1>11, <2>1
  <1> QED
    BY <1>1, <1>6, <1>10, <1>12 DEF Collection

----------------------------------------------------------------------------
(* The merge of the dictionaries.                                          *)

\* A word a text has not.
LEMMA RecordNone ==
  ASSUME NEW t \in Seq(Texts), NEW w \in Word
  PROVE  /\ Record(t, w).wcnt \in Nat
         /\ w \notin Vocab(t) => Record(t, w).fcnt = 0 /\ Record(t, w).wcnt = 0
  <1>1. PICK h : h = [d \in DOMAIN t |-> t[d][w]]
    OBVIOUS
  <1>2. PICK n \in Nat : n = Len(t) /\ DOMAIN t = 1 .. n
    BY SeqFacts
  <1>3. \A d \in 1 .. n : h[d] = t[d][w] /\ h[d] \in Nat
    <2>1. CountLimit \in Nat /\ \A d \in 1 .. n : t[d][w] \in 0 .. CountLimit
      BY <1>2, TextFacts
    <2>2. \A d \in 1 .. n : t[d][w] \in Nat
      BY <2>1
    <2> QED
      BY <1>1, <1>2, <2>2
  <1>4. IsFiniteSet(1 .. n)
    BY FS_Interval
  <1>5. Record(t, w).wcnt = SumFunctionOnSet(h, 1 .. n)
    BY <1>1, <1>2, RecordIs
  <1>6. SumFunctionOnSet(h, 1 .. n) \in Nat
    BY <1>3, <1>4, SumNat
  <1>7. ASSUME w \notin Vocab(t) PROVE Record(t, w).fcnt = 0 /\ Record(t, w).wcnt = 0
    <2>1. \A d \in 1 .. n : ~(t[d][w] > 0)
      BY <1>2, <1>7 DEF Vocab
    <2>2. \A d \in 1 .. n : h[d] = 0
      BY <1>3, <2>1
    <2>3. SumFunctionOnSet(h, 1 .. n) = 0
      BY <1>4, <2>2, SumZero
    <2>4. ~(Record(t, w).fcnt > 0) /\ Record(t, w).fcnt \in 0 .. n
      BY <1>2, <1>7, RecordIs
    <2>5. Record(t, w).fcnt = 0
      BY <2>4
    <2> QED
      BY <1>5, <2>3, <2>5
  <1> QED
    BY <1>5, <1>6, <1>7

\* The words before the i-th.
ReadOf(x, i) == {x[a] : a \in 1 .. i - 1}

\* The words before the i-th of x are among the words C, the others behind them.
Ahead(x, i, C) ==
  /\ i \in 1 .. Len(x) + 1
  /\ ReadOf(x, i) \subseteq C
  /\ \A a \in i .. Len(x) : \A c \in C : c < x[a]

NextOf(x, i, w) == IF i <= Len(x) /\ x[i] = w THEN i + 1 ELSE i

NextRight(V, x, C, i, w) ==
  /\ Ahead(x, NextOf(x, i, w), C \cup {w})
  /\ w \in V <=> i <= Len(x) /\ x[i] = w
  /\ ReadOf(x, NextOf(x, i, w)) = ReadOf(x, i) \cup (IF i <= Len(x) /\ x[i] = w THEN {w} ELSE {})

\* One more word w, the next of x or one before it.
LEMMA AheadNext ==
  ASSUME NEW V \in SUBSET Nat, NEW x, Ordered(x, V), NEW C \in SUBSET Nat, NEW i, Ahead(x, i, C),
         NEW w \in Nat, \A c \in C : c < w, i <= Len(x) => w <= x[i]
  PROVE  NextRight(V, x, C, i, w)
  <1>0. PICK j : j = NextOf(x, i, w) /\ j = IF i <= Len(x) /\ x[i] = w THEN i + 1 ELSE i
    BY DEF NextOf
  <1>1. PICK n \in Nat : n = Len(x) /\ \A a \in 1 .. n : x[a] \in V /\ x[a] \in Nat
    BY SeqFacts DEF Ordered
  <1>2. i \in 1 .. n + 1
    BY <1>1 DEF Ahead
  <1>3. \A a \in 1 .. i - 1 : x[a] \in C
    BY DEF Ahead, ReadOf
  <1>4. \A a \in i .. n : \A c \in C : c < x[a]
    BY <1>1 DEF Ahead
  <1>5. \A a, b \in 1 .. n : a < b => x[a] < x[b]
    BY <1>1 DEF Ordered
  <1>6. ASSUME NEW a \in i .. n PROVE w <= x[a] /\ (a > i => w < x[a])
    <2>1. i \in 1 .. n /\ a \in 1 .. n /\ w <= x[i]
      BY <1>1, <1>2, <1>6
    <2>2. a > i => x[i] < x[a]
      BY <1>5, <2>1
    <2>3. x[i] \in Nat /\ x[a] \in Nat
      BY <1>1, <2>1
    <2>4. a = i \/ a > i
      BY <1>2
    <2> QED
      BY <2>1, <2>2, <2>3, <2>4
  <1>7. w \in V <=> i <= n /\ x[i] = w
    <2>1. ASSUME w \in V PROVE i <= n /\ x[i] = w
      <3>1. PICK a \in 1 .. n : x[a] = w
        BY <1>1, <2>1 DEF Ordered
      <3>2. ~(a \in 1 .. i - 1)
        <4>1. ~(w < w)
          OBVIOUS
        <4> QED
          BY <1>3, <3>1, <4>1
      <3>3. a \in i .. n
        BY <1>1, <1>2, <3>2
      <3>4. ~(a > i)
        <4>1. ~(w < w)
          OBVIOUS
        <4> QED
          BY <1>6, <3>1, <3>3, <4>1
      <3>5. a = i /\ i <= n
        BY <1>1, <1>2, <3>3, <3>4
      <3> QED
        BY <3>1, <3>5
    <2>2. ASSUME i <= n, x[i] = w PROVE w \in V
      <3>1. i \in 1 .. n
        BY <1>1, <1>2, <2>2
      <3> QED
        BY <1>1, <2>2, <3>1
    <2> QED
      BY <2>1, <2>2
  <1>8. CASE i <= n /\ x[i] = w
    <2>1. j = i + 1 /\ j - 1 = i
      BY <1>0, <1>1, <1>2, <1>8
    <2>2. ReadOf(x, j) = ReadOf(x, i) \cup {w}
      <3>1. 1 .. j - 1 = (1 .. i - 1) \cup {i}
        BY <1>2, <2>1
      <3>2. {x[a] : a \in 1 .. j - 1} = {x[a] : a \in 1 .. i - 1} \cup {x[i]}
        BY <3>1
      <3> QED
        BY <1>8, <3>2 DEF ReadOf
    <2>3. \A a \in j .. n : \A c \in C \cup {w} : c < x[a]
      <3> SUFFICES ASSUME NEW a \in j .. n, NEW c \in C \cup {w} PROVE c < x[a]
        OBVIOUS
      <3>1. a \in i .. n /\ a > i
        BY <1>1, <1>2, <2>1
      <3> QED
        BY <1>4, <1>6, <3>1
    <2>4. j \in 1 .. n + 1
      BY <1>1, <1>2, <1>8, <2>1
    <2>5. ReadOf(x, j) \subseteq C \cup {w}
      BY <2>2 DEF Ahead
    <2>6. Ahead(x, j, C \cup {w})
      BY <1>1, <2>3, <2>4, <2>5 DEF Ahead
    <2> QED
      BY <1>0, <1>1, <1>7, <1>8, <2>2, <2>6 DEF NextRight
  <1>9. CASE ~(i <= n /\ x[i] = w)
    <2>1. j = i
      BY <1>0, <1>1, <1>9
    <2>2. \A a \in j .. n : \A c \in C \cup {w} : c < x[a]
      <3> SUFFICES ASSUME NEW a \in j .. n, NEW c \in C \cup {w} PROVE c < x[a]
        OBVIOUS
      <3>1. a \in i .. n /\ i <= n
        BY <1>1, <1>2, <2>1
      <3>2. x[i] # w
        BY <1>9, <3>1
      <3>3. w < x[a]
        <4>1. CASE a > i
          BY <1>6, <3>1, <4>1
        <4>2. CASE a = i
          <5>1. w <= x[i] /\ x[i] \in Nat
            <6>1. i \in 1 .. n
              BY <1>2, <3>1
            <6> QED
              BY <1>1, <1>6, <3>1, <4>2, <6>1
          <5> QED
            BY <3>2, <4>2, <5>1
        <4> QED
          BY <1>2, <3>1, <4>1, <4>2
      <3> QED
        BY <1>4, <3>1, <3>3
    <2>3. Ahead(x, j, C \cup {w})
      BY <1>1, <2>1, <2>2 DEF Ahead
    <2> QED
      BY <1>0, <1>1, <1>7, <1>9, <2>1, <2>3 DEF NextRight
  <1> QED
    BY <1>8, <1>9

\* The mark of a word of the texts D and E.
TypeOf(D, E, w) ==
  IF w \notin Vocab(D) THEN "NEW" ELSE IF w \notin Vocab(E) THEN "OLD" ELSE "MERGE"

MarkOf(D, E, w) ==
  [type |-> TypeOf(D, E, w), term |-> w, fcntOld |-> Record(D, w).fcnt, fcntNew |-> Record(E, w).fcnt,
   wcnt |-> Record(D, w).wcnt + Record(E, w).wcnt]

Marks(D, E) == {MarkOf(D, E, w) : w \in Word}

TermsOf(m) == [k \in 1 .. Len(m) |-> m[k].term]

\* m marks the words before the i-th of D's and the j-th of E's.
Marking(m, D, E, i, j) ==
  LET C == ReadOf(Terms(D), i) \cup ReadOf(Terms(E), j)
  IN /\ m \in Seq(Marks(D, E))
     /\ Ordered(TermsOf(m), C)
     /\ Ahead(Terms(D), i, C) /\ Ahead(Terms(E), j, C)

\* A mark's parts.
LEMMA MarkFacts ==
  ASSUME NEW D, NEW E, NEW m \in Seq(Marks(D, E))
  PROVE  /\ Len(m) \in Nat /\ m = [k \in 1 .. Len(m) |-> m[k]] /\ DOMAIN m = 1 .. Len(m)
         /\ Len(TermsOf(m)) = Len(m)
         /\ \A k \in 1 .. Len(m) : /\ m[k].term \in Word /\ m[k].term \in Nat /\ TermsOf(m)[k] = m[k].term
                                   /\ m[k] = MarkOf(D, E, m[k].term)
                                   /\ m[k].type = TypeOf(D, E, m[k].term)
                                   /\ m[k].fcntOld = Record(D, m[k].term).fcnt
                                   /\ m[k].fcntNew = Record(E, m[k].term).fcnt
                                   /\ m[k].wcnt = Record(D, m[k].term).wcnt + Record(E, m[k].term).wcnt
  <1>1. PICK n \in Nat : n = Len(m)
    BY SeqFacts
  <1>2. ASSUME NEW k \in 1 .. n
        PROVE  /\ m[k].term \in Word /\ m[k].term \in Nat
               /\ m[k] = MarkOf(D, E, m[k].term)
               /\ m[k].type = TypeOf(D, E, m[k].term)
               /\ m[k].fcntOld = Record(D, m[k].term).fcnt
               /\ m[k].fcntNew = Record(E, m[k].term).fcnt
               /\ m[k].wcnt = Record(D, m[k].term).wcnt + Record(E, m[k].term).wcnt
    <2>1. m[k] \in Marks(D, E)
      BY <1>1, SeqFacts
    <2>2. PICK w \in Word : m[k] = MarkOf(D, E, w)
      BY <2>1 DEF Marks
    <2>3. /\ m[k].term = w /\ m[k].type = TypeOf(D, E, w)
          /\ m[k].fcntOld = Record(D, w).fcnt /\ m[k].fcntNew = Record(E, w).fcnt
          /\ m[k].wcnt = Record(D, w).wcnt + Record(E, w).wcnt
      BY <2>2 DEF MarkOf
    <2>4. w \in Nat
      BY InvertedMergeAssumption
    <2> QED
      BY <2>2, <2>3, <2>4
  <1>3. m = [k \in 1 .. n |-> m[k]] /\ DOMAIN m = 1 .. n
    BY <1>1, SeqFacts
  <1>4. Len(TermsOf(m)) = n /\ \A k \in 1 .. n : TermsOf(m)[k] = m[k].term
    <2>1. TermsOf(m) = [k \in 1 .. n |-> m[k].term]
      BY <1>1 DEF TermsOf
    <2> QED
      BY <2>1
  <1> QED
    BY <1>1, <1>2, <1>3, <1>4

\* The first word is read of each dictionary.
LEMMA MarkingStarts ==
  ASSUME NEW D \in Seq(Texts), NEW E \in Seq(Texts)
  PROVE  Marking(<<>>, D, E, 1, 1)
  <1>1. ReadOf(Terms(D), 1) = {} /\ ReadOf(Terms(E), 1) = {}
    BY DEF ReadOf
  <1>2. Len(Terms(D)) \in Nat /\ Len(Terms(E)) \in Nat
    BY DictIs DEF DictWell
  <1>3. Ahead(Terms(D), 1, {}) /\ Ahead(Terms(E), 1, {})
    BY <1>1, <1>2 DEF Ahead
  <1>4. TermsOf(<<>>) = <<>>
    BY DEF TermsOf
  <1>5. Ordered(<<>>, {})
    BY DEF Ordered
  <1>6. <<>> \in Seq(Marks(D, E))
    OBVIOUS
  <1>7. ReadOf(Terms(D), 1) \cup ReadOf(Terms(E), 1) = {}
    BY <1>1
  <1> QED
    BY <1>3, <1>4, <1>5, <1>6, <1>7 DEF Marking

\* One more mark.
LEMMA MarkingNext ==
  ASSUME NEW D \in Seq(Texts), NEW E \in Seq(Texts), NEW m, NEW i, NEW j, Marking(m, D, E, i, j),
         NEW x, x = Terms(D), NEW y, y = Terms(E), NEW w,
         \/ i <= Len(x) /\ w = x[i] /\ (j <= Len(y) => x[i] <= y[j])
         \/ j <= Len(y) /\ w = y[j] /\ (i <= Len(x) => y[j] <= x[i])
  PROVE  /\ Marking(Append(m, MarkOf(D, E, w)), D, E,
                    IF w \in Vocab(D) THEN i + 1 ELSE i, IF w \in Vocab(E) THEN j + 1 ELSE j)
         /\ w \in Vocab(D) <=> i <= Len(x) /\ x[i] = w
         /\ w \in Vocab(E) <=> j <= Len(y) /\ y[j] = w
         /\ w \in Word
  <1>1. PICK C : C = ReadOf(x, i) \cup ReadOf(y, j)
    OBVIOUS
  <1>2. /\ m \in Seq(Marks(D, E))
        /\ Ordered(TermsOf(m), C) /\ Ahead(x, i, C) /\ Ahead(y, j, C)
    BY <1>1 DEF Marking
  <1>3. /\ Ordered(x, Vocab(D)) /\ Len(x) \in Nat
        /\ \A a \in 1 .. Len(x) : x[a] \in Vocab(D) /\ x[a] \in Word /\ x[a] \in Nat
    BY DictIs DEF DictWell
  <1>4. /\ Ordered(y, Vocab(E)) /\ Len(y) \in Nat
        /\ \A a \in 1 .. Len(y) : y[a] \in Vocab(E) /\ y[a] \in Word /\ y[a] \in Nat
    BY DictIs DEF DictWell
  <1>5. i \in 1 .. Len(x) + 1 /\ j \in 1 .. Len(y) + 1
    BY <1>2 DEF Ahead
  <1>6. C \in SUBSET Nat
    <2>1. ReadOf(x, i) \subseteq Nat
      <3>1. \A a \in 1 .. i - 1 : a \in 1 .. Len(x)
        BY <1>3, <1>5
      <3> QED
        BY <1>3, <3>1 DEF ReadOf
    <2>2. ReadOf(y, j) \subseteq Nat
      <3>1. \A a \in 1 .. j - 1 : a \in 1 .. Len(y)
        BY <1>4, <1>5
      <3> QED
        BY <1>4, <3>1 DEF ReadOf
    <2> QED
      BY <1>1, <2>1, <2>2
  <1>7. /\ w \in Nat /\ w \in Word /\ \A c \in C : c < w
        /\ i <= Len(x) => w <= x[i]
        /\ j <= Len(y) => w <= y[j]
    <2>1. i <= Len(x) => i \in 1 .. Len(x) /\ i \in i .. Len(x)
      BY <1>3, <1>5
    <2>2. j <= Len(y) => j \in 1 .. Len(y) /\ j \in j .. Len(y)
      BY <1>4, <1>5
    <2>3. CASE i <= Len(x) /\ w = x[i] /\ (j <= Len(y) => x[i] <= y[j])
      <3>1. w \in Nat /\ w \in Word /\ w <= w
        BY <1>3, <2>1, <2>3
      <3>2. \A c \in C : c < w
        BY <1>2, <2>1, <2>3 DEF Ahead
      <3> QED
        BY <2>3, <3>1, <3>2
    <2>4. CASE j <= Len(y) /\ w = y[j] /\ (i <= Len(x) => y[j] <= x[i])
      <3>1. w \in Nat /\ w \in Word /\ w <= w
        BY <1>4, <2>2, <2>4
      <3>2. \A c \in C : c < w
        BY <1>2, <2>2, <2>4 DEF Ahead
      <3> QED
        BY <2>4, <3>1, <3>2
    <2> QED
      BY <2>3, <2>4
  <1>8. PICK i2 : i2 = NextOf(x, i, w) /\ i2 = IF i <= Len(x) /\ x[i] = w THEN i + 1 ELSE i
    BY DEF NextOf
  <1>9. PICK j2 : j2 = NextOf(y, j, w) /\ j2 = IF j <= Len(y) /\ y[j] = w THEN j + 1 ELSE j
    BY DEF NextOf
  <1>10. Vocab(D) \in SUBSET Nat /\ Vocab(E) \in SUBSET Nat
    BY VocabIs
  <1>11. /\ Ahead(x, i2, C \cup {w})
         /\ w \in Vocab(D) <=> i <= Len(x) /\ x[i] = w
         /\ ReadOf(x, i2) = ReadOf(x, i) \cup (IF i <= Len(x) /\ x[i] = w THEN {w} ELSE {})
    <2>1. NextRight(Vocab(D), x, C, i, w)
      BY <1>2, <1>3, <1>6, <1>7, <1>10, AheadNext
    <2> QED
      BY <1>8, <2>1 DEF NextRight
  <1>12. /\ Ahead(y, j2, C \cup {w})
         /\ w \in Vocab(E) <=> j <= Len(y) /\ y[j] = w
         /\ ReadOf(y, j2) = ReadOf(y, j) \cup (IF j <= Len(y) /\ y[j] = w THEN {w} ELSE {})
    <2>1. NextRight(Vocab(E), y, C, j, w)
      BY <1>2, <1>4, <1>6, <1>7, <1>10, AheadNext
    <2> QED
      BY <1>9, <2>1 DEF NextRight
  <1>13. ReadOf(x, i2) \cup ReadOf(y, j2) = C \cup {w}
    <2>1. (i <= Len(x) /\ x[i] = w) \/ (j <= Len(y) /\ y[j] = w)
      OBVIOUS
    <2> QED
      BY <1>1, <1>11, <1>12, <2>1
  <1>14. PICK q : q = Append(m, MarkOf(D, E, w))
    OBVIOUS
  <1>15. PICK n \in Nat : n = Len(m) /\ \A k \in 1 .. n : TermsOf(m)[k] = m[k].term
    BY <1>2, MarkFacts
  <1>16. /\ q \in Seq(Marks(D, E)) /\ Len(q) = n + 1
         /\ q[n + 1] = MarkOf(D, E, w) /\ \A k \in 1 .. n : q[k] = m[k]
    <2>1. MarkOf(D, E, w) \in Marks(D, E)
      BY <1>7 DEF Marks
    <2> QED
      BY <1>2, <1>14, <1>15, <2>1, AppendProperties
  <1>17. TermsOf(q) = Append(TermsOf(m), w)
    <2>1. PICK g : g = [k \in 1 .. n + 1 |-> q[k].term]
      OBVIOUS
    <2>2. TermsOf(q) = [k \in 1 .. n + 1 |-> g[k]]
      BY <1>16, <2>1 DEF TermsOf
    <2>3. TermsOf(m) = [k \in 1 .. n |-> g[k]]
      BY <1>15, <1>16, <2>1 DEF TermsOf
    <2>4. g[n + 1] = w
      BY <1>16, <2>1 DEF MarkOf
    <2> QED
      BY <2>2, <2>3, <2>4, AppendNext
  <1>18. Ordered(TermsOf(q), C \cup {w})
    BY <1>2, <1>6, <1>7, <1>17, OrderedAppended
  <1>19. Marking(q, D, E, i2, j2)
    BY <1>11, <1>12, <1>13, <1>16, <1>18 DEF Marking
  <1>20. i2 = (IF w \in Vocab(D) THEN i + 1 ELSE i) /\ j2 = (IF w \in Vocab(E) THEN j + 1 ELSE j)
    BY <1>8, <1>9, <1>11, <1>12
  <1> QED
    BY <1>7, <1>11, <1>12, <1>14, <1>19, <1>20

----------------------------------------------------------------------------
(* Sums.                                                                   *)

\* h has the m numbers of f and, behind them, the n of g.
Glued(h, f, m, g, n) ==
  /\ m \in Nat /\ n \in Nat /\ \A i \in 1 .. m + n : h[i] \in Int
  /\ \A i \in 1 .. m : f[i] = h[i]
  /\ \A i \in 1 .. n : g[i] = h[m + i]

\* The sum over a sequence and over one behind it.
LEMMA SumJoined ==
  ASSUME NEW m, NEW n, NEW h, NEW f, NEW g, Glued(h, f, m, g, n)
  PROVE  SumFunctionOnSet(h, 1 .. m + n) = SumFunctionOnSet(f, 1 .. m) + SumFunctionOnSet(g, 1 .. n)
  <1> m \in Nat /\ n \in Nat
    BY DEF Glued
  <1>h. \A i \in 1 .. m + n : h[i] \in Int
    BY DEF Glued
  <1>f. \A i \in 1 .. m : f[i] = h[i]
    BY DEF Glued
  <1>g. \A i \in 1 .. n : g[i] = h[m + i]
    BY DEF Glued
  <1>1. PICK a : a = SumFunctionOnSet(f, 1 .. m) /\ a = SumFunctionOnSet(h, 1 .. m) /\ a \in Int
    <2>1. IsFiniteSet(1 .. m)
      BY FS_Interval
    <2>2. \A i \in 1 .. m : h[i] \in Int /\ f[i] = h[i]
      BY <1>h, <1>f
    <2> QED
      BY <2>1, <2>2, SumSame, SumInt
  <1>2. PICK G : G = {k \in Nat : k <= n =>
                        SumFunctionOnSet(h, 1 .. m + k) = a + SumFunctionOnSet(g, 1 .. k)}
    OBVIOUS
  <1>3. 0 \in G
    <2>1. 1 .. 0 = {} /\ m + 0 = m
      OBVIOUS
    <2>2. SumFunctionOnSet(g, 1 .. 0) = 0
      BY <2>1, SumEmpty
    <2> QED
      BY <1>1, <1>2, <2>1, <2>2
  <1>4. ASSUME NEW k \in Nat, k \in G PROVE k + 1 \in G
    <2>0. CASE ~(k + 1 <= n)
      BY <1>2, <2>0
    <2>1. CASE k + 1 <= n
      <3>1. PICK j \in Nat : j = k + 1
        OBVIOUS
      <3>2. PICK c \in Nat : c = m + j /\ c = (m + k) + 1 /\ m + k \in Nat
        BY <3>1
      <3>3. h[c] \in Int /\ \A i \in 1 .. m + k : h[i] \in Int
        BY <1>h, <2>1, <3>1, <3>2
      <3>4. SumFunctionOnSet(h, 1 .. c) = SumFunctionOnSet(h, 1 .. m + k) + h[c]
        <4>1. PICK b \in Nat : b = m + k
          BY <3>2
        <4>2. c = b + 1 /\ \A i \in 1 .. b : h[i] \in Int /\ h[i] = h[i]
          BY <3>2, <3>3, <4>1
        <4>3. SumFunctionOnSet(h, 1 .. c) = SumFunctionOnSet(h, 1 .. b) + h[c]
          BY <3>3, <4>2, SumNext
        <4> QED
          BY <4>1, <4>3
      <3>5. g[j] \in Int /\ g[j] = h[c]
        <4>1. j \in 1 .. n
          BY <2>1, <3>1
        <4> QED
          BY <1>g, <3>2, <3>3, <4>1
      <3>6. \A i \in 1 .. k : g[i] \in Int
        <4> SUFFICES ASSUME NEW i \in 1 .. k PROVE g[i] \in Int
          OBVIOUS
        <4>1. i \in 1 .. n /\ m + i \in 1 .. m + n
          BY <2>1
        <4> QED
          BY <1>h, <1>g, <4>1
      <3>7. SumFunctionOnSet(g, 1 .. j) = SumFunctionOnSet(g, 1 .. k) + g[j]
        BY <3>1, <3>5, <3>6, SumNext
      <3>8. SumFunctionOnSet(h, 1 .. m + k) = a + SumFunctionOnSet(g, 1 .. k)
        <4>1. k <= n
          BY <2>1
        <4> QED
          BY <1>2, <1>4, <4>1
      <3>9. SumFunctionOnSet(g, 1 .. k) \in Int
        <4>1. IsFiniteSet(1 .. k)
          BY FS_Interval
        <4> QED
          BY <3>6, <4>1, SumInt
      <3>10. SumFunctionOnSet(h, 1 .. m + j) = a + SumFunctionOnSet(g, 1 .. j)
        <4>1. SumFunctionOnSet(h, 1 .. c) = a + SumFunctionOnSet(g, 1 .. k) + g[j]
          BY <3>4, <3>5, <3>8
        <4>2. SumFunctionOnSet(h, 1 .. c) = a + SumFunctionOnSet(g, 1 .. j)
          BY <1>1, <3>5, <3>7, <3>9, <4>1
        <4> QED
          BY <3>2, <4>2
      <3> QED
        BY <1>2, <3>1, <3>10
    <2> QED
      BY <2>0, <2>1
  <1>5. n \in G
    BY <1>3, <1>4, NatInductionOnSet
  <1>6. n <= n
    OBVIOUS
  <1> QED
    BY <1>1, <1>2, <1>5, <1>6

\* The sum over the members of a set, in order.
LEMMA SumOrdered ==
  ASSUME NEW S \in SUBSET Nat, NEW x, Ordered(x, S), NEW f, \A d \in S : f[d] \in Int,
         NEW g, \A i \in 1 .. Len(x) : g[i] = f[x[i]]
  PROVE  SumFunctionOnSet(g, 1 .. Len(x)) = SumFunctionOnSet(f, S)
  <1>1. PICK n \in Nat : n = Len(x)
    BY SeqFacts DEF Ordered
  <1>2. \A a \in 1 .. n : x[a] \in S /\ x[a] \in Nat
    BY <1>1, SeqFacts DEF Ordered
  <1>3. PICK G : G = {k \in Nat : k <= n =>
                        SumFunctionOnSet(g, 1 .. k) = SumFunctionOnSet(f, {x[a] : a \in 1 .. k})
                        /\ IsFiniteSet({x[a] : a \in 1 .. k})}
    OBVIOUS
  <1>4. 0 \in G
    <2>1. 1 .. 0 = {} /\ {x[a] : a \in 1 .. 0} = {}
      OBVIOUS
    <2>2. SumFunctionOnSet(g, {}) = 0 /\ SumFunctionOnSet(f, {}) = 0 /\ IsFiniteSet({})
      BY SumEmpty, FS_EmptySet
    <2> QED
      BY <1>3, <2>1, <2>2
  <1>5. ASSUME NEW k \in Nat, k \in G PROVE k + 1 \in G
    <2>0. CASE ~(k + 1 <= n)
      BY <1>3, <2>0
    <2>1. CASE k + 1 <= n
      <3>1. PICK j \in Nat : j = k + 1 /\ j \in 1 .. n /\ k <= n
        BY <1>1, <2>1
      <3>2. PICK T : T = {x[a] : a \in 1 .. k}
        OBVIOUS
      <3>3. {x[a] : a \in 1 .. j} = T \cup {x[j]}
        <4>1. 1 .. j = (1 .. k) \cup {j}
          BY <3>1
        <4> QED
          BY <3>2, <4>1
      <3>4. x[j] \notin T
        <4> SUFFICES ASSUME NEW a \in 1 .. k PROVE x[a] # x[j]
          BY <3>2
        <4>1. a \in 1 .. Len(x) /\ j \in 1 .. Len(x) /\ a < j
          BY <1>1, <3>1
        <4>2. x[a] < x[j] /\ x[a] \in Nat /\ x[j] \in Nat
          BY <1>1, <1>2, <4>1 DEF Ordered
        <4> QED
          BY <4>2
      <3>5. T \subseteq S
        BY <1>2, <3>1, <3>2
      <3>6. SumFunctionOnSet(g, 1 .. k) = SumFunctionOnSet(f, T) /\ IsFiniteSet(T)
        BY <1>3, <1>5, <3>1, <3>2
      <3>7. SumFunctionOnSet(f, T \cup {x[j]}) = SumFunctionOnSet(f, T) + f[x[j]]
        <4>1. \A y \in T \cup {x[j]} : f[y] \in Int
          BY <1>2, <3>1, <3>5
        <4> QED
          BY <3>4, <3>6, <4>1, SumAdd
      <3>8. \A i \in 1 .. j : g[i] \in Int /\ g[i] = f[x[i]]
        BY <1>1, <1>2, <3>1
      <3>9. SumFunctionOnSet(g, 1 .. j) = SumFunctionOnSet(g, 1 .. k) + g[j]
        <4>1. g[j] \in Int /\ \A i \in 1 .. k : g[i] \in Int
          BY <3>1, <3>8
        <4> QED
          BY <3>1, <4>1, SumNext
      <3>10. IsFiniteSet(T \cup {x[j]})
        BY <3>6, FS_AddElement
      <3>11. g[j] = f[x[j]]
        BY <3>1, <3>8
      <3> QED
        BY <1>3, <3>1, <3>3, <3>6, <3>7, <3>9, <3>10, <3>11
    <2> QED
      BY <2>0, <2>1
  <1>6. n \in G
    BY <1>4, <1>5, NatInductionOnSet
  <1>7. {x[a] : a \in 1 .. n} = S
    BY <1>1, <1>2 DEF Ordered
  <1>8. n <= n
    OBVIOUS
  <1> QED
    BY <1>1, <1>3, <1>6, <1>7, <1>8

\* Two sums over a set.
LEMMA SumPlus ==
  ASSUME NEW S, IsFiniteSet(S), NEW f, NEW g, NEW h,
         \A x \in S : f[x] \in Int /\ g[x] \in Int /\ h[x] = f[x] + g[x]
  PROVE  SumFunctionOnSet(h, S) = SumFunctionOnSet(f, S) + SumFunctionOnSet(g, S)
  <1>1. PICK G : G = {T \in SUBSET S :
                        SumFunctionOnSet(h, T) = SumFunctionOnSet(f, T) + SumFunctionOnSet(g, T)}
    OBVIOUS
  <1>2. {} \in G
    <2>1. SumFunctionOnSet(h, {}) = 0 /\ SumFunctionOnSet(f, {}) = 0 /\ SumFunctionOnSet(g, {}) = 0
      BY SumEmpty
    <2> QED
      BY <1>1, <2>1
  <1>3. ASSUME NEW T \in SUBSET S, NEW x \in S \ T, T \in G PROVE T \cup {x} \in G
    <2>1. IsFiniteSet(T) /\ x \notin T
      BY FS_Subset
    <2>2. \A y \in T \cup {x} : f[y] \in Int /\ g[y] \in Int /\ h[y] = f[y] + g[y]
      OBVIOUS
    <2>3. \A y \in T \cup {x} : h[y] \in Int
      BY <2>2
    <2>4. SumFunctionOnSet(f, T \cup {x}) = SumFunctionOnSet(f, T) + f[x]
      BY <2>1, <2>2, SumAdd
    <2>5. SumFunctionOnSet(g, T \cup {x}) = SumFunctionOnSet(g, T) + g[x]
      BY <2>1, <2>2, SumAdd
    <2>6. SumFunctionOnSet(h, T \cup {x}) = SumFunctionOnSet(h, T) + h[x]
      BY <2>1, <2>3, SumAdd
    <2>7. SumFunctionOnSet(f, T) \in Int /\ SumFunctionOnSet(g, T) \in Int
      BY <2>1, <2>2, SumInt
    <2>8. SumFunctionOnSet(h, T) = SumFunctionOnSet(f, T) + SumFunctionOnSet(g, T)
      BY <1>1, <1>3
    <2>9. f[x] \in Int /\ g[x] \in Int /\ h[x] = f[x] + g[x]
      BY <2>2
    <2>10. SumFunctionOnSet(h, T \cup {x}) = SumFunctionOnSet(f, T \cup {x}) + SumFunctionOnSet(g, T \cup {x})
      BY <2>4, <2>5, <2>6, <2>7, <2>8, <2>9
    <2> QED
      BY <1>1, <2>10
  <1>4. S \in G
    BY <1>2, <1>3, FiniteInductionOnSet
  <1> QED
    BY <1>1, <1>4

----------------------------------------------------------------------------
(* The merged dictionary.                                                  *)

\* The words and the records of two texts.
LEMMA VocabJoined ==
  ASSUME NEW D \in Seq(Texts), NEW E \in Seq(Texts)
  PROVE  /\ D \o E \in Seq(Texts) /\ Len(D \o E) = Len(D) + Len(E)
         /\ Vocab(D \o E) = Vocab(D) \cup Vocab(E)
         /\ \A w \in Word : /\ Record(D \o E, w).fcnt = Record(D, w).fcnt + Record(E, w).fcnt
                            /\ Record(D \o E, w).wcnt = Record(D, w).wcnt + Record(E, w).wcnt
  <1>1. PICK t : t = D \o E
    OBVIOUS
  <1>2. t \in Seq(Texts) /\ Len(t) = Len(D) + Len(E)
    BY <1>1, ConcatProperties
  <1>3. \A w \in Word : Record(t, w).fcnt = Record(D, w).fcnt + Record(E, w).fcnt
    <2> SUFFICES ASSUME NEW w \in Word PROVE Record(t, w).fcnt = Record(D, w).fcnt + Record(E, w).fcnt
      OBVIOUS
    <2>1. Record(D \o E, w).fcnt = Record(D, w).fcnt + Record(E, w).fcnt
      <3>1. 1 \in {1, 2}
        OBVIOUS
      <3> QED
        BY <3>1, PostingsJoined
    <2> QED
      BY <1>1, <2>1
  <1>4. ASSUME NEW w \in Word PROVE w \in Vocab(t) <=> w \in Vocab(D) \cup Vocab(E)
    <2>1. /\ Record(t, w).fcnt > 0 <=> w \in Vocab(t)
          /\ Record(D, w).fcnt > 0 <=> w \in Vocab(D)
          /\ Record(E, w).fcnt > 0 <=> w \in Vocab(E)
      BY <1>2, RecordIs
    <2>2. Record(D, w).fcnt \in Nat /\ Record(E, w).fcnt \in Nat
      <3>1. Record(D, w).fcnt \in 0 .. Len(D) /\ Record(E, w).fcnt \in 0 .. Len(E)
        BY RecordIs
      <3> QED
        BY <3>1
    <2> QED
      BY <1>3, <2>1, <2>2
  <1>5. Vocab(t) = Vocab(D) \cup Vocab(E)
    <2>1. Vocab(t) \subseteq Word /\ Vocab(D) \subseteq Word /\ Vocab(E) \subseteq Word
      BY DEF Vocab
    <2> QED
      BY <1>4, <2>1
  <1>6. ASSUME NEW w \in Word PROVE Record(t, w).wcnt = Record(D, w).wcnt + Record(E, w).wcnt
    <2>1. PICK m \in Nat : m = Len(D) /\ DOMAIN D = 1 .. m
      BY SeqFacts
    <2>2. PICK n \in Nat : n = Len(E) /\ DOMAIN E = 1 .. n
      BY SeqFacts
    <2>3. DOMAIN t = 1 .. m + n
      BY <1>2, <2>1, <2>2, SeqFacts
    <2>4. PICK f : f = [d \in DOMAIN D |-> D[d][w]]
      OBVIOUS
    <2>5. PICK g : g = [d \in DOMAIN E |-> E[d][w]]
      OBVIOUS
    <2>6. PICK h : h = [d \in DOMAIN t |-> t[d][w]]
      OBVIOUS
    <2>7. \A d \in 1 .. m + n : t[d] = IF d <= m THEN D[d] ELSE E[d - m]
      BY <1>1, <2>1, <2>2, TextsJoined
    <2>8. \A d \in 1 .. m + n : h[d] \in Int
      <3>1. \A d \in 1 .. Len(t) : t[d][w] \in 0 .. CountLimit /\ CountLimit \in Nat
        BY <1>2, TextFacts
      <3>2. \A d \in 1 .. Len(t) : t[d][w] \in Int
        BY <3>1
      <3> QED
        BY <1>2, <2>1, <2>2, <2>3, <2>6, <3>2
    <2>9. \A d \in 1 .. m : f[d] = h[d]
      <3> SUFFICES ASSUME NEW d \in 1 .. m PROVE f[d] = h[d]
        OBVIOUS
      <3>1. d \in 1 .. m + n /\ d <= m
        BY <2>1, <2>2
      <3>2. t[d] = D[d]
        BY <2>7, <3>1
      <3> QED
        BY <2>1, <2>3, <2>4, <2>6, <3>1, <3>2
    <2>10. \A d \in 1 .. n : g[d] = h[m + d]
      <3> SUFFICES ASSUME NEW d \in 1 .. n PROVE g[d] = h[m + d]
        OBVIOUS
      <3>1. m + d \in 1 .. m + n /\ ~(m + d <= m) /\ (m + d) - m = d
        BY <2>1, <2>2
      <3>2. t[m + d] = E[d]
        BY <2>7, <3>1
      <3> QED
        BY <2>2, <2>3, <2>5, <2>6, <3>1, <3>2
    <2>11. SumFunctionOnSet(h, 1 .. m + n) = SumFunctionOnSet(f, 1 .. m) + SumFunctionOnSet(g, 1 .. n)
      <3>1. Glued(h, f, m, g, n)
        BY <2>8, <2>9, <2>10 DEF Glued
      <3> QED
        BY <3>1, SumJoined
    <2>12. /\ Record(t, w).wcnt = SumFunctionOnSet(h, 1 .. m + n)
           /\ Record(D, w).wcnt = SumFunctionOnSet(f, 1 .. m)
           /\ Record(E, w).wcnt = SumFunctionOnSet(g, 1 .. n)
      <3>1. Record(t, w).wcnt = SumFunctionOnSet(h, 1 .. m + n)
        BY <1>2, <2>3, <2>6, RecordIs
      <3>2. Record(D, w).wcnt = SumFunctionOnSet(f, 1 .. m)
        BY <2>1, <2>4, RecordIs
      <3>3. Record(E, w).wcnt = SumFunctionOnSet(g, 1 .. n)
        BY <2>2, <2>5, RecordIs
      <3> QED
        BY <3>1, <3>2, <3>3
    <2> QED
      BY <2>11, <2>12
  <1> QED
    BY <1>1, <1>2, <1>3, <1>5, <1>6

\* All pointers: what each word has.
LEMMA PointersAre ==
  ASSUME NEW t \in Seq(Texts)
  PROVE  Pointers(Dictionary(t)) = SumFunctionOnSet([w \in Word |-> Record(t, w).fcnt], Word)
  <1>1. PICK d : d = Dictionary(t)
    OBVIOUS
  <1>2. PICK x : x = Terms(t)
    OBVIOUS
  <1>3. DictWell(d, x, t)
    BY <1>1, <1>2, DictIs
  <1>4. PICK f : f = [w \in Word |-> Record(t, w).fcnt]
    OBVIOUS
  <1>5. PICK g : g = [i \in DOMAIN d |-> d[i].fcnt]
    OBVIOUS
  <1>6. /\ Ordered(x, Vocab(t)) /\ DOMAIN d = 1 .. Len(x)
        /\ \A i \in 1 .. Len(x) : d[i].fcnt = Record(t, x[i]).fcnt /\ x[i] \in Word
    BY <1>3 DEF DictWell
  <1>7. \A w \in Word : f[w] = Record(t, w).fcnt /\ f[w] \in Int /\ (w \notin Vocab(t) => f[w] = 0)
    <2> SUFFICES ASSUME NEW w \in Word
                 PROVE  f[w] = Record(t, w).fcnt /\ f[w] \in Int /\ (w \notin Vocab(t) => f[w] = 0)
      OBVIOUS
    <2>1. f[w] = Record(t, w).fcnt
      BY <1>4
    <2>2. Record(t, w).fcnt \in 0 .. Len(t)
      BY RecordIs
    <2>3. w \notin Vocab(t) => Record(t, w).fcnt = 0
      BY RecordNone
    <2> QED
      BY <2>1, <2>2, <2>3
  <1>8. \A i \in 1 .. Len(x) : g[i] = f[x[i]]
    BY <1>5, <1>6, <1>7
  <1>9. Vocab(t) \in SUBSET Nat /\ Vocab(t) \in SUBSET Word /\ IsFiniteSet(Word)
    BY VocabIs
  <1>10. SumFunctionOnSet(g, 1 .. Len(x)) = SumFunctionOnSet(f, Vocab(t))
    <2>1. \A w \in Vocab(t) : f[w] \in Int
      BY <1>7, <1>9
    <2> QED
      BY <1>6, <1>8, <1>9, <2>1, SumOrdered
  <1>11. SumFunctionOnSet(f, Word) = SumFunctionOnSet(f, Vocab(t))
    <2>1. \A w \in Word : f[w] \in Int
      BY <1>7
    <2>2. \A w \in Word \ Vocab(t) : f[w] = 0
      BY <1>7
    <2> QED
      BY <1>9, <2>1, <2>2, SumSupport
  <1>12. Pointers(d) = SumFunctionOnSet(g, 1 .. Len(x))
    BY <1>5, <1>6 DEF Pointers
  <1> QED
    BY <1>1, <1>4, <1>10, <1>11, <1>12

\* The pointers of two texts add up.
LEMMA PointersJoined ==
  ASSUME NEW D \in Seq(Texts), NEW E \in Seq(Texts)
  PROVE  Pointers(Dictionary(D \o E)) = Pointers(Dictionary(D)) + Pointers(Dictionary(E))
  <1>1. PICK f : f = [w \in Word |-> Record(D, w).fcnt]
    OBVIOUS
  <1>2. PICK g : g = [w \in Word |-> Record(E, w).fcnt]
    OBVIOUS
  <1>3. PICK h : h = [w \in Word |-> Record(D \o E, w).fcnt]
    OBVIOUS
  <1>4. \A w \in Word : f[w] \in Int /\ g[w] \in Int /\ h[w] = f[w] + g[w]
    <2> SUFFICES ASSUME NEW w \in Word PROVE f[w] \in Int /\ g[w] \in Int /\ h[w] = f[w] + g[w]
      OBVIOUS
    <2>1. f[w] = Record(D, w).fcnt /\ g[w] = Record(E, w).fcnt /\ h[w] = Record(D \o E, w).fcnt
      BY <1>1, <1>2, <1>3
    <2>2. Record(D, w).fcnt \in 0 .. Len(D) /\ Record(E, w).fcnt \in 0 .. Len(E)
      BY RecordIs
    <2>3. Record(D \o E, w).fcnt = Record(D, w).fcnt + Record(E, w).fcnt
      BY VocabJoined
    <2> QED
      BY <2>1, <2>2, <2>3
  <1>5. IsFiniteSet(Word)
    BY VocabIs
  <1>6. SumFunctionOnSet(h, Word) = SumFunctionOnSet(f, Word) + SumFunctionOnSet(g, Word)
    BY <1>4, <1>5, SumPlus
  <1>7. D \o E \in Seq(Texts)
    BY VocabJoined
  <1> QED
    BY <1>1, <1>2, <1>3, <1>6, <1>7, PointersAre

\* m marks all words of D and E.
Marked(m, D, E) ==
  /\ m \in Seq(Marks(D, E))
  /\ TermsOf(m) = Terms(D \o E) /\ Len(m) = Len(Terms(D \o E))
  /\ Ordered(TermsOf(m), Vocab(D \o E))

\* With both dictionaries read to their ends, all words are marked.
LEMMA MarkingDone ==
  ASSUME NEW D \in Seq(Texts), NEW E \in Seq(Texts), NEW m, NEW i, NEW j, Marking(m, D, E, i, j),
         i > Len(Terms(D)), j > Len(Terms(E))
  PROVE  Marked(m, D, E)
  <1>1. PICK x : x = Terms(D)
    OBVIOUS
  <1>2. PICK y : y = Terms(E)
    OBVIOUS
  <1>3. PICK C : C = ReadOf(x, i) \cup ReadOf(y, j)
    OBVIOUS
  <1>4. /\ m \in Seq(Marks(D, E))
        /\ Ordered(TermsOf(m), C) /\ Ahead(x, i, C) /\ Ahead(y, j, C)
    BY <1>1, <1>2, <1>3 DEF Marking
  <1>5. Ordered(x, Vocab(D)) /\ Len(x) \in Nat /\ \A a \in 1 .. Len(x) : x[a] \in Vocab(D)
    BY <1>1, DictIs DEF DictWell
  <1>6. Ordered(y, Vocab(E)) /\ Len(y) \in Nat /\ \A a \in 1 .. Len(y) : y[a] \in Vocab(E)
    BY <1>2, DictIs DEF DictWell
  <1>7. 1 .. i - 1 = 1 .. Len(x) /\ 1 .. j - 1 = 1 .. Len(y)
    <2>1. i \in 1 .. Len(x) + 1 /\ j \in 1 .. Len(y) + 1 /\ i > Len(x) /\ j > Len(y)
      BY <1>1, <1>2, <1>4 DEF Ahead
    <2>2. i - 1 = Len(x) /\ j - 1 = Len(y)
      BY <1>5, <1>6, <2>1
    <2> QED
      BY <2>2
  <1>8. ReadOf(x, i) = Vocab(D)
    BY <1>5, <1>7 DEF ReadOf, Ordered
  <1>9. ReadOf(y, j) = Vocab(E)
    BY <1>6, <1>7 DEF ReadOf, Ordered
  <1>10. C = Vocab(D \o E) /\ C \in SUBSET Nat
    BY <1>3, <1>8, <1>9, VocabJoined, VocabIs
  <1>11. TermsOf(m) = Terms(D \o E)
    BY <1>4, <1>10, OrderUnique DEF Terms
  <1>12. Len(TermsOf(m)) = Len(m)
    BY <1>4, MarkFacts
  <1> QED
    BY <1>4, <1>10, <1>11, <1>12 DEF Marked

\* No more marks than words.
LEMMA MarkingShort ==
  ASSUME NEW D \in Seq(Texts), NEW E \in Seq(Texts), NEW m, NEW i, NEW j, Marking(m, D, E, i, j)
  PROVE  Len(m) \in Nat /\ Len(m) <= Cardinality(Word)
  <1>1. PICK C : C = ReadOf(Terms(D), i) \cup ReadOf(Terms(E), j)
    OBVIOUS
  <1>2. /\ m \in Seq(Marks(D, E)) /\ Ordered(TermsOf(m), C)
    BY <1>1 DEF Marking
  <1>3. Len(m) \in Nat /\ Len(TermsOf(m)) = Len(m)
        /\ \A k \in 1 .. Len(m) : TermsOf(m)[k] \in Word
    BY <1>2, MarkFacts
  <1>4. C \subseteq Word
    BY <1>2, <1>3 DEF Ordered
  <1>5. Word \subseteq Nat /\ IsFiniteSet(Word)
    BY InvertedMergeAssumption
  <1>6. C \in SUBSET Nat
    BY <1>4, <1>5
  <1>7. Cardinality(C) = Len(m)
    BY <1>2, <1>3, <1>6, OrderUnique
  <1> QED
    BY <1>3, <1>4, <1>5, <1>7, FS_Subset

\* The merged dictionary is that of all documents.
LEMMA DictMerged ==
  ASSUME NEW D \in Seq(Texts), NEW E \in Seq(Texts), NEW m, Marked(m, D, E)
  PROVE  [k \in DOMAIN m |-> [term |-> m[k].term, fcnt |-> m[k].fcntOld + m[k].fcntNew, wcnt |-> m[k].wcnt]]
           = Dictionary(D \o E)
  <1>1. PICK t : t = D \o E /\ t \in Seq(Texts)
    BY VocabJoined
  <1>2. PICK d : d = Dictionary(t)
    OBVIOUS
  <1>3. PICK x : x = Terms(t)
    OBVIOUS
  <1>4. DictWell(d, x, t)
    BY <1>1, <1>2, <1>3, DictIs
  <1>5. m \in Seq(Marks(D, E)) /\ TermsOf(m) = x /\ Len(m) = Len(x)
    BY <1>1, <1>3 DEF Marked
  <1>6. PICK n \in Nat : n = Len(m)
    BY <1>5, MarkFacts
  <1>7. DOMAIN m = 1 .. n
    BY <1>5, <1>6, MarkFacts
  <1>8. ASSUME NEW k \in 1 .. n
        PROVE  [term |-> m[k].term, fcnt |-> m[k].fcntOld + m[k].fcntNew, wcnt |-> m[k].wcnt] = d[k]
    <2>1. /\ m[k].term \in Word /\ TermsOf(m)[k] = m[k].term
          /\ m[k].fcntOld = Record(D, m[k].term).fcnt
          /\ m[k].fcntNew = Record(E, m[k].term).fcnt
          /\ m[k].wcnt = Record(D, m[k].term).wcnt + Record(E, m[k].term).wcnt
      BY <1>5, <1>6, MarkFacts
    <2>2. PICK w \in Word : w = m[k].term /\ w = x[k]
      BY <1>5, <2>1
    <2>3. d[k] = Record(t, w)
      BY <1>4, <1>5, <1>6, <2>2 DEF DictWell
    <2>4. Record(t, w) = [term |-> w, fcnt |-> Record(t, w).fcnt, wcnt |-> Record(t, w).wcnt]
      BY <1>1, RecordIs
    <2>5. /\ Record(t, w).fcnt = Record(D, w).fcnt + Record(E, w).fcnt
          /\ Record(t, w).wcnt = Record(D, w).wcnt + Record(E, w).wcnt
      BY <1>1, VocabJoined
    <2> QED
      BY <2>1, <2>2, <2>3, <2>4, <2>5
  <1>9. d = [k \in 1 .. n |-> d[k]]
    BY <1>4, <1>5, <1>6 DEF DictWell
  <1> QED
    BY <1>1, <1>2, <1>7, <1>8, <1>9

----------------------------------------------------------------------------
(* Reading a collection.                                                   *)

\* The i-th of the entries e in their place in f.
PlaceOf(f, idx, e, s, i) ==
  /\ f \in Seq(Word8) /\ Len(f) \in Nat /\ Len(e) \in Nat
  /\ s[i] \in 1 .. Len(f) + 1 /\ s[i + 1] \in s[i] .. Len(f) + 1
  /\ s[i + 1] = s[i] + Len(e[i]) /\ Stands(e[i], f, s[i])
  /\ Held(f, 1, idx[i]) = s[i] - 1
  /\ Held(f, s[i], idx[i + 1] - idx[i]) = s[i + 1] - s[i]
  /\ SubSeq(f, s[i], s[i + 1] - 1) = e[i]

\* An offset is where its entry starts, and the next one where it ends.
LEMMA PlaceIs ==
  ASSUME NEW f, NEW idx, NEW e, NEW s, Laid(f, idx, e, s), NEW i \in 1 .. Len(e)
  PROVE  PlaceOf(f, idx, e, s, i)
  <1>1. /\ f \in Seq(Word8) /\ e \in Seq(Seq(Word8)) /\ idx \in Seq(Nat) /\ s \in Seq(Nat \ {0})
        /\ Len(idx) = Len(e) + 1 /\ Len(s) = Len(e) + 1
        /\ s[i + 1] = s[i] + Len(e[i]) /\ Stands(e[i], f, s[i])
        /\ \A j \in 1 .. Len(e) + 1 : s[j] <= Len(f) + 1 /\ Bits(f, 1 .. s[j] - 1) = 8 * idx[j]
    BY DEF Laid
  <1>2. PICK n \in Nat : n = Len(e)
    BY <1>1, SeqFacts
  <1>3. PICK l \in Nat : l = Len(f)
    BY <1>1, SeqFacts
  <1>4. i \in 1 .. n + 1 /\ i + 1 \in 1 .. n + 1 /\ i \in Nat
    BY <1>2
  <1>5. PICK a \in Nat \ {0} : a = s[i] /\ a <= l + 1
    <2>1. s[i] \in Nat \ {0}
      BY <1>1, <1>2, <1>4, SeqFacts
    <2> QED
      BY <1>1, <1>2, <1>3, <1>4, <2>1
  <1>6. PICK b \in Nat \ {0} : b = s[i + 1] /\ b <= l + 1
    <2>1. s[i + 1] \in Nat \ {0}
      BY <1>1, <1>2, <1>4, SeqFacts
    <2> QED
      BY <1>1, <1>2, <1>3, <1>4, <2>1
  <1>7. PICK x : x = e[i] /\ x \in Seq(Word8) /\ Len(x) \in Nat
    <2>1. e[i] \in Seq(Word8)
      BY <1>1, SeqFacts
    <2> QED
      BY <2>1, SeqFacts
  <1>8. b = a + Len(x) /\ Stands(x, f, a)
    <2>1. b = a + Len(x)
      BY ONLY <1>1, <1>5, <1>6, <1>7
    <2>2. Stands(x, f, a)
      BY ONLY <1>1, <1>5, <1>7
    <2> QED
      BY <2>1, <2>2
  <1>8a. a <= b
    BY <1>5, <1>6, <1>7, <1>8
  <1>9. PICK p \in Nat : p = idx[i]
    BY <1>1, <1>2, <1>4, SeqFacts
  <1>10. PICK q \in Nat : q = idx[i + 1]
    BY <1>1, <1>2, <1>4, SeqFacts
  <1>11. Bits(f, 1 .. a - 1) = 8 * p /\ Bits(f, 1 .. b - 1) = 8 * q
    BY <1>1, <1>2, <1>4, <1>5, <1>6, <1>9, <1>10
  <1>12. Held(f, 1, p) = a - 1
    <2>1. 1 \in 1 .. Len(f) + 1 /\ a \in 1 .. Len(f) + 1 /\ p \in Int
      BY <1>3, <1>5, <1>9
    <2> QED
      BY <1>1, <1>11, <2>1, HeldIs
  <1>13. Held(f, a, q - p) = b - a
    <2>1. a \in 1 .. Len(f) + 1 /\ b \in a .. Len(f) + 1 /\ b - 1 \in a - 1 .. Len(f)
      BY <1>3, <1>5, <1>6, <1>8a
    <2>1a. q - p \in Int
      BY <1>9, <1>10
    <2>2. Bits(f, a .. b - 1) = 8 * (q - p)
      <3>1. Bits(f, a .. b - 1) = Bits(f, 1 .. b - 1) - Bits(f, 1 .. a - 1)
        BY <1>1, <2>1, BitsRange
      <3>2. PICK u : u = Bits(f, 1 .. a - 1)
        OBVIOUS
      <3>3. PICK v : v = Bits(f, 1 .. b - 1)
        OBVIOUS
      <3>4. u = 8 * p /\ v = 8 * q
        BY ONLY <1>11, <3>2, <3>3
      <3>5. \A y, z \in Nat : 8 * z - 8 * y = 8 * (z - y)
        OBVIOUS
      <3>6. p \in Nat /\ q \in Nat
        OBVIOUS
      <3>7. v - u = 8 * (q - p)
        BY ONLY <3>4, <3>5, <3>6
      <3> QED
        BY ONLY <3>1, <3>2, <3>3, <3>7
    <2> QED
      BY <1>1, <2>1, <2>1a, <2>2, HeldIs
  <1>14. SubSeq(f, a, b - 1) = x
    <2>1. PICK n2 \in Nat : n2 = Len(x) /\ b = a + n2
      BY <1>7, <1>8
    <2>2. \A k \in 1 .. n2 : f[a + k - 1] = x[k] /\ x[k] \in Word8
      BY <1>7, <1>8, <2>1, SeqFacts DEF Stands
    <2>3. a \in Int /\ b - 1 \in Int /\ (b - 1) - a + 1 = n2 /\ \A k \in a .. b - 1 : k \in 1 .. l
      <3>1. a \in Int /\ b \in Int /\ b - 1 \in Int /\ a >= 1 /\ b - 1 <= l
        BY <1>3, <1>5, <1>6
      <3>2. (b - 1) - a + 1 = n2
        BY ONLY <2>1, <3>1
      <3>3. \A k \in a .. b - 1 : k \in 1 .. l
        BY ONLY <1>3, <3>1
      <3> QED
        BY <3>1, <3>2, <3>3
    <2>4. \A k \in a .. b - 1 : f[k] \in Word8
      BY <1>1, <1>3, <2>3, SeqFacts
    <2>5. PICK y : y = SubSeq(f, a, b - 1)
      OBVIOUS
    <2>6. y \in Seq(Word8) /\ Len(y) = IF a <= b - 1 THEN (b - 1) - a + 1 ELSE 0
      BY <2>3, <2>4, <2>5, SubSeqProperties
    <2>7. \A k \in 1 .. n2 : y[k] = f[a + k - 1]
      BY <2>3, <2>4, <2>5, SubSeqProperties
    <2>8. Len(y) = n2
      <3>1. a \in Nat /\ b \in Nat /\ b - 1 \in Int /\ n2 \in Nat
        OBVIOUS
      <3>2. (b - 1) - a + 1 = n2 /\ (~(a <= b - 1) => n2 = 0)
        BY <2>1, <3>1
      <3> QED
        BY <2>6, <3>2
    <2>9. y = [k \in 1 .. n2 |-> y[k]] /\ x = [k \in 1 .. n2 |-> x[k]]
      <3>1. y = [k \in 1 .. Len(y) |-> y[k]]
        BY <2>6, SeqFacts
      <3>2. x = [k \in 1 .. Len(x) |-> x[k]]
        BY <1>7, SeqFacts
      <3> QED
        BY <2>1, <2>8, <3>1, <3>2
    <2>10. \A k \in 1 .. n2 : y[k] = x[k]
      BY <2>2, <2>7
    <2>11. y = x
      BY <2>9, <2>10
    <2> QED
      BY <2>5, <2>11
  <1>15. Len(f) \in Nat /\ Len(e) \in Nat /\ a \in 1 .. Len(f) + 1 /\ b \in a .. Len(f) + 1
    BY <1>2, <1>3, <1>5, <1>6, <1>8a
  <1> QED
    BY ONLY <1>1, <1>5, <1>6, <1>7, <1>8, <1>9, <1>10, <1>12, <1>13, <1>14, <1>15 DEF PlaceOf

\* What a query reads of a word's entry.
EntryWell(c, t, s, i) ==
  LET w == Terms(t)[i]
      n == Record(t, w).fcnt
      b == BblockInit(c.static, n)
  IN /\ Decoded(c.invf, s[i], n, b, c.level) = GapsOf(t, w, c.level)
     /\ Behind(c.invf, s[i], n, c.level) = s[i + 1]
     /\ \A j \in 1 .. n : LET word == c.invf[s[i] + c.level * (j - 1)].binary
                          IN word.nbits = BinaryDecode(word, b).used

\* c is laid out at the places s.
Placed(c, t, s) == Laid(c.invf, c.idx, Entries(t, c.static, c.level), s)

\* By its index and by its counts, an entry is found at its place in the file.
LEMMA CollectionRead ==
  ASSUME NEW c, NEW t, Collection(c, t), NEW s, Placed(c, t, s), NEW i \in 1 .. Len(Terms(t))
  PROVE  /\ EntryWell(c, t, s, i)
         /\ Terms(t)[i] \in Vocab(t)
         /\ c.invf \in Seq(Word8) /\ Len(c.invf) \in Nat
         /\ s[i] \in 1 .. Len(c.invf) + 1
         /\ Held(c.invf, 1, c.idx[i]) = s[i] - 1
         /\ Held(c.invf, s[i], c.idx[i + 1] - c.idx[i]) = s[i + 1] - s[i]
         /\ SubSeq(c.invf, s[i], s[i + 1] - 1) = EntryOf(t, Terms(t)[i], c.static, c.level)
  <1>1. PICK lv \in {1, 2} : lv = c.level
    BY DEF Collection
  <1>2. PICK N \in 1 .. CountLimit : N = c.static
    BY DEF Collection
  <1>3. t \in Seq(Texts)
    BY DEF Collection
  <1>4. PICK w : w = Terms(t)[i]
    OBVIOUS
  <1>5. w \in Vocab(t)
    BY <1>3, <1>4, DictIs DEF DictWell
  <1>6. PICK e : e = Entries(t, N, lv)
    OBVIOUS
  <1>7. Len(e) = Len(Terms(t)) /\ e[i] = EntryOf(t, w, N, lv) /\ i \in 1 .. Len(e)
    BY <1>3, <1>4, <1>6, EntriesAre
  <1>8. PICK f : f = c.invf
    OBVIOUS
  <1>9. PICK idx : idx = c.idx
    OBVIOUS
  <1>10. Laid(f, idx, e, s)
    BY <1>1, <1>2, <1>6, <1>8, <1>9 DEF Placed
  <1>11. /\ f \in Seq(Word8) /\ Len(f) \in Nat
         /\ s[i] \in 1 .. Len(f) + 1
         /\ s[i + 1] = s[i] + Len(e[i]) /\ Stands(e[i], f, s[i])
         /\ Held(f, 1, idx[i]) = s[i] - 1
         /\ Held(f, s[i], idx[i + 1] - idx[i]) = s[i + 1] - s[i]
         /\ SubSeq(f, s[i], s[i + 1] - 1) = e[i]
    <2>1. PlaceOf(f, idx, e, s, i)
      BY <1>7, <1>10, PlaceIs
    <2> QED
      BY <2>1 DEF PlaceOf
  <1>12. PICK n : n = Record(t, w).fcnt
    OBVIOUS
  <1>13. PICK b \in Operand : b = BblockInit(N, n)
    BY <1>3, <1>5, <1>12, EntryIs
  <1>14. PICK g \in Seq(Gap(lv)) : g = GapsOf(t, w, lv) /\ Len(g) = n
    BY <1>3, <1>5, <1>12, EntryIs
  <1>15. e[i] = Padded(Coded(g, b, lv))
    BY <1>7, <1>12, <1>13, <1>14 DEF EntryOf
  <1>16. PICK p : p = s[i]
    OBVIOUS
  <1>17. Stands(Padded(Coded(g, b, lv)), f, p)
    BY <1>11, <1>15, <1>16
  <1>18. /\ Decoded(f, p, Len(g), b, lv) = g
         /\ Behind(f, p, Len(g), lv) = p + Len(Padded(Coded(g, b, lv)))
         /\ \A j \in 1 .. Len(g) :
              LET word == f[p + lv * (j - 1)].binary IN word.nbits = BinaryDecode(word, b).used
    BY <1>11, <1>17, EntryRead
  <1>19. Behind(f, p, n, lv) = s[i + 1]
    BY <1>11, <1>14, <1>15, <1>16, <1>18
  <1>20. EntryWell(c, t, s, i)
    BY <1>1, <1>2, <1>4, <1>8, <1>12, <1>13, <1>14, <1>16, <1>18, <1>19 DEF EntryWell
  <1> QED
    BY <1>1, <1>2, <1>4, <1>5, <1>7, <1>8, <1>9, <1>11, <1>20

\* The first h words of x are those of the first k of y that x has.
Passed(h, x, y, k) ==
  /\ h \in 0 .. Len(x)
  /\ \A a \in 1 .. Len(x) : a <= h <=> \E b \in 1 .. k : y[b] = x[a]

\* One word on.
LEMMA PassedNext ==
  ASSUME NEW U \in SUBSET Nat, NEW V \in SUBSET U, NEW y, Ordered(y, U), NEW x, Ordered(x, V),
         NEW h, NEW k \in Nat, Passed(h, x, y, k), k < Len(y)
  PROVE  /\ y[k + 1] \in V => /\ h + 1 \in 1 .. Len(x) /\ x[h + 1] = y[k + 1]
                              /\ Passed(h + 1, x, y, k + 1)
         /\ y[k + 1] \notin V => Passed(h, x, y, k + 1)
         /\ h \in 0 .. Len(x) /\ Len(x) \in Nat
  <1>1. PICK n \in Nat : n = Len(x) /\ \A a \in 1 .. n : x[a] \in V
    BY SeqFacts DEF Ordered
  <1>2. PICK m \in Nat : m = Len(y) /\ \A a \in 1 .. m : y[a] \in U
    BY SeqFacts DEF Ordered
  <1>3. h \in 0 .. n /\ \A a \in 1 .. n : a <= h <=> \E b \in 1 .. k : y[b] = x[a]
    BY <1>1 DEF Passed
  <1>4. PICK j \in Nat : j = k + 1 /\ j \in 1 .. m
    BY <1>2
  <1>5. \A b : b \in 1 .. j <=> b \in 1 .. k \/ b = j
    BY <1>4
  <1>6. ASSUME y[j] \in V PROVE h + 1 \in 1 .. n /\ x[h + 1] = y[j] /\ Passed(h + 1, x, y, j)
    <2>1. PICK a \in 1 .. n : x[a] = y[j]
      BY <1>1, <1>6 DEF Ordered
    <2>2. ~(a <= h)
      <3> SUFFICES ASSUME NEW b \in 1 .. k, y[b] = x[a] PROVE FALSE
        BY <1>3
      <3>1. b \in 1 .. Len(y) /\ j \in 1 .. Len(y) /\ b < j
        BY <1>2, <1>4
      <3>2. y[b] < y[j] /\ y[b] \in Nat /\ y[j] \in Nat
        BY <1>2, <3>1 DEF Ordered
      <3> QED
        BY <2>1, <3>2
    <2>3. h + 1 \in 1 .. n /\ h + 1 <= a
      BY <1>3, <2>2
    <2>4. ASSUME h + 1 < a PROVE FALSE
      <3>1. x[h + 1] < x[a]
        BY <1>1, <2>3, <2>4 DEF Ordered
      <3>2. x[h + 1] \in U /\ x[h + 1] \in Nat
        BY <1>1, <2>3
      <3>3. PICK b \in 1 .. m : y[b] = x[h + 1]
        BY <1>2, <3>2 DEF Ordered
      <3>4. y[b] < y[j] /\ y[b] \in Nat /\ y[j] \in Nat
        BY <1>2, <1>4, <2>1, <3>1, <3>3
      <3>5. b < j
        <4>1. CASE j < b
          <5>1. y[j] < y[b]
            BY <1>2, <1>4, <4>1 DEF Ordered
          <5> QED
            BY <3>4, <5>1
        <4>2. CASE j = b
          BY <3>4, <4>2
        <4> QED
          BY <1>4, <4>1, <4>2
      <3>6. b \in 1 .. k
        BY <1>4, <3>5
      <3>7. h + 1 <= h
        BY <1>3, <2>3, <3>3, <3>6
      <3> QED
        BY <1>3, <3>7
    <2>5. a = h + 1
      BY <1>3, <2>3, <2>4
    <2>6. x[h + 1] = y[j]
      BY <2>1, <2>5
    <2>7. ASSUME NEW c \in 1 .. n PROVE c <= h + 1 <=> \E b \in 1 .. j : y[b] = x[c]
      <3>1. CASE c = h + 1
        <4>1. c <= h + 1 /\ j \in 1 .. j
          BY <1>3, <1>4, <3>1
        <4> QED
          BY <2>6, <3>1, <4>1
      <3>2. CASE c # h + 1
        <4>1. c <= h + 1 <=> c <= h
          BY <1>3, <3>2
        <4>2. y[j] # x[c]
          <5>1. c < h + 1 \/ h + 1 < c
            BY <1>3, <3>2
          <5>2. x[c] < x[h + 1] \/ x[h + 1] < x[c]
            BY <1>1, <2>3, <5>1 DEF Ordered
          <5>3. x[c] \in Nat /\ x[h + 1] \in Nat
            BY <1>1, <2>3
          <5> QED
            BY <2>6, <5>2, <5>3
        <4> QED
          BY <1>3, <1>5, <4>1, <4>2
      <3> QED
        BY <3>1, <3>2
    <2>8. h + 1 \in 0 .. Len(x)
      BY <1>1, <2>3
    <2>9. Passed(h + 1, x, y, j)
      BY <1>1, <2>7, <2>8 DEF Passed
    <2> QED
      BY <2>3, <2>6, <2>9
  <1>7. ASSUME y[j] \notin V PROVE Passed(h, x, y, j)
    <2>1. \A c \in 1 .. n : y[j] # x[c]
      BY <1>1, <1>7
    <2>2. \A c \in 1 .. n : c <= h <=> \E b \in 1 .. j : y[b] = x[c]
      BY <1>3, <1>5, <2>1
    <2> QED
      BY <1>1, <1>3, <2>2 DEF Passed
  <1> QED
    BY <1>1, <1>3, <1>4, <1>6, <1>7

\* At first nothing is passed.
LEMMA PassedNone ==
  ASSUME NEW x, Len(x) \in Nat, NEW y
  PROVE  Passed(0, x, y, 0)
  BY DEF Passed

----------------------------------------------------------------------------
(* A merged entry.                                                         *)

\* How many of the first marks are of other types.
Others(m, n, type) == Cardinality({i \in 1 .. n : m[i].type # type})

\* One mark on.
LEMMA HadNext ==
  ASSUME NEW m, NEW type, NEW n \in Nat
  PROVE  /\ Others(m, n, type) \in Nat
         /\ Others(m, n + 1, type) =
              IF m[n + 1].type # type THEN Others(m, n, type) + 1 ELSE Others(m, n, type)
  <1> DEFINE S == {i \in 1 .. n : m[i].type # type}
             T == {i \in 1 .. n + 1 : m[i].type # type}
  <1>1. IsFiniteSet(S)
    <2>1. IsFiniteSet(1 .. n) /\ S \subseteq 1 .. n
      BY FS_Interval
    <2> QED
      BY <2>1, FS_Subset
  <1>2. Cardinality(S) \in Nat
    BY <1>1, FS_CardinalityType
  <1>3. CASE m[n + 1].type # type
    <2>1. T = S \cup {n + 1} /\ n + 1 \notin S
      BY <1>3
    <2>2. Cardinality(T) = Cardinality(S) + 1
      BY <1>1, <2>1, FS_AddElement
    <2> QED
      BY <1>2, <1>3, <2>2 DEF Others
  <1>4. CASE m[n + 1].type = type
    <2>1. T = S
      BY <1>4
    <2> QED
      BY <1>2, <1>4, <2>1 DEF Others
  <1> QED
    BY <1>3, <1>4

\* The word of a mark.
MarkRight(k, m, D, E) ==
  LET w == Terms(D \o E)[k]
  IN /\ w \in Word /\ w \in Vocab(D \o E) /\ m[k].term = w
     /\ m[k].type # "NEW" <=> w \in Vocab(D)
     /\ m[k].type # "OLD" <=> w \in Vocab(E)
     /\ m[k].fcntOld = Record(D, w).fcnt /\ m[k].fcntNew = Record(E, w).fcnt

\* What the mark of a word says.
LEMMA MarkIs ==
  ASSUME NEW D \in Seq(Texts), NEW E \in Seq(Texts), NEW m, Marked(m, D, E), NEW k \in 1 .. Len(m)
  PROVE  MarkRight(k, m, D, E) /\ Len(m) \in Nat
  <1>1. m \in Seq(Marks(D, E)) /\ TermsOf(m) = Terms(D \o E) /\ Ordered(TermsOf(m), Vocab(D \o E))
    BY DEF Marked
  <1>2. PICK w : w = m[k].term
    OBVIOUS
  <1>3. /\ w \in Word /\ TermsOf(m)[k] = w
        /\ m[k].type = TypeOf(D, E, w)
        /\ m[k].fcntOld = Record(D, w).fcnt /\ m[k].fcntNew = Record(E, w).fcnt
    BY <1>1, <1>2, MarkFacts
  <1>4. Terms(D \o E)[k] = w
    BY <1>1, <1>3
  <1>5. Len(TermsOf(m)) = Len(m) /\ Len(m) \in Nat
    BY <1>1, MarkFacts
  <1>6. w \in Vocab(D \o E)
    <2>1. TermsOf(m) \in Seq(Vocab(D \o E)) /\ k \in 1 .. Len(TermsOf(m))
      BY <1>1, <1>5 DEF Ordered
    <2> QED
      BY <1>3, <2>1, SeqFacts
  <1>7. w \in Vocab(D) \/ w \in Vocab(E)
    BY <1>6, VocabJoined
  <1>8. m[k].type # "NEW" <=> w \in Vocab(D)
    BY <1>3 DEF TypeOf
  <1>9. m[k].type # "OLD" <=> w \in Vocab(E)
    BY <1>3, <1>7 DEF TypeOf
  <1> QED
    BY <1>2, <1>3, <1>4, <1>5, <1>6, <1>8, <1>9 DEF MarkRight

\* Nothing is listed for a word nobody holds.
LEMMA GapsNone ==
  ASSUME NEW lv \in {1, 2}, NEW t \in Seq(Texts), NEW w \in Word, w \notin Vocab(t)
  PROVE  GapsOf(t, w, lv) = <<>> /\ Record(t, w).fcnt = 0 /\ Len(Index(lv)!Postings(t, w)) = 0
  <1>1. PICK p : p = Index(lv)!Postings(t, w)
    OBVIOUS
  <1>2. Listing(p, lv) /\ Len(p) = Record(t, w).fcnt
    BY <1>1, ListingIs
  <1>3. Record(t, w).fcnt = 0
    BY RecordNone
  <1>4. PICK g : g = Gaps(p)
    OBVIOUS
  <1>5. g \in Seq(Gap(lv)) /\ Len(g) = Len(p)
    BY <1>2, <1>4, GapsAre DEF GapsWell
  <1>6. g = <<>>
    BY <1>2, <1>3, <1>5
  <1> QED
    BY <1>1, <1>2, <1>3, <1>4, <1>6 DEF GapsOf

\* A word's gaps read from the place of the next entry, and the place behind them.
LEMMA PartRead ==
  ASSUME NEW c, NEW t, Collection(c, t), NEW s, Placed(c, t, s), NEW w \in Word,
         NEW h \in 0 .. Len(Terms(t)),
         w \in Vocab(t) => h + 1 \in 1 .. Len(Terms(t)) /\ Terms(t)[h + 1] = w,
         NEW n, n = Record(t, w).fcnt
  PROVE  /\ Decoded(c.invf, s[h + 1], n, BblockInit(c.static, n), c.level) = GapsOf(t, w, c.level)
         /\ Behind(c.invf, s[h + 1], n, c.level) = s[(IF w \in Vocab(t) THEN h + 1 ELSE h) + 1]
  <1>1. CASE w \in Vocab(t)
    <2>1. EntryWell(c, t, s, h + 1)
      BY <1>1, CollectionRead
    <2> QED
      BY <1>1, <2>1 DEF EntryWell
  <1>2. CASE w \notin Vocab(t)
    <2>1. t \in Seq(Texts) /\ c.level \in {1, 2} /\ c.static \in 1 .. CountLimit
      BY DEF Collection
    <2>2. GapsOf(t, w, c.level) = <<>> /\ n = 0
      BY <1>2, <2>1, GapsNone
    <2>3. s \in Seq(Nat \ {0}) /\ Len(s) = Len(Entries(t, c.static, c.level)) + 1
      BY DEF Placed, Laid
    <2>4. Len(Entries(t, c.static, c.level)) = Len(Terms(t)) /\ Len(Terms(t)) \in Nat
      BY <2>1, EntriesAre
    <2>5. h + 1 \in 1 .. Len(s)
      BY <2>3, <2>4
    <2>6. s[h + 1] \in Nat \ {0}
      BY <2>3, <2>5, SeqFacts
    <2>7. /\ Decoded(c.invf, s[h + 1], 0, BblockInit(c.static, n), c.level) = <<>>
          /\ Behind(c.invf, s[h + 1], 0, c.level) = s[h + 1]
      BY <2>1, <2>6, EntryNone
    <2> QED
      BY <1>2, <2>2, <2>7
  <1> QED
    BY <1>1, <1>2

\* An entry that gets nothing new is the merged one.
LEMMA EntryKept ==
  ASSUME NEW D \in Seq(Texts), NEW E \in Seq(Texts), NEW w \in Word, w \notin Vocab(E),
         NEW lv \in {1, 2}, NEW N
  PROVE  EntryOf(D \o E, w, N, lv) = EntryOf(D, w, N, lv)
  <1>1. PICK q : q = Index(lv)!Postings(E, w)
    OBVIOUS
  <1>2. PICK g : g = Gaps(Index(lv)!Postings(D, w)) /\ g = GapsOf(D, w, lv)
    BY DEF GapsOf
  <1>3. PICK h : h = Gaps(q)
    OBVIOUS
  <1>3a. PICK m : m = Moved(h, Len(D) - LastOf(g))
    OBVIOUS
  <1>4. g \o m = GapsOf(D \o E, w, lv) /\ MovedWell(m, g, q, Len(D), lv)
    <2>1. g \o m = Gaps(Index(lv)!Postings(D \o E, w)) /\ MovedWell(m, g, q, Len(D), lv)
      <3>1. Joining(g, h, m, D, E, w, lv)
        BY <1>1, <1>2, <1>3, <1>3a DEF Joining
      <3> QED
        BY <1>1, <3>1, GapsJoined
    <2> QED
      BY <2>1 DEF GapsOf
  <1>5. Len(q) = 0
    BY <1>1, GapsNone
  <1>6. m \in Seq(Gap(lv)) /\ Len(m) = 0
    BY <1>4, <1>5 DEF MovedWell
  <1>7. m = <<>>
    BY <1>6
  <1>8. g \in Seq(Gap(lv))
    <2>1. Listing(Index(lv)!Postings(D, w), lv)
      BY ListingIs
    <2> QED
      BY <1>2, <2>1, GapsAre DEF GapsWell, GapsOf
  <1>9. g \o m = g
    BY <1>7, <1>8
  <1>10. Record(D \o E, w).fcnt = Record(D, w).fcnt
    <2>1. Record(D \o E, w).fcnt = Record(D, w).fcnt + Record(E, w).fcnt /\ Record(E, w).fcnt = 0
      BY VocabJoined, GapsNone
    <2>2. Record(D, w).fcnt \in Nat
      <3>1. Record(D, w).fcnt \in 0 .. Len(D) /\ Len(D) \in Nat
        BY RecordIs, SeqFacts
      <3> QED
        BY <3>1
    <2> QED
      BY <2>1, <2>2
  <1> QED
    BY <1>2, <1>4, <1>9, <1>10 DEF EntryOf

----------------------------------------------------------------------------
(* Weights.                                                                *)

\* What a document's weight is summed from, by the first k words of t.
Summed(t, text, k) ==
  LET x    == Terms(t)
      held == InOrder({i \in 1 .. k : text[x[i]] > 0})
  IN [j \in DOMAIN held |-> [tf |-> text[x[held[j]]], fcnt |-> Record(t, x[held[j]]).fcnt]]

\* And by one word.
Part(t, text, w) == IF text[w] > 0 THEN <<[tf |-> text[w], fcnt |-> Record(t, w).fcnt]>> ELSE <<>>

\* Nothing, in order.
LEMMA NoneInOrder == InOrder({}) = <<>>
  <1>1. Ordered(InOrder({}), {}) /\ Len(InOrder({})) = Cardinality({}) /\ IsFiniteSet({})
    BY InOrderIs, FS_EmptySet
  <1>2. InOrder({}) \in Seq({}) /\ Len(InOrder({})) = 0
    BY <1>1, FS_EmptySet DEF Ordered
  <1> QED
    BY <1>2

\* One number, in order.
LEMMA OneInOrder ==
  ASSUME NEW i \in Nat
  PROVE  InOrder({i}) = <<i>>
  <1>1. <<i>> \in Seq({i}) /\ Len(<<i>>) = 1 /\ <<i>>[1] = i
    OBVIOUS
  <1>2. Ordered(<<i>>, {i})
    <2>1. \A x, y \in 1 .. Len(<<i>>) : x < y => <<i>>[x] < <<i>>[y]
      BY <1>1
    <2>2. \A d \in {i} : \E x \in 1 .. Len(<<i>>) : <<i>>[x] = d
      BY <1>1
    <2> QED
      BY <1>1, <2>1, <2>2 DEF Ordered
  <1> QED
    BY <1>2, OrderUnique

\* Before the first word nothing is summed.
LEMMA SummedNone ==
  ASSUME NEW t, NEW text
  PROVE  Summed(t, text, 0) = <<>>
  <1>1. {i \in 1 .. 0 : text[Terms(t)[i]] > 0} = {}
    OBVIOUS
  <1>2. InOrder({i \in 1 .. 0 : text[Terms(t)[i]] > 0}) = <<>>
    BY <1>1, NoneInOrder
  <1>3. DOMAIN InOrder({i \in 1 .. 0 : text[Terms(t)[i]] > 0}) = {}
    BY <1>2
  <1> QED
    BY <1>3 DEF Summed

\* And with each word its part is.
LEMMA SummedNext ==
  ASSUME NEW t, NEW text, NEW k \in Nat
  PROVE  Summed(t, text, k + 1) = Summed(t, text, k) \o Part(t, text, Terms(t)[k + 1])
  <1>1. PICK x : x = Terms(t)
    OBVIOUS
  <1>2. PICK S : S = {i \in 1 .. k : text[x[i]] > 0}
    OBVIOUS
  <1>3. PICK R : R = {i \in 1 .. k + 1 : text[x[i]] > 0}
    OBVIOUS
  <1>4. S \in SUBSET Nat /\ IsFiniteSet(S)
    <2>1. IsFiniteSet(1 .. k) /\ S \subseteq 1 .. k
      BY <1>2, FS_Interval
    <2> QED
      BY <1>2, <2>1, FS_Subset
  <1>5. PICK h : h = InOrder(S)
    OBVIOUS
  <1>6. Ordered(h, S)
    BY <1>4, <1>5, InOrderIs
  <1>7. PICK n \in Nat : n = Len(h)
    BY <1>6, SeqFacts DEF Ordered
  <1>8. h \in Seq(S) /\ DOMAIN h = 1 .. n
    BY <1>6, <1>7, SeqFacts DEF Ordered
  <1>9. PICK f : f = [j \in 1 .. n |-> [tf |-> text[x[h[j]]], fcnt |-> Record(t, x[h[j]]).fcnt]]
    OBVIOUS
  <1>10. Summed(t, text, k) = f
    BY <1>1, <1>2, <1>5, <1>8, <1>9 DEF Summed
  <1>11. PICK r : r = [tf |-> text[x[k + 1]], fcnt |-> Record(t, x[k + 1]).fcnt]
    OBVIOUS
  <1>12. PICK V : V = {f[j] : j \in 1 .. n} \cup {r}
    OBVIOUS
  <1>13. f \in Seq(V) /\ Len(f) = n
    <2>1. f \in [1 .. n -> V]
      BY <1>9, <1>12
    <2> QED
      BY <2>1, FunctionIsSeq
  <1>14. CASE text[x[k + 1]] > 0
    <2>1. R = S \cup {k + 1}
      BY <1>2, <1>3, <1>14
    <2>2. PICK a : a = Append(h, k + 1)
      OBVIOUS
    <2>3. Ordered(a, R)
      <3>1. \A d \in S : d < k + 1
        BY <1>2
      <3> QED
        BY <1>4, <1>6, <2>1, <2>2, <3>1, OrderedAppended
    <2>4. InOrder(R) = a
      <3>1. R \in SUBSET Nat
        BY <1>3
      <3> QED
        BY <2>3, <3>1, OrderUnique
    <2>5. DOMAIN a = 1 .. n + 1 /\ a[n + 1] = k + 1 /\ \A j \in 1 .. n : a[j] = h[j]
      <3>1. h \in Seq(Nat)
        <4>1. h = [j \in 1 .. n |-> h[j]] /\ \A j \in 1 .. n : h[j] \in Nat
          BY <1>4, <1>7, <1>8, SeqFacts
        <4>2. h \in [1 .. n -> Nat]
          BY <4>1
        <4> QED
          BY <4>2, FunctionIsSeq
      <3> QED
        BY <1>7, <2>2, <3>1
    <2>6. PICK u : u = [j \in 1 .. n + 1 |-> [tf |-> text[x[a[j]]], fcnt |-> Record(t, x[a[j]]).fcnt]]
      OBVIOUS
    <2>7. Summed(t, text, k + 1) = u
      BY <1>1, <1>3, <2>4, <2>5, <2>6 DEF Summed
    <2>8. u[n + 1] = r /\ \A j \in 1 .. n : u[j] = f[j]
      <3>1. u[n + 1] = r
        BY <1>7, <1>11, <2>5, <2>6
      <3>2. ASSUME NEW j \in 1 .. n PROVE u[j] = f[j]
        <4>1. j \in 1 .. n + 1 /\ a[j] = h[j]
          BY <1>7, <2>5
        <4> QED
          BY <1>9, <2>6, <4>1
      <3> QED
        BY <3>1, <3>2
    <2>9. u = f \o <<r>>
      <3>1. <<r>> \in Seq(V) /\ Len(<<r>>) = 1 /\ <<r>>[1] = r
        BY <1>12
      <3>2. PICK v : v = f \o <<r>>
        OBVIOUS
      <3>3. v \in Seq(V) /\ Len(v) = n + 1 /\ v[n + 1] = r /\ \A j \in 1 .. n : v[j] = f[j]
        BY <1>7, <1>13, <3>1, <3>2
      <3>4. v = [j \in 1 .. n + 1 |-> v[j]]
        BY <3>3, SeqFacts
      <3>5. \A j \in 1 .. n + 1 : v[j] = u[j]
        BY <1>7, <2>8, <3>3
      <3>6. u = [j \in 1 .. n + 1 |-> u[j]]
        BY <2>6
      <3> QED
        BY <3>2, <3>4, <3>5, <3>6
    <2>10. Part(t, text, Terms(t)[k + 1]) = <<r>>
      BY <1>1, <1>11, <1>14 DEF Part
    <2> QED
      BY <1>10, <2>7, <2>9, <2>10
  <1>15. CASE ~(text[x[k + 1]] > 0)
    <2>1. R = S
      BY <1>2, <1>3, <1>15
    <2>2. Summed(t, text, k + 1) = Summed(t, text, k)
      BY <1>1, <1>2, <1>3, <2>1 DEF Summed
    <2>3. Part(t, text, Terms(t)[k + 1]) = <<>>
      BY <1>1, <1>15 DEF Part
    <2>4. f \o <<>> = f
      BY <1>13
    <2> QED
      BY <1>10, <2>2, <2>3, <2>4
  <1> QED
    BY <1>14, <1>15

\* The new document a gap leads to, and the gaps that lead to a document.
DocOf(g, m, n, i) == LastOf(g) + UpTo(m, i) - n

Leading(g, m, n, d) == {i \in DOMAIN m : DocOf(g, m, n, i) = d}

Got(g, m, n, d, fcnt) ==
  LET parts == InOrder(Leading(g, m, n, d))
  IN [k \in DOMAIN parts |-> [tf |-> m[parts[k]].tf, fcnt |-> fcnt]]

\* What a new document gets of a merged entry.
LEMMA PartIs ==
  ASSUME NEW D \in Seq(Texts), NEW E \in Seq(Texts), NEW w \in Word, NEW g, NEW h, NEW m,
         Joining(g, h, m, D, E, w, 2), NEW d \in 1 .. Len(E)
  PROVE  Got(g, m, Len(D), d, Record(D \o E, w).fcnt) = Part(D \o E, E[d], w)
  <1>0. PICK parts : parts = InOrder(Leading(g, m, Len(D), d))
    OBVIOUS
  <1>1. PICK q : q = Index(2)!Postings(E, w)
    OBVIOUS
  <1>2. MovedWell(m, g, q, Len(D), 2)
    BY <1>1, GapsJoined
  <1>3. PICK s : s = HoldingList(E, w)
    OBVIOUS
  <1>4. ListedWell(q, s, 2, E, w)
    BY <1>1, <1>3, ListedIs
  <1>5. PICK n \in Nat : n = Len(q)
    BY <1>2 DEF MovedWell
  <1>6. DOMAIN m = 1 .. n /\ \A i \in 1 .. n : m[i].tf = q[i].tf /\ DocOf(g, m, Len(D), i) = q[i].doc
    BY <1>2, <1>5 DEF MovedWell, DocOf
  <1>7. Len(s) = n /\ \A i \in 1 .. n : q[i].doc = s[i] /\ q[i].tf = E[s[i]][w]
    <2>1. Len(q) = Len(s) /\ \A i \in 1 .. Len(s) : q[i].doc = s[i] /\ q[i].tf = TfAt(2, E, s[i], w)
      BY <1>4 DEF ListedWell
    <2>2. \A i : TfAt(2, E, s[i], w) = E[s[i]][w]
      BY DEF TfAt
    <2> QED
      BY <1>5, <2>1, <2>2
  <1>8. PICK S : S = Leading(g, m, Len(D), d)
    OBVIOUS
  <1>9. S = {i \in 1 .. n : s[i] = d}
    BY <1>6, <1>7, <1>8 DEF Leading
  <1>10. Ordered(s, Holding(E, w))
    BY <1>4 DEF ListedWell
  <1>11. CASE E[d][w] > 0
    <2>1. d \in Holding(E, w)
      BY <1>11, SeqFacts DEF Holding
    <2>2. PICK i \in 1 .. n : s[i] = d
      BY <1>7, <1>10, <2>1 DEF Ordered
    <2>3. \A j \in 1 .. n : s[j] = d => j = i
      <3> SUFFICES ASSUME NEW j \in 1 .. n, s[j] = d, j # i PROVE FALSE
        OBVIOUS
      <3>1. i < j \/ j < i
        OBVIOUS
      <3>2. s[i] < s[j] \/ s[j] < s[i]
        BY <1>7, <1>10, <3>1 DEF Ordered
      <3> QED
        BY <2>2, <3>2
    <2>4. S = {i}
      BY <1>9, <2>2, <2>3
    <2>5. parts = <<i>>
      BY <1>0, <1>8, <2>4, OneInOrder
    <2>6. DOMAIN parts = 1 .. 1 /\ parts[1] = i
      BY <2>5
    <2>7. m[i].tf = E[d][w]
      BY <1>6, <1>7, <2>2
    <2>8. PICK r : r = [tf |-> E[d][w], fcnt |-> Record(D \o E, w).fcnt]
      OBVIOUS
    <2>9. [k \in 1 .. 1 |-> [tf |-> m[parts[k]].tf, fcnt |-> Record(D \o E, w).fcnt]] = [k \in 1 .. 1 |-> r]
      BY <2>6, <2>7, <2>8
    <2>10. [k \in 1 .. 1 |-> r] = <<r>>
      OBVIOUS
    <2>11. Part(D \o E, E[d], w) = <<r>>
      BY <1>11, <2>8 DEF Part
    <2> QED
      BY <1>0, <2>6, <2>9, <2>10, <2>11 DEF Got
  <1>12. CASE ~(E[d][w] > 0)
    <2>1. S = {}
      <3> SUFFICES ASSUME NEW i \in 1 .. n, s[i] = d PROVE FALSE
        BY <1>9
      <3>1. s[i] \in Holding(E, w)
        BY <1>7, <1>10, SeqFacts DEF Ordered
      <3> QED
        BY <1>12, <3>1 DEF Holding
    <2>2. parts = <<>>
      BY <1>0, <1>8, <2>1, NoneInOrder
    <2>3. DOMAIN parts = {}
      BY <2>2
    <2>4. Part(D \o E, E[d], w) = <<>>
      BY <1>12 DEF Part
    <2> QED
      BY <1>0, <2>3, <2>4 DEF Got
  <1> QED
    BY <1>11, <1>12

\* The gaps lead to new documents.
LEMMA LedToNew ==
  ASSUME NEW D \in Seq(Texts), NEW E \in Seq(Texts), NEW w \in Word, NEW lv \in {1, 2},
         NEW g, NEW h, NEW m, Joining(g, h, m, D, E, w, lv), NEW i \in DOMAIN m
  PROVE  DocOf(g, m, Len(D), i) \in 1 .. Len(E)
  <1>1. PICK q : q = Index(lv)!Postings(E, w)
    OBVIOUS
  <1>2. MovedWell(m, g, q, Len(D), lv)
    BY <1>1, GapsJoined
  <1>3. i \in 1 .. Len(q) /\ DocOf(g, m, Len(D), i) = q[i].doc
    BY <1>2 DEF MovedWell, DocOf
  <1>4. q[i].doc \in 1 .. Len(E)
    BY <1>1, <1>3, ListingIs
  <1> QED
    BY <1>3, <1>4

----------------------------------------------------------------------------
(* The invariant.                                                          *)

\* The entries of the first k words.
FirstEntries(t, k, N, lv) == [i \in 1 .. k |-> EntryOf(t, Terms(t)[i], N, lv)]

\* The last n documents' weights are summed from the first k words.
Weighed(k, n) ==
  weigh = [d \in 1 .. n |-> IF old.level = 1 THEN <<>> ELSE Summed(all, all[Len(all) - n + d], k)]

\* The dictionaries are merged, and no entry has been read.
ReadingLexicon(D, E) ==
  /\ Marking(marks, D, E, term_count.old, term_count.new)
  /\ at = [old |-> 1, new |-> 1] /\ idxAt = 1 /\ out = Nothing
  /\ Weighed(0, Len(E))

\* The entries of the first k words have been put out: both files are read behind those of
\* the k words that they have, and what is out is laid out as a file of both texts would be.
ReadingFiles(D, E) ==
  LET k == Len(out.idx)
  IN /\ Marked(marks, D, E)
     /\ out.idx \in Seq(Nat) /\ k <= Len(marks)
     /\ \E s : Placed(old, D, s) /\ at.old = s[Had("NEW") + 1]
     /\ \E s : Placed(new, E, s) /\ at.new = s[Had("OLD") + 1]
     /\ at = [old |-> at.old, new |-> at.new]
     /\ Passed(Had("NEW"), Terms(D), Terms(D \o E), k)
     /\ Passed(Had("OLD"), Terms(E), Terms(D \o E), k)
     /\ idxAt = IF fast THEN Had("NEW") + 1 ELSE 1
     /\ \E s : Laid(out.words, Append(out.idx, BytesOut),
                    FirstEntries(D \o E, k, MergedStatic, old.level), s)
     /\ Weighed(k, Len(E))

\* Documents E are merged to documents D.
Merging(D, E) ==
  /\ all = D \o E /\ Collection(old, D) /\ Collection(new, E)
  /\ new.static = new.nDocs /\ new.level = old.level
  /\ Len(all) <= MaxBuilt + (merges + 1) * MaxNew /\ merges + 1 \in 0 .. MaxMerges
  /\ term_count.old \in 0 .. Len(old.dict) + 1
  /\ phase = "lexicon" => ReadingLexicon(D, E)
  /\ phase = "invf" => ReadingFiles(D, E)

\* At rest: the old files are of all documents.
Merged ==
  /\ Collection(old, all)
  /\ Len(all) <= MaxBuilt + merges * MaxNew
  /\ \E n \in 0 .. Len(all) : Weighed(Len(Terms(all)), n)

\* What every step keeps within bounds.
Bounds ==
  /\ merges \in 0 .. MaxMerges /\ fast \in BOOLEAN /\ phase \in {"idle", "lexicon", "invf"}
  /\ term_count.new \in 0 .. Len(new.dict) + 1
  /\ at.new \in 1 .. Len(new.invf) + 1
  /\ Len(marks) <= Cardinality(Word)

\* The invariant.
IInv ==
  /\ Bounds
  /\ phase = "idle" => Merged
  /\ phase # "idle" => \E D, E : Merging(D, E)

\* A collection's parts.
LEMMA CollectionParts ==
  ASSUME NEW c, NEW t, Collection(c, t)
  PROVE  /\ t \in Seq(Texts) /\ Len(t) \in 1 .. CountLimit /\ Len(t) \in Nat
         /\ c.level \in {1, 2} /\ c.nDocs = Len(t) /\ c.static \in 1 .. CountLimit
         /\ c.dict = Dictionary(t) /\ c.ptrs = Pointers(Dictionary(t))
         /\ Len(c.dict) = Len(Terms(t)) /\ Len(Terms(t)) \in Nat
         /\ Len(c.idx) = Len(Terms(t)) + 1 /\ Len(c.invf) \in Nat
         /\ \E s : Placed(c, t, s)
  <1>1. PICK s : Laid(c.invf, c.idx, Entries(t, c.static, c.level), s)
    BY DEF Collection
  <1>2. t \in Seq(Texts) /\ c.level \in {1, 2} /\ c.static \in 1 .. CountLimit
    BY DEF Collection
  <1>3. DictWell(Dictionary(t), Terms(t), t)
    BY <1>2, DictIs
  <1>4. Len(Dictionary(t)) = Len(Terms(t)) /\ Len(Terms(t)) \in Nat
    BY <1>3 DEF DictWell
  <1>5. c.invf \in Seq(Word8) /\ Len(c.idx) = Len(Entries(t, c.static, c.level)) + 1
    BY <1>1 DEF Laid
  <1>6. Len(c.idx) = Len(Terms(t)) + 1
    BY <1>2, <1>5, EntriesAre
  <1>7. Len(c.invf) \in Nat /\ Len(t) \in Nat
    BY <1>2, <1>5, SeqFacts
  <1>8. Placed(c, t, s)
    BY <1>1 DEF Placed
  <1> QED
    BY <1>2, <1>4, <1>6, <1>7, <1>8 DEF Collection

\* A place that is reached.
LEMMA PlaceReached ==
  ASSUME NEW c, NEW t, Collection(c, t), NEW s, Placed(c, t, s), NEW h \in 0 .. Len(Terms(t))
  PROVE  s[h + 1] \in 1 .. Len(c.invf) + 1 /\ Bits(c.invf, 1 .. s[h + 1] - 1) = 8 * c.idx[h + 1]
  <1>1. PICK e : e = Entries(t, c.static, c.level)
    OBVIOUS
  <1>2. Laid(c.invf, c.idx, e, s)
    BY <1>1 DEF Placed
  <1>3. Len(e) = Len(Terms(t)) /\ Len(Terms(t)) \in Nat
    BY <1>1, EntriesAre DEF Collection
  <1>4. h + 1 \in 1 .. Len(e) + 1
    BY <1>3
  <1>5. /\ s \in Seq(Nat \ {0}) /\ Len(s) = Len(e) + 1
        /\ s[h + 1] <= Len(c.invf) + 1 /\ Bits(c.invf, 1 .. s[h + 1] - 1) = 8 * c.idx[h + 1]
    BY <1>2, <1>4 DEF Laid
  <1>6. s[h + 1] \in Nat \ {0}
    BY <1>4, <1>5, SeqFacts
  <1>7. Len(c.invf) \in Nat
    BY CollectionParts
  <1> QED
    BY <1>5, <1>6, <1>7

\* The invariant says what the type invariant does.
LEMMA InvType == IInv => TypeOK
  <1> SUFFICES ASSUME IInv PROVE TypeOK
    OBVIOUS
  <1>1. Bounds
    BY DEF IInv
  <1>2. CASE phase = "idle"
    BY <1>1, <1>2 DEF TypeOK, Bounds
  <1>3. CASE phase # "idle"
    <2>1. PICK D, E : Merging(D, E)
      BY <1>3 DEF IInv
    <2>2. Collection(old, D) /\ Collection(new, E) /\ term_count.old \in 0 .. Len(old.dict) + 1
      BY <2>1 DEF Merging
    <2>3. new.nDocs = Len(E) /\ Len(E) \in Nat
      BY <2>2, CollectionParts
    <2>4. Len(old.idx) = Len(Terms(D)) + 1 /\ Len(Terms(D)) \in Nat /\ Len(old.invf) \in Nat
      BY <2>2, CollectionParts
    <2>5. CASE phase = "lexicon"
      <3>1. ReadingLexicon(D, E)
        BY <2>1, <2>5 DEF Merging
      <3>2. at.old = 1 /\ idxAt = 1 /\ DOMAIN weigh = 1 .. new.nDocs
        BY <2>3, <3>1 DEF ReadingLexicon, Weighed
      <3> QED
        BY <1>1, <2>2, <2>4, <3>2 DEF TypeOK, Bounds
    <2>6. CASE phase = "invf"
      <3>1. ReadingFiles(D, E)
        BY <2>1, <2>6 DEF Merging
      <3>2. PICK s : Placed(old, D, s) /\ at.old = s[Had("NEW") + 1]
        BY <3>1 DEF ReadingFiles
      <3>3. Had("NEW") \in 0 .. Len(Terms(D))
        BY <3>1 DEF ReadingFiles, Passed
      <3>4. at.old \in 1 .. Len(old.invf) + 1
        BY <2>2, <3>2, <3>3, PlaceReached
      <3>5. idxAt \in 1 .. Len(old.idx)
        <4>1. idxAt = IF fast THEN Had("NEW") + 1 ELSE 1
          BY <3>1 DEF ReadingFiles
        <4> QED
          BY <2>4, <3>3, <4>1
      <3>6. DOMAIN weigh = 1 .. new.nDocs
        BY <2>3, <3>1 DEF ReadingFiles, Weighed
      <3> QED
        BY <1>1, <2>2, <3>4, <3>5, <3>6 DEF TypeOK, Bounds
    <2> QED
      BY <1>1, <1>3, <2>5, <2>6 DEF Bounds
  <1> QED
    BY <1>2, <1>3

\* And what InStep does.
LEMMA InvInStep == IInv => InStep
  <1> SUFFICES ASSUME IInv, phase = "invf" PROVE InStep
    BY DEF InStep
  <1>1. PICK D, E : Merging(D, E)
    BY DEF IInv
  <1>2. Collection(old, D) /\ Collection(new, E) /\ ReadingFiles(D, E)
    BY <1>1 DEF Merging
  <1>3. PICK s : Placed(old, D, s) /\ at.old = s[Had("NEW") + 1]
    BY <1>2 DEF ReadingFiles
  <1>4. PICK r : Placed(new, E, r) /\ at.new = r[Had("OLD") + 1]
    BY <1>2 DEF ReadingFiles
  <1>5. /\ Had("NEW") \in 0 .. Len(Terms(D)) /\ Had("OLD") \in 0 .. Len(Terms(E))
        /\ fast => idxAt = Had("NEW") + 1
    BY <1>2 DEF ReadingFiles, Passed
  <1>6. Bits(old.invf, 1 .. at.old - 1) = 8 * old.idx[Had("NEW") + 1]
    BY <1>2, <1>3, <1>5, PlaceReached
  <1>7. Bits(new.invf, 1 .. at.new - 1) = 8 * new.idx[Had("OLD") + 1]
    BY <1>2, <1>4, <1>5, PlaceReached
  <1> QED
    BY <1>5, <1>6, <1>7 DEF InStep

\* The i-th entry, read from the place its offset gives.
ListRight(c, t, i, s) ==
  LET list == Decoded(c.invf, s[i], c.dict[i].fcnt, BblockInit(c.static, c.dict[i].fcnt), c.level)
  IN /\ [j \in DOMAIN list |-> [doc |-> UpTo(list, j), tf |-> list[j].tf]]
          = Index(c.level)!Postings(t, c.dict[i].term)
     /\ \A j \in DOMAIN list : LET word == c.invf[s[i] + c.level * (j - 1)].binary
                               IN word.nbits = BinaryDecode(word, BblockInit(c.static, c.dict[i].fcnt)).used

\* A query reads the list of a word back from a collection.
LEMMA ListAnswers ==
  ASSUME NEW c, NEW t, Collection(c, t), NEW s, Placed(c, t, s), NEW i \in 1 .. Len(Terms(t))
  PROVE  ListRight(c, t, i, s) /\ s[i] = Held(c.invf, 1, c.idx[i]) + 1
  <1>1. PICK lv \in {1, 2} : lv = c.level
    BY DEF Collection
  <1>2. PICK w : w = Terms(t)[i]
    OBVIOUS
  <1>3. t \in Seq(Texts) /\ c.dict = Dictionary(t)
    BY DEF Collection
  <1>4. DictWell(Dictionary(t), Terms(t), t)
    BY <1>3, DictIs
  <1>5. PICK n : n = Record(t, w).fcnt
    OBVIOUS
  <1>6. c.dict[i].term = w /\ c.dict[i].fcnt = n /\ w \in Word
    BY <1>2, <1>3, <1>4, <1>5 DEF DictWell
  <1>7. /\ EntryWell(c, t, s, i)
        /\ Len(c.invf) \in Nat /\ s[i] \in 1 .. Len(c.invf) + 1
        /\ Held(c.invf, 1, c.idx[i]) = s[i] - 1
    BY CollectionRead
  <1>8. PICK b : b = BblockInit(c.static, n)
    OBVIOUS
  <1>9. PICK g : g = GapsOf(t, w, lv)
    OBVIOUS
  <1>10. /\ Decoded(c.invf, s[i], n, b, c.level) = g
         /\ \A j \in 1 .. n : LET word == c.invf[s[i] + c.level * (j - 1)].binary
                              IN word.nbits = BinaryDecode(word, b).used
    BY <1>1, <1>2, <1>5, <1>7, <1>8, <1>9 DEF EntryWell
  <1>11. PICK p : p = Index(lv)!Postings(t, w)
    OBVIOUS
  <1>12. ListedWell(p, HoldingList(t, w), lv, t, w)
    BY <1>3, <1>6, <1>11, ListedIs
  <1>13. Listing(p, lv) /\ Len(p) = n
    BY <1>3, <1>5, <1>6, <1>11, ListingIs
  <1>14. GapsWell(g, p, lv)
    BY <1>9, <1>11, <1>13, GapsAre DEF GapsOf
  <1>15. DOMAIN g = 1 .. n /\ \A j \in 1 .. n : UpTo(g, j) = p[j].doc /\ g[j].tf = p[j].tf
    BY <1>13, <1>14 DEF GapsWell
  <1>16. p = [j \in 1 .. n |-> p[j]]
    BY <1>13, SeqFacts DEF Listing
  <1>17. \A j \in 1 .. n : p[j] = [doc |-> p[j].doc, tf |-> p[j].tf]
    BY <1>12, <1>13 DEF ListedWell
  <1>18. [j \in DOMAIN g |-> [doc |-> UpTo(g, j), tf |-> g[j].tf]] = p
    BY <1>15, <1>16, <1>17
  <1>19. ListRight(c, t, i, s)
    BY <1>1, <1>6, <1>8, <1>10, <1>11, <1>15, <1>18 DEF ListRight
  <1>20. s[i] = Held(c.invf, 1, c.idx[i]) + 1
    BY <1>7
  <1> QED
    BY <1>19, <1>20

\* And what MergedAnswers does.
LEMMA InvAnswers == IInv => MergedAnswers
  <1> SUFFICES ASSUME IInv, phase = "idle" PROVE MergedAnswers
    BY DEF MergedAnswers
  <1>1. Collection(old, all) /\ \E n \in 0 .. Len(all) : Weighed(Len(Terms(all)), n)
    BY DEF IInv, Merged
  <1>2. /\ all \in Seq(Texts) /\ Len(all) \in Nat /\ old.nDocs = Len(all) /\ old.dict = Dictionary(all)
        /\ old.ptrs = Pointers(old.dict)
    BY <1>1, CollectionParts
  <1>3. DictWell(old.dict, Terms(all), all)
    BY <1>2, DictIs
  <1>4. PICK T \in Nat : T = Len(Terms(all)) /\ DOMAIN old.dict = 1 .. T
    BY <1>3 DEF DictWell
  <1>5. PICK s : Placed(old, all, s)
    BY <1>1, CollectionParts
  <1>6. ASSUME NEW i \in DOMAIN old.dict
        PROVE  Entry(i).list = Index(old.level)!Postings(all, old.dict[i].term) /\ Entry(i).exact
    <2>1. ListRight(old, all, i, s) /\ s[i] = Held(old.invf, 1, old.idx[i]) + 1
      BY <1>1, <1>4, <1>5, ListAnswers
    <2> QED
      BY <2>1 DEF ListRight, Entry
  <1>7. ASSUME old.level = 2, NEW d \in DOMAIN weigh
        PROVE  LET text == all[Len(all) - Len(weigh) + d]
                   held == InOrder({i \in DOMAIN old.dict : text[old.dict[i].term] > 0})
               IN weigh[d] = [k \in DOMAIN held |-> [tf   |-> text[old.dict[held[k]].term],
                                                     fcnt |-> old.dict[held[k]].fcnt]]
    <2>1. PICK n \in 0 .. Len(all) : Weighed(Len(Terms(all)), n)
      BY <1>1
    <2>2. weigh = [e \in 1 .. n |-> Summed(all, all[Len(all) - n + e], T)]
      BY <1>4, <1>7, <2>1 DEF Weighed
    <2>3. Len(weigh) = n
      <3>1. n \in Nat
        BY <1>2
      <3>2. PICK V : V = {Summed(all, all[Len(all) - n + e], T) : e \in 1 .. n}
        OBVIOUS
      <3>3. weigh \in [1 .. n -> V]
        BY <2>2, <3>2
      <3> QED
        BY <3>1, <3>3, FunctionIsSeq
    <2>4. PICK text : text = all[Len(all) - Len(weigh) + d]
      OBVIOUS
    <2>5. weigh[d] = Summed(all, text, T)
      BY <1>7, <2>2, <2>3, <2>4
    <2>6. PICK x : x = Terms(all)
      OBVIOUS
    <2>7. \A i \in 1 .. T : old.dict[i].term = x[i] /\ old.dict[i].fcnt = Record(all, x[i]).fcnt
      BY <1>3, <1>4, <2>6 DEF DictWell
    <2>8. PICK S : S = {i \in 1 .. T : text[x[i]] > 0}
      OBVIOUS
    <2>9. {i \in DOMAIN old.dict : text[old.dict[i].term] > 0} = S
      BY <1>4, <2>7, <2>8
    <2>10. PICK held : held = InOrder(S)
      OBVIOUS
    <2>11. \A k \in DOMAIN held : held[k] \in 1 .. T
      <3>1. S \in SUBSET Nat /\ IsFiniteSet(S)
        <4>1. S \subseteq 1 .. T /\ IsFiniteSet(1 .. T)
          BY <2>8, FS_Interval
        <4> QED
          BY <2>8, <4>1, FS_Subset
      <3>2. held \in Seq(S)
        BY <2>10, <3>1, InOrderIs DEF Ordered
      <3> QED
        BY <2>8, <3>2, SeqFacts
    <2>12. weigh[d] = [k \in DOMAIN held |-> [tf |-> text[x[held[k]]], fcnt |-> Record(all, x[held[k]]).fcnt]]
      BY <2>5, <2>6, <2>8, <2>10 DEF Summed
    <2>13. weigh[d] = [k \in DOMAIN held |-> [tf   |-> text[old.dict[held[k]].term],
                                              fcnt |-> old.dict[held[k]].fcnt]]
      BY <2>7, <2>11, <2>12
    <2> QED
      BY <2>4, <2>9, <2>10, <2>13
  <1> QED
    BY <1>2, <1>6, <1>7 DEF MergedAnswers

----------------------------------------------------------------------------
(* The first collection and a merge's beginning.                           *)

\* There are not too many documents to count.
LEMMA Counted ==
  ASSUME NEW m \in 0 .. MaxMerges, NEW n \in Nat, n <= MaxBuilt + m * MaxNew
  PROVE  n <= CountLimit /\ CountLimit \in Nat
  <1>1. MaxBuilt \in Nat /\ MaxMerges \in Nat /\ MaxNew \in Nat /\ MaxBuilt + MaxMerges * MaxNew < Shl(MaxLog)
    BY InvertedMergeAssumption
  <1>2. Shl(MaxLog) \in Nat \ {0} /\ CountLimit = Shl(MaxLog) - 1
    <2>1. Shl(MaxLog) \in Nat \ {0}
      BY ShlType DEF MaxLog
    <2> QED
      BY <2>1 DEF CountLimit
  <1>3. m * MaxNew <= MaxMerges * MaxNew
    BY <1>1
  <1>4. m * MaxNew \in Nat /\ MaxMerges * MaxNew \in Nat
    BY <1>1
  <1>5. PICK a \in Nat : a = m * MaxNew
    BY <1>4
  <1>6. PICK b \in Nat : b = MaxMerges * MaxNew
    BY <1>4
  <1>7. PICK c \in Int : c = Shl(MaxLog)
    BY <1>2
  <1> QED
    BY <1>1, <1>2, <1>3, <1>5, <1>6, <1>7

\* Documents of a bounded collection.
LEMMA CollectionsAre ==
  ASSUME NEW max \in Nat, NEW t \in Collections(max)
  PROVE  t \in Seq(Texts) /\ Len(t) \in 1 .. max
  <1>1. PICK n \in 1 .. max : t \in [1 .. n -> Texts]
    BY DEF Collections
  <1> QED
    BY <1>1, FunctionIsSeq

\* Init establishes the invariant.
LEMMA InvInit == Init => IInv
  <1> SUFFICES ASSUME Init PROVE IInv
    OBVIOUS
  <1>1. MaxBuilt \in Nat /\ MaxMerges \in Nat /\ MaxNew \in Nat
    BY InvertedMergeAssumption
  <1>2. all \in Seq(Texts) /\ Len(all) \in 1 .. MaxBuilt
    BY <1>1, CollectionsAre DEF Init
  <1>3. Len(all) \in 1 .. CountLimit
    <2>1. 0 \in 0 .. MaxMerges /\ Len(all) \in Nat /\ Len(all) <= MaxBuilt + 0 * MaxNew
      BY <1>1, <1>2
    <2> QED
      BY <1>2, <2>1, Counted
  <1>4. PICK level \in {1, 2} : old = Build(all, level)
    BY DEF Init
  <1>5. Collection(old, all)
    BY <1>2, <1>3, <1>4, BuildIs
  <1>6. new = old /\ phase = "idle" /\ term_count.new = 0 /\ marks = <<>> /\ at.new = 1 /\ fast = TRUE
        /\ weigh = <<>> /\ merges = 0
    BY DEF Init
  <1>7. Len(new.dict) \in Nat /\ Len(new.invf) \in Nat
    BY <1>5, <1>6, CollectionParts
  <1>8. Cardinality(Word) \in Nat
    BY InvertedMergeAssumption, FS_CardinalityType
  <1>9. Bounds
    BY <1>1, <1>6, <1>7, <1>8 DEF Bounds
  <1>10. Merged
    <2>1. Weighed(Len(Terms(all)), 0)
      BY <1>6 DEF Weighed
    <2>2. 0 \in 0 .. Len(all)
      BY <1>2
    <2>3. Len(all) <= MaxBuilt + merges * MaxNew
      BY <1>1, <1>2, <1>6
    <2> QED
      BY <1>5, <2>1, <2>2, <2>3 DEF Merged
  <1> QED
    BY <1>6, <1>9, <1>10 DEF IInv

\* init_merge_invf keeps the invariant.
LEMMA InvBegin ==
  ASSUME IInv, NEW docs \in Collections(MaxNew), Begin(docs)
  PROVE  IInv'
  <1>1. MaxBuilt \in Nat /\ MaxMerges \in Nat /\ MaxNew \in Nat
    BY InvertedMergeAssumption
  <1>2. docs \in Seq(Texts) /\ Len(docs) \in 1 .. MaxNew
    BY <1>1, CollectionsAre
  <1>3. PICK D : D = all
    OBVIOUS
  <1>4. Collection(old, D) /\ Len(D) <= MaxBuilt + merges * MaxNew /\ merges \in 0 .. MaxMerges
    BY <1>3 DEF IInv, Merged, Bounds, Begin
  <1>5. merges < MaxMerges /\ merges' = merges /\ old' = old /\ new' = Build(docs, old.level)
    BY DEF Begin
  <1>6. D \in Seq(Texts) /\ Len(D) \in Nat /\ old.level \in {1, 2} /\ Len(old.dict) \in Nat
    BY <1>4, CollectionParts
  <1>7. Len(D \o docs) = Len(D) + Len(docs) /\ Len(D \o docs) \in Nat
    BY <1>2, <1>6
  <1>8. Len(D \o docs) <= MaxBuilt + (merges + 1) * MaxNew /\ merges + 1 \in 0 .. MaxMerges
    <2>1. merges \in Nat /\ Len(docs) \in Nat /\ Len(docs) <= MaxNew
      BY <1>1, <1>2, <1>4
    <2>2. (merges + 1) * MaxNew = merges * MaxNew + MaxNew
      BY <1>1, <2>1
    <2>3. PICK a \in Nat : a = merges * MaxNew
      BY <1>1, <2>1
    <2>4. PICK b \in Nat : b = (merges + 1) * MaxNew
      BY <1>1, <2>1
    <2>5. b = a + MaxNew
      BY <2>2, <2>3, <2>4
    <2>6. Len(D \o docs) <= MaxBuilt + b
      BY <1>1, <1>4, <1>6, <1>7, <2>1, <2>3, <2>5
    <2>7. merges + 1 \in 0 .. MaxMerges
      BY <1>1, <1>5, <2>1
    <2> QED
      BY <2>4, <2>6, <2>7
  <1>9. Len(docs) \in 1 .. CountLimit
    <2>1. Len(D \o docs) <= CountLimit /\ CountLimit \in Nat
      BY <1>7, <1>8, Counted
    <2> QED
      BY <1>1, <1>2, <1>6, <1>7, <2>1
  <1>10. PICK B : B = Build(docs, old.level)
    OBVIOUS
  <1>11. Collection(B, docs) /\ B.level = old.level /\ B.static = Len(docs)
    BY <1>2, <1>6, <1>9, <1>10, BuildIs
  <1>12. new' = B /\ B.nDocs = Len(docs) /\ Len(B.dict) \in Nat /\ Len(B.invf) \in Nat
    BY <1>5, <1>10, <1>11, CollectionParts
  <1>13. /\ phase' = "lexicon" /\ fast' \in BOOLEAN /\ term_count' = [old |-> 1, new |-> 1] /\ marks' = <<>>
         /\ at' = [old |-> 1, new |-> 1] /\ idxAt' = 1 /\ out' = Nothing
         /\ weigh' = [d \in DOMAIN docs |-> <<>>] /\ all' = D \o docs
    BY <1>3 DEF Begin
  <1>14. Cardinality(Word) \in Nat
    BY InvertedMergeAssumption, FS_CardinalityType
  <1>15. Bounds'
    BY <1>4, <1>5, <1>12, <1>13, <1>14 DEF Bounds
  <1>16. ReadingLexicon(D, docs)'
    <2>1. Marking(<<>>, D, docs, 1, 1)
      BY <1>2, <1>6, MarkingStarts
    <2>2. Marking(marks', D, docs, term_count'.old, term_count'.new)
      BY <1>13, <2>1
    <2>3. Weighed(0, Len(docs))'
      <3>1. DOMAIN docs = 1 .. Len(docs)
        BY <1>2, SeqFacts
      <3>2. \A text : Summed(all', text, 0) = <<>>
        BY SummedNone
      <3>3. weigh' = [d \in 1 .. Len(docs) |-> IF old'.level = 1 THEN <<>>
                        ELSE Summed(all', all'[Len(all') - Len(docs) + d], 0)]
        BY <1>13, <3>1, <3>2
      <3> QED
        BY <3>3 DEF Weighed
    <2> QED
      BY <1>13, <2>2, <2>3 DEF ReadingLexicon
  <1>17. Merging(D, docs)'
    <2>1. Collection(old, D)' /\ Collection(new, docs)'
      BY <1>4, <1>5, <1>11, <1>12
    <2>2. new'.static = new'.nDocs /\ new'.level = old'.level
      BY <1>5, <1>11, <1>12
    <2>3. Len(all') <= MaxBuilt + (merges' + 1) * MaxNew /\ merges' + 1 \in 0 .. MaxMerges
      BY <1>1, <1>4, <1>5, <1>8, <1>13
    <2>4. term_count'.old \in 0 .. Len(old'.dict) + 1
      BY <1>5, <1>6, <1>13
    <2> QED
      BY <1>13, <1>16, <2>1, <2>2, <2>3, <2>4 DEF Merging
  <1> QED
    BY <1>13, <1>15, <1>17 DEF IInv

----------------------------------------------------------------------------
(* The dictionaries.                                                       *)

\* The mark of one round of the loop.
LEMMA RoundMarks ==
  ASSUME NEW D, NEW E, Merging(D, E), MergeTerm
  PROVE  \E w : /\ \/ term_count.old <= Len(Terms(D)) /\ w = Terms(D)[term_count.old]
                      /\ (term_count.new <= Len(Terms(E)) => Terms(D)[term_count.old] <= Terms(E)[term_count.new])
                   \/ term_count.new <= Len(Terms(E)) /\ w = Terms(E)[term_count.new]
                      /\ (term_count.old <= Len(Terms(D)) => Terms(E)[term_count.new] <= Terms(D)[term_count.old])
                /\ marks' = Append(marks, MarkOf(D, E, w))
                /\ term_count' = [old |-> IF w \in Vocab(D) THEN term_count.old + 1 ELSE term_count.old,
                                  new |-> IF w \in Vocab(E) THEN term_count.new + 1 ELSE term_count.new]
  <1>1. /\ Collection(old, D) /\ Collection(new, E)
        /\ Marking(marks, D, E, term_count.old, term_count.new)
    BY DEF Merging, MergeTerm, ReadingLexicon
  <1>2. PICK i : i = term_count.old
    OBVIOUS
  <1>3. PICK j : j = term_count.new
    OBVIOUS
  <1>4. PICK x : x = Terms(D)
    OBVIOUS
  <1>5. PICK y : y = Terms(E)
    OBVIOUS
  <1>6. /\ D \in Seq(Texts) /\ E \in Seq(Texts) /\ old.dict = Dictionary(D) /\ new.dict = Dictionary(E)
        /\ Len(old.dict) = Len(x) /\ Len(new.dict) = Len(y)
    BY <1>1, <1>4, <1>5, CollectionParts
  <1>7. DictWell(old.dict, x, D) /\ DictWell(new.dict, y, E)
    BY <1>4, <1>5, <1>6, DictIs
  <1>8. PICK m \in Nat : m = Len(x)
    BY <1>7 DEF DictWell
  <1>9. PICK n \in Nat : n = Len(y)
    BY <1>7 DEF DictWell
  <1>10. i \in 1 .. m + 1 /\ j \in 1 .. n + 1
    BY <1>1, <1>2, <1>3, <1>4, <1>5, <1>8, <1>9 DEF Marking, Ahead
  <1>11. PICK o : o = old.dict[i]
    OBVIOUS
  <1>12. PICK p : p = new.dict[j]
    OBVIOUS
  <1>13. i <= m => /\ o.term = x[i] /\ o.fcnt = Record(D, x[i]).fcnt /\ o.wcnt = Record(D, x[i]).wcnt
                   /\ x[i] \in Vocab(D) /\ x[i] \in Word /\ x[i] \in Nat
    BY <1>7, <1>8, <1>10, <1>11 DEF DictWell
  <1>14. j <= n => /\ p.term = y[j] /\ p.fcnt = Record(E, y[j]).fcnt /\ p.wcnt = Record(E, y[j]).wcnt
                   /\ y[j] \in Vocab(E) /\ y[j] \in Word /\ y[j] \in Nat
    BY <1>7, <1>9, <1>10, <1>12 DEF DictWell
  <1>15. (DoneOld <=> i > m) /\ (DoneNew <=> j > n)
    BY <1>2, <1>3, <1>6, <1>8, <1>9 DEF DoneOld, DoneNew
  <1>16. PICK type : type = CASE DoneOld -> "NEW"
                              [] ~DoneOld /\ (DoneNew \/ o.term < p.term) -> "OLD"
                              [] ~DoneOld /\ ~DoneNew /\ o.term = p.term -> "MERGE"
                              [] ~DoneOld /\ ~DoneNew /\ o.term > p.term -> "NEW"
    OBVIOUS
  <1>17. /\ ~(DoneOld /\ DoneNew)
         /\ marks' = Append(marks,
              [type |-> type,
               term |-> IF type = "NEW" THEN p.term ELSE o.term,
               fcntOld |-> IF type = "NEW" THEN 0 ELSE o.fcnt,
               fcntNew |-> IF type = "OLD" THEN 0 ELSE p.fcnt,
               wcnt |-> (IF type = "NEW" THEN 0 ELSE o.wcnt) + (IF type = "OLD" THEN 0 ELSE p.wcnt)])
         /\ term_count' = [old |-> i + (IF type = "NEW" THEN 0 ELSE 1),
                           new |-> j + (IF type = "OLD" THEN 0 ELSE 1)]
    BY <1>2, <1>3, <1>11, <1>12, <1>16 DEF MergeTerm
  <1>18. \/ type = "NEW" /\ j <= n /\ (i <= m => y[j] < x[i])
         \/ type = "OLD" /\ i <= m /\ (j <= n => x[i] < y[j])
         \/ type = "MERGE" /\ i <= m /\ j <= n /\ x[i] = y[j]
    <2>1. CASE i > m
      <3>1. DoneOld
        BY <1>15, <2>1
      <3>2. type = "NEW"
        BY <1>16, <3>1
      <3>3. j <= n /\ ~(i <= m)
        BY <1>8, <1>9, <1>10, <1>15, <1>17, <2>1
      <3> QED
        BY <3>2, <3>3
    <2>2. CASE i <= m /\ j > n
      <3>1. ~DoneOld /\ DoneNew
        BY <1>8, <1>10, <1>15, <2>2
      <3>2. type = "OLD"
        BY <1>16, <3>1
      <3>3. ~(j <= n)
        BY <1>9, <1>10, <2>2
      <3> QED
        BY <2>2, <3>2, <3>3
    <2>3. CASE i <= m /\ j <= n
      <3>1. ~DoneOld /\ ~DoneNew
        BY <1>8, <1>9, <1>10, <1>15, <2>3
      <3>2. o.term = x[i] /\ p.term = y[j] /\ x[i] \in Nat /\ y[j] \in Nat
        BY <1>13, <1>14, <2>3
      <3>3. CASE x[i] < y[j]
        <4>1. type = "OLD"
          BY <1>16, <3>1, <3>2, <3>3
        <4> QED
          BY <2>3, <3>3, <4>1
      <3>4. CASE x[i] = y[j]
        <4>1. ~(o.term < p.term) /\ o.term = p.term
          BY <3>2, <3>4
        <4>2. type = "MERGE"
          BY <1>16, <3>1, <4>1
        <4> QED
          BY <2>3, <3>4, <4>2
      <3>5. CASE y[j] < x[i]
        <4>1. ~(o.term < p.term) /\ o.term # p.term /\ o.term > p.term
          BY <3>2, <3>5
        <4>2. type = "NEW"
          BY <1>16, <3>1, <4>1
        <4> QED
          BY <2>3, <3>5, <4>2
      <3> QED
        BY <3>2, <3>3, <3>4, <3>5
    <2> QED
      BY <1>8, <1>9, <1>10, <2>1, <2>2, <2>3
  <1>19. Marking(marks, D, E, i, j)
    BY <1>1, <1>2, <1>3
  <1> DEFINE Right(w) ==
        /\ \/ i <= Len(x) /\ w = x[i] /\ (j <= Len(y) => x[i] <= y[j])
           \/ j <= Len(y) /\ w = y[j] /\ (i <= Len(x) => y[j] <= x[i])
        /\ marks' = Append(marks, MarkOf(D, E, w))
        /\ term_count' = [old |-> IF w \in Vocab(D) THEN i + 1 ELSE i,
                          new |-> IF w \in Vocab(E) THEN j + 1 ELSE j]
  <1>20. CASE type = "NEW" /\ j <= n /\ (i <= m => y[j] < x[i])
    <2>1. PICK w : w = y[j]
      OBVIOUS
    <2>2. j <= Len(y) /\ (i <= Len(x) => y[j] <= x[i])
      BY <1>8, <1>9, <1>13, <1>14, <1>20
    <2>3. w \in Vocab(D) <=> i <= Len(x) /\ x[i] = w
      BY <1>4, <1>5, <1>6, <1>19, <2>1, <2>2, MarkingNext
    <2>4. w \notin Vocab(D) /\ w \in Vocab(E) /\ w \in Word
      BY <1>8, <1>13, <1>14, <1>20, <2>1, <2>3
    <2>5. Record(D, w).fcnt = 0 /\ Record(D, w).wcnt = 0 /\ Record(E, w).wcnt \in Nat
      BY <1>6, <2>4, RecordNone
    <2>6. MarkOf(D, E, w) = [type |-> "NEW", term |-> w, fcntOld |-> 0, fcntNew |-> p.fcnt, wcnt |-> 0 + p.wcnt]
      BY <1>14, <1>20, <2>1, <2>4, <2>5 DEF MarkOf, TypeOf
    <2>7. marks' = Append(marks, MarkOf(D, E, w))
      BY <1>14, <1>17, <1>20, <2>1, <2>6
    <2>8. term_count' = [old |-> i, new |-> j + 1]
      BY <1>10, <1>17, <1>20
    <2>9. Right(w)
      BY <2>1, <2>2, <2>4, <2>7, <2>8
    <2> QED
      BY <1>2, <1>3, <1>4, <1>5, <2>9
  <1>21. CASE type = "OLD" /\ i <= m /\ (j <= n => x[i] < y[j])
    <2>1. PICK w : w = x[i]
      OBVIOUS
    <2>2. i <= Len(x) /\ (j <= Len(y) => x[i] <= y[j])
      BY <1>8, <1>9, <1>13, <1>14, <1>21
    <2>3. w \in Vocab(E) <=> j <= Len(y) /\ y[j] = w
      BY <1>4, <1>5, <1>6, <1>19, <2>1, <2>2, MarkingNext
    <2>4. w \notin Vocab(E) /\ w \in Vocab(D) /\ w \in Word
      BY <1>9, <1>13, <1>14, <1>21, <2>1, <2>3
    <2>5. Record(E, w).fcnt = 0 /\ Record(E, w).wcnt = 0 /\ Record(D, w).wcnt \in Nat
      BY <1>6, <2>4, RecordNone
    <2>6. MarkOf(D, E, w) = [type |-> "OLD", term |-> w, fcntOld |-> o.fcnt, fcntNew |-> 0, wcnt |-> o.wcnt + 0]
      BY <1>13, <1>21, <2>1, <2>4, <2>5 DEF MarkOf, TypeOf
    <2>7. marks' = Append(marks, MarkOf(D, E, w))
      BY <1>13, <1>17, <1>21, <2>1, <2>6
    <2>8. term_count' = [old |-> i + 1, new |-> j]
      BY <1>10, <1>17, <1>21
    <2>9. Right(w)
      BY <2>1, <2>2, <2>4, <2>7, <2>8
    <2> QED
      BY <1>2, <1>3, <1>4, <1>5, <2>9
  <1>22. CASE type = "MERGE" /\ i <= m /\ j <= n /\ x[i] = y[j]
    <2>1. PICK w : w = x[i]
      OBVIOUS
    <2>2. i <= Len(x) /\ (j <= Len(y) => x[i] <= y[j])
      BY <1>8, <1>9, <1>13, <1>22
    <2>4. w \in Vocab(E) /\ w \in Vocab(D) /\ w \in Word
      BY <1>13, <1>14, <1>22, <2>1
    <2>6. MarkOf(D, E, w) = [type |-> "MERGE", term |-> w, fcntOld |-> o.fcnt, fcntNew |-> p.fcnt,
                             wcnt |-> o.wcnt + p.wcnt]
      BY <1>13, <1>14, <1>22, <2>1, <2>4 DEF MarkOf, TypeOf
    <2>7. marks' = Append(marks, MarkOf(D, E, w))
      BY <1>13, <1>17, <1>22, <2>1, <2>6
    <2>8. term_count' = [old |-> i + 1, new |-> j + 1]
      BY <1>17, <1>22
    <2>9. Right(w)
      BY <2>1, <2>2, <2>4, <2>7, <2>8
    <2> QED
      BY <1>2, <1>3, <1>4, <1>5, <2>9
  <1> QED
    BY <1>18, <1>20, <1>21, <1>22

\* A round over the dictionaries keeps it.
LEMMA InvMergeTerm ==
  ASSUME IInv, MergeTerm
  PROVE  IInv'
  <1>1. phase = "lexicon" /\ UNCHANGED <<all, old, new, fast, phase, at, idxAt, out, weigh, merges>>
    BY DEF MergeTerm
  <1>2. PICK D, E : Merging(D, E)
    BY <1>1 DEF IInv
  <1>3. /\ Collection(old, D) /\ Collection(new, E)
        /\ ReadingLexicon(D, E) /\ Bounds
    BY <1>1, <1>2 DEF Merging, IInv
  <1>4. PICK x : x = Terms(D)
    OBVIOUS
  <1>5. PICK y : y = Terms(E)
    OBVIOUS
  <1>6. PICK i : i = term_count.old
    OBVIOUS
  <1>7. PICK j : j = term_count.new
    OBVIOUS
  <1>8. D \in Seq(Texts) /\ E \in Seq(Texts) /\ Marking(marks, D, E, i, j)
    BY <1>3, <1>6, <1>7, CollectionParts DEF ReadingLexicon
  <1>9. PICK w : /\ \/ i <= Len(x) /\ w = x[i] /\ (j <= Len(y) => x[i] <= y[j])
                    \/ j <= Len(y) /\ w = y[j] /\ (i <= Len(x) => y[j] <= x[i])
                 /\ marks' = Append(marks, MarkOf(D, E, w))
                 /\ term_count' = [old |-> IF w \in Vocab(D) THEN i + 1 ELSE i,
                                   new |-> IF w \in Vocab(E) THEN j + 1 ELSE j]
    BY <1>2, <1>4, <1>5, <1>6, <1>7, RoundMarks
  <1>10. Marking(Append(marks, MarkOf(D, E, w)), D, E,
                 IF w \in Vocab(D) THEN i + 1 ELSE i, IF w \in Vocab(E) THEN j + 1 ELSE j)
    BY <1>4, <1>5, <1>8, <1>9, MarkingNext
  <1>11. Marking(marks', D, E, term_count'.old, term_count'.new)
    BY <1>9, <1>10
  <1>12. term_count'.old \in 1 .. Len(x) + 1 /\ term_count'.new \in 1 .. Len(y) + 1
    BY <1>4, <1>5, <1>11 DEF Marking, Ahead
  <1>13. Len(old.dict) = Len(x) /\ Len(new.dict) = Len(y) /\ Len(x) \in Nat /\ Len(y) \in Nat
    BY <1>3, <1>4, <1>5, CollectionParts
  <1>14. Bounds'
    <2>1. Len(marks') <= Cardinality(Word)
      BY <1>8, <1>11, MarkingShort
    <2> QED
      BY <1>1, <1>3, <1>12, <1>13, <2>1 DEF Bounds
  <1>15. ReadingLexicon(D, E)'
    <2>1. Weighed(0, Len(E))'
      BY <1>1, <1>3 DEF ReadingLexicon, Weighed
    <2> QED
      BY <1>1, <1>3, <1>11, <2>1 DEF ReadingLexicon
  <1>16. Merging(D, E)'
    <2>1. term_count'.old \in 0 .. Len(old'.dict) + 1
      BY <1>1, <1>12, <1>13
    <2> QED
      BY <1>1, <1>2, <1>15, <2>1 DEF Merging
  <1> QED
    BY <1>1, <1>14, <1>16 DEF IInv

\* Before the first entry both files are read from their beginning.
LEMMA PlacedFirst ==
  ASSUME NEW c, NEW t, Collection(c, t)
  PROVE  \E s : Placed(c, t, s) /\ s[1] = 1
  <1>1. PICK s : Placed(c, t, s)
    BY CollectionParts
  <1>2. s[1] = 1
    BY <1>1 DEF Placed, Laid
  <1> QED
    BY <1>1, <1>2

\* So does the end of them.
LEMMA InvLexiconRead ==
  ASSUME IInv, LexiconRead
  PROVE  IInv'
  <1>1. /\ phase = "lexicon" /\ phase' = "invf" /\ DoneOld /\ DoneNew
        /\ UNCHANGED <<all, old, new, fast, term_count, marks, at, idxAt, out, weigh, merges>>
    BY DEF LexiconRead
  <1>2. PICK D, E : Merging(D, E)
    BY <1>1 DEF IInv
  <1>3. /\ Collection(old, D) /\ Collection(new, E)
        /\ ReadingLexicon(D, E) /\ Bounds
    BY <1>1, <1>2 DEF Merging, IInv
  <1>4. /\ D \in Seq(Texts) /\ E \in Seq(Texts)
        /\ Len(old.dict) = Len(Terms(D)) /\ Len(new.dict) = Len(Terms(E))
        /\ Len(Terms(D)) \in Nat /\ Len(Terms(E)) \in Nat
    BY <1>3, CollectionParts
  <1>5. Marked(marks, D, E)
    <2>1. term_count.old > Len(Terms(D)) /\ term_count.new > Len(Terms(E))
      BY <1>1, <1>4 DEF DoneOld, DoneNew
    <2>2. Marking(marks, D, E, term_count.old, term_count.new)
      BY <1>3 DEF ReadingLexicon
    <2> QED
      BY <1>4, <2>1, <2>2, MarkingDone
  <1>6. out.words = <<>> /\ out.idx = <<>> /\ Len(out.idx) = 0
    BY <1>3 DEF ReadingLexicon, Nothing
  <1>7. ASSUME NEW type PROVE Had(type) = 0
    <2>1. {k \in 1 .. Len(out.idx) : marks[k].type # type} = {}
      BY <1>6
    <2> QED
      BY <2>1, FS_EmptySet DEF Had
  <1>8. PICK r : Placed(old, D, r) /\ r[1] = 1
    BY <1>3, PlacedFirst
  <1>9. PICK s : Placed(new, E, s) /\ s[1] = 1
    BY <1>3, PlacedFirst
  <1>10. BytesOut = 0
    <2>1. DOMAIN out.words = {}
      BY <1>6
    <2>2. Bits(out.words, DOMAIN out.words) = 0
      <3>1. DOMAIN out.words = 1 .. 0
        BY <2>1
      <3> QED
        BY <3>1, BitsNone
    <2> QED
      BY <2>2 DEF BytesOut
  <1>11. PICK q : Laid(out.words, Append(out.idx, BytesOut),
                       FirstEntries(D \o E, Len(out.idx), MergedStatic, old.level), q)
    <2>1. Append(out.idx, BytesOut) = <<0>>
      BY <1>6, <1>10
    <2>2. FirstEntries(D \o E, Len(out.idx), MergedStatic, old.level) = <<>>
      BY <1>6 DEF FirstEntries
    <2> QED
      BY <1>6, <2>1, <2>2, LaidNone
  <1>12. ReadingFiles(D, E)
    <2>1. at = [old |-> 1, new |-> 1] /\ idxAt = 1 /\ Weighed(0, Len(E))
      BY <1>3 DEF ReadingLexicon
    <2>2. at = [old |-> at.old, new |-> at.new] /\ at.old = 1 /\ at.new = 1
      BY <2>1
    <2>3. at.old = r[Had("NEW") + 1] /\ at.new = s[Had("OLD") + 1]
      BY <1>7, <1>8, <1>9, <2>2
    <2>4. Passed(0, Terms(D), Terms(D \o E), 0) /\ Passed(0, Terms(E), Terms(D \o E), 0)
      BY <1>4, PassedNone
    <2>5. out.idx \in Seq(Nat) /\ Len(out.idx) <= Len(marks)
      <3>1. Len(marks) \in Nat
        BY <1>5, MarkFacts DEF Marked
      <3> QED
        BY <1>6, <3>1
    <2>6. idxAt = IF fast THEN Had("NEW") + 1 ELSE 1
      BY <1>7, <2>1
    <2>7. /\ Passed(Had("NEW"), Terms(D), Terms(D \o E), Len(out.idx))
          /\ Passed(Had("OLD"), Terms(E), Terms(D \o E), Len(out.idx))
          /\ Weighed(Len(out.idx), Len(E))
      BY <1>6, <1>7, <2>1, <2>4
    <2> QED
      BY <1>5, <1>8, <1>9, <1>11, <2>2, <2>3, <2>5, <2>6, <2>7 DEF ReadingFiles
  <1>13. ReadingFiles(D, E)'
    BY <1>1, <1>12 DEF ReadingFiles, Had, BytesOut, MergedStatic, Weighed
  <1>14. Merging(D, E)'
    BY <1>1, <1>2, <1>13 DEF Merging
  <1>15. Bounds'
    BY <1>1, <1>3 DEF Bounds
  <1> QED
    BY <1>1, <1>14, <1>15 DEF IInv

\* And done_merge_invf: what has been put out is a collection of all documents.
LEMMA InvDone ==
  ASSUME IInv, Done
  PROVE  IInv'
  <1>1. PICK lv : lv = old.level
    OBVIOUS
  <1>2. /\ phase = "invf" /\ Len(out.idx) = Len(marks)
        /\ old' = [level |-> lv, nDocs |-> old.nDocs + new.nDocs, static |-> MergedStatic,
                   dict |-> [k \in DOMAIN marks |-> [term |-> marks[k].term,
                                                     fcnt |-> marks[k].fcntOld + marks[k].fcntNew,
                                                     wcnt |-> marks[k].wcnt]],
                   ptrs |-> old.ptrs + new.ptrs,
                   invf |-> out.words,
                   idx |-> Append(out.idx, BytesOut)]
        /\ phase' = "idle" /\ merges' = merges + 1
        /\ UNCHANGED <<all, new, fast, term_count, marks, at, idxAt, out, weigh>>
    BY <1>1 DEF Done
  <1>3. PICK D, E : Merging(D, E)
    BY <1>2 DEF IInv
  <1>4. /\ all = D \o E /\ Collection(old, D) /\ Collection(new, E) /\ ReadingFiles(D, E) /\ Bounds
        /\ Len(all) <= MaxBuilt + (merges + 1) * MaxNew /\ merges + 1 \in 0 .. MaxMerges
    BY <1>2, <1>3 DEF Merging, IInv
  <1>5. D \in Seq(Texts) /\ Len(D) \in 1 .. CountLimit /\ Len(D) \in Nat /\ lv \in {1, 2} /\ old.nDocs = Len(D)
        /\ old.static \in 1 .. CountLimit /\ old.ptrs = Pointers(Dictionary(D))
    BY <1>1, <1>4, CollectionParts
  <1>6. /\ E \in Seq(Texts) /\ Len(E) \in Nat /\ new.nDocs = Len(E) /\ new.ptrs = Pointers(Dictionary(E))
    BY <1>4, CollectionParts
  <1>7. merges + 1 \in 0 .. MaxMerges
    BY <1>4
  <1>8. all \in Seq(Texts) /\ Len(all) = Len(D) + Len(E) /\ Len(all) \in Nat
    BY <1>4, <1>5, <1>6, TextsJoined
  <1>9. Len(all) \in 1 .. CountLimit
    <2>1. Len(all) <= CountLimit /\ CountLimit \in Nat
      BY <1>4, <1>7, <1>8, Counted
    <2> QED
      BY <1>5, <1>6, <1>8, <2>1
  <1>10. MergedStatic \in 1 .. CountLimit
    BY <1>5, <1>6, <1>8, <1>9 DEF MergedStatic
  <1>11. old'.dict = Dictionary(all)
    <2>1. Marked(marks, D, E)
      BY <1>4 DEF ReadingFiles
    <2> QED
      BY <1>2, <1>4, <1>5, <1>6, <2>1, DictMerged
  <1>12. old'.ptrs = Pointers(Dictionary(all))
    BY <1>2, <1>4, <1>5, <1>6, PointersJoined
  <1>13. \E s : Laid(old'.invf, old'.idx, Entries(all, MergedStatic, lv), s)
    <2>1. PICK s : Laid(out.words, Append(out.idx, BytesOut),
                        FirstEntries(D \o E, Len(out.idx), MergedStatic, lv), s)
      BY <1>1, <1>4 DEF ReadingFiles
    <2>2. Len(out.idx) = Len(Terms(all))
      BY <1>2, <1>4 DEF ReadingFiles, Marked
    <2>3. FirstEntries(D \o E, Len(out.idx), MergedStatic, lv) = Entries(all, MergedStatic, lv)
      BY <1>4, <2>2 DEF FirstEntries, Entries
    <2> QED
      BY <1>2, <2>1, <2>3
  <1>14. old'.level = lv /\ old'.nDocs = Len(all) /\ old'.static = MergedStatic
    BY <1>2, <1>5, <1>6, <1>8
  <1>15. Collection(old, all)'
    BY <1>2, <1>5, <1>8, <1>9, <1>10, <1>11, <1>12, <1>13, <1>14 DEF Collection
  <1>16. Merged'
    <2>1. Len(out.idx) = Len(Terms(all))
      BY <1>2, <1>4 DEF ReadingFiles, Marked
    <2>2. Weighed(Len(Terms(all)), Len(E))
      BY <1>4, <2>1 DEF ReadingFiles
    <2>3. Weighed(Len(Terms(all)), Len(E))'
      BY <1>1, <1>2, <1>14, <2>2 DEF Weighed
    <2>4. Len(E) \in 0 .. Len(all)
      BY <1>5, <1>6, <1>8
    <2>5. Len(all') <= MaxBuilt + merges' * MaxNew
      BY <1>2, <1>4
    <2> QED
      BY <1>2, <1>15, <2>3, <2>4, <2>5 DEF Merged
  <1>17. Bounds'
    BY <1>2, <1>4, <1>7 DEF Bounds
  <1> QED
    BY <1>2, <1>16, <1>17 DEF IInv

----------------------------------------------------------------------------
(* The inverted files.                                                     *)

\* A word is processed: so and sn are the places of the entries in the two files.
Advance(D, E, w, so, sn) ==
  /\ out' = [words |-> out.words \o EntryOf(D \o E, w, MergedStatic, old.level),
             idx |-> Append(out.idx, BytesOut)]
  /\ at' = [old |-> so[(IF w \in Vocab(D) THEN Had("NEW") + 1 ELSE Had("NEW")) + 1],
            new |-> sn[(IF w \in Vocab(E) THEN Had("OLD") + 1 ELSE Had("OLD")) + 1]]
  /\ idxAt' = IF fast /\ w \in Vocab(D) THEN idxAt + 1 ELSE idxAt
  /\ weigh' = [d \in 1 .. Len(E) |->
                 IF old.level = 1 THEN <<>> ELSE weigh[d] \o Part(D \o E, E[d], w)]

\* The first h words of t are those of the first k of u that it has, and so with the next.
NextPassed(h, t, u, k) ==
  LET w == Terms(u)[k + 1]
  IN /\ h \in 0 .. Len(Terms(t)) /\ Len(Terms(t)) \in Nat
     /\ w \in Vocab(t) => h + 1 \in 1 .. Len(Terms(t)) /\ Terms(t)[h + 1] = w
     /\ Passed(IF w \in Vocab(t) THEN h + 1 ELSE h, Terms(t), Terms(u), k + 1)

\* One word on, in both texts or in one.
LEMMA WordPassed ==
  ASSUME NEW t \in Seq(Texts), NEW u \in Seq(Texts), Vocab(t) \subseteq Vocab(u), NEW h, NEW k \in Nat,
         Passed(h, Terms(t), Terms(u), k), k < Len(Terms(u))
  PROVE  NextPassed(h, t, u, k)
  <1>1. PICK V : V = Vocab(t)
    OBVIOUS
  <1>2. PICK U \in SUBSET Nat : U = Vocab(u)
    BY VocabIs
  <1>3. PICK x : x = Terms(t)
    OBVIOUS
  <1>4. PICK y : y = Terms(u)
    OBVIOUS
  <1>5. Ordered(x, V) /\ Ordered(y, U) /\ V \in SUBSET U
    BY <1>1, <1>2, <1>3, <1>4, VocabIs, InOrderIs DEF Terms
  <1>6. Passed(h, x, y, k) /\ k < Len(y)
    BY <1>3, <1>4
  <1>7. /\ y[k + 1] \in V => /\ h + 1 \in 1 .. Len(x) /\ x[h + 1] = y[k + 1]
                             /\ Passed(h + 1, x, y, k + 1)
        /\ y[k + 1] \notin V => Passed(h, x, y, k + 1)
        /\ h \in 0 .. Len(x) /\ Len(x) \in Nat
    BY <1>5, <1>6, PassedNext
  <1> QED
    BY <1>1, <1>3, <1>4, <1>7 DEF NextPassed

\* The first k merged entries are put out.
PutOut(f, idx, t, k, N, lv) ==
  /\ idx \in Seq(Nat) /\ Len(idx) = k
  /\ \E s : Laid(f, Append(idx, Bits(f, DOMAIN f) \div 8), FirstEntries(t, k, N, lv), s)

\* With one entry more, what is put out is laid out again.
LEMMA EntryPut ==
  ASSUME NEW t \in Seq(Texts), NEW N \in 1 .. CountLimit, NEW lv \in {1, 2}, NEW k \in Nat, k < Len(Terms(t)),
         NEW f, NEW idx, PutOut(f, idx, t, k, N, lv)
  PROVE  PutOut(f \o EntryOf(t, Terms(t)[k + 1], N, lv), Append(idx, Bits(f, DOMAIN f) \div 8), t, k + 1, N, lv)
  <1>1. PICK e : e = FirstEntries(t, k, N, lv)
    OBVIOUS
  <1>2. PICK x : x = EntryOf(t, Terms(t)[k + 1], N, lv)
    OBVIOUS
  <1>a. PICK jdx : jdx = Append(idx, Bits(f, DOMAIN f) \div 8)
    OBVIOUS
  <1>3. PICK s : Laid(f, jdx, e, s)
    BY <1>1, <1>a DEF PutOut
  <1>4. jdx \in Seq(Nat) /\ Len(jdx) = k + 1
    <2>1. jdx \in Seq(Nat)
      BY <1>3 DEF Laid
    <2>2. idx \in Seq(Nat) /\ Len(idx) = k
      BY DEF PutOut
    <2> QED
      BY <1>a, <2>1, <2>2
  <1>5. Whole(x)
    <2>1. Len(Terms(t)) \in Nat /\ \A i \in 1 .. Len(Terms(t)) : Entries(t, N, lv)[i] = EntryOf(t, Terms(t)[i], N, lv)
                                                               /\ Whole(Entries(t, N, lv)[i])
      BY EntriesAre
    <2>2. k + 1 \in 1 .. Len(Terms(t))
      BY <2>1
    <2> QED
      BY <1>2, <2>1, <2>2
  <1>6. PICK r : Laid(f \o x, Append(jdx, Bits(f \o x, DOMAIN (f \o x)) \div 8), Append(e, x), r)
    BY <1>3, <1>5, LaidNext
  <1>7. Append(e, x) = FirstEntries(t, k + 1, N, lv)
    <2>1. PICK z : z = [i \in 1 .. k + 1 |-> EntryOf(t, Terms(t)[i], N, lv)]
      OBVIOUS
    <2>2. z[k + 1] = x /\ \A i \in 1 .. k : z[i] = EntryOf(t, Terms(t)[i], N, lv)
      BY <1>2, <2>1
    <2>3. e = [i \in 1 .. k |-> z[i]]
      BY <1>1, <2>2 DEF FirstEntries
    <2>4. Append(e, x) = [i \in 1 .. k + 1 |-> z[i]]
      BY <2>2, <2>3, AppendNext
    <2> QED
      BY <2>1, <2>4 DEF FirstEntries
  <1>8. PutOut(f \o x, jdx, t, k + 1, N, lv)
    BY <1>4, <1>6, <1>7 DEF PutOut
  <1> QED
    BY <1>2, <1>a, <1>8

\* The weights so far, and one word more.
LEMMA WeightsPut ==
  ASSUME NEW D \in Seq(Texts), NEW E \in Seq(Texts), NEW k \in Nat, all = D \o E, all' = all, old' = old,
         NEW w, w = Terms(D \o E)[k + 1],
         Weighed(k, Len(E)),
         weigh' = [d \in 1 .. Len(E) |-> IF old.level = 1 THEN <<>> ELSE weigh[d] \o Part(D \o E, E[d], w)]
  PROVE  Weighed(k + 1, Len(E))'
  <1>1. Len(D) \in Nat /\ Len(E) \in Nat /\ Len(all) = Len(D) + Len(E)
    BY SeqFacts, TextsJoined
  <1>2. \A d \in 1 .. Len(E) : all[Len(all) - Len(E) + d] = E[d]
    <2> SUFFICES ASSUME NEW d \in 1 .. Len(E) PROVE all[Len(all) - Len(E) + d] = E[d]
      OBVIOUS
    <2>1. Len(all) - Len(E) + d = Len(D) + d
      BY <1>1
    <2> QED
      BY <1>1, <2>1
  <1>3. weigh = [d \in 1 .. Len(E) |-> IF old.level = 1 THEN <<>> ELSE Summed(all, E[d], k)]
    BY <1>2 DEF Weighed
  <1>4. \A d \in 1 .. Len(E) : Summed(all, E[d], k + 1) = Summed(all, E[d], k) \o Part(all, E[d], w)
    BY SummedNext
  <1>5. weigh' = [d \in 1 .. Len(E) |-> IF old.level = 1 THEN <<>> ELSE Summed(all, E[d], k + 1)]
    BY <1>3, <1>4
  <1>6. weigh' = [d \in 1 .. Len(E) |-> IF old.level = 1 THEN <<>>
                                        ELSE Summed(all, all[Len(all) - Len(E) + d], k + 1)]
    BY <1>2, <1>5
  <1> QED
    BY <1>6 DEF Weighed

\* If a word is processed right, the invariant of this phase holds for the next.
LEMMA Advanced ==
  ASSUME NEW D, NEW E, Merging(D, E), ReadingFiles(D, E), Len(out.idx) < Len(marks),
         UNCHANGED <<all, old, new, fast, marks>>,
         NEW so, Placed(old, D, so), NEW sn, Placed(new, E, sn),
         NEW w, w = Terms(D \o E)[Len(out.idx) + 1], Advance(D, E, w, so, sn)
  PROVE  ReadingFiles(D, E)' /\ at'.new \in 1 .. Len(new.invf) + 1
  <1>1. /\ all = D \o E /\ Collection(old, D) /\ Collection(new, E)
    BY DEF Merging
  <1>2. D \in Seq(Texts) /\ Len(D) \in Nat /\ old.level \in {1, 2} /\ old.static \in 1 .. CountLimit /\ old.nDocs = Len(D)
    BY <1>1, CollectionParts
  <1>3. E \in Seq(Texts) /\ Len(E) \in Nat /\ new.nDocs = Len(E)
    BY <1>1, CollectionParts
  <1>4. D \o E \in Seq(Texts) /\ Vocab(D) \subseteq Vocab(D \o E) /\ Vocab(E) \subseteq Vocab(D \o E)
    BY <1>2, <1>3, VocabJoined
  <1>5. Marked(marks, D, E) /\ out.idx \in Seq(Nat)
    BY DEF ReadingFiles
  <1>6. PICK k \in Nat : k = Len(out.idx)
    BY <1>5, SeqFacts
  <1>7. Len(marks) = Len(Terms(D \o E)) /\ Len(marks) \in Nat /\ MarkRight(k + 1, marks, D, E)
    <2>1. Len(marks) \in Nat
      BY <1>5, MarkFacts DEF Marked
    <2>2. k + 1 \in 1 .. Len(marks)
      BY <1>6, <2>1
    <2> QED
      BY <1>2, <1>3, <1>5, <2>1, <2>2, MarkIs DEF Marked
  <1>8. /\ marks[k + 1].type # "NEW" <=> w \in Vocab(D)
        /\ marks[k + 1].type # "OLD" <=> w \in Vocab(E)
    BY <1>6, <1>7 DEF MarkRight
  <1>9. out'.idx = Append(out.idx, BytesOut) /\ out'.words = out.words \o EntryOf(D \o E, w, MergedStatic, old.level)
    BY DEF Advance
  <1>10. PICK N \in 1 .. CountLimit : N = MergedStatic
    <2>1. old.nDocs + new.nDocs \in 1 .. CountLimit
      <3>1. Len(D \o E) = Len(D) + Len(E) /\ Len(D) \in 1 .. CountLimit
        BY <1>1, <1>2, <1>3, TextsJoined, CollectionParts
      <3>2. merges + 1 \in 0 .. MaxMerges /\ Len(all) <= MaxBuilt + (merges + 1) * MaxNew
        BY DEF Merging
      <3>3. Len(all) <= CountLimit /\ CountLimit \in Nat
        BY <1>1, <1>2, <1>3, <3>1, <3>2, Counted
      <3> QED
        BY <1>1, <1>2, <1>3, <3>1, <3>3
    <2> QED
      BY <1>2, <2>1 DEF MergedStatic
  <1>11. PutOut(out'.words, out'.idx, D \o E, k + 1, N, old.level)
    <2>1. PutOut(out.words, out.idx, D \o E, k, N, old.level)
      BY <1>5, <1>6, <1>10 DEF ReadingFiles, BytesOut, PutOut
    <2>2. out'.idx = Append(out.idx, Bits(out.words, DOMAIN out.words) \div 8)
      BY <1>9 DEF BytesOut
    <2>3. out'.words = out.words \o EntryOf(D \o E, Terms(D \o E)[k + 1], N, old.level)
      BY <1>6, <1>9, <1>10
    <2>4. k < Len(Terms(D \o E))
      BY <1>6, <1>7
    <2> QED
      BY <1>2, <1>4, <2>1, <2>2, <2>3, <2>4, EntryPut
  <1>12. /\ out'.idx \in Seq(Nat) /\ Len(out'.idx) = k + 1
         /\ \E s : Laid(out.words, Append(out.idx, BytesOut),
                        FirstEntries(D \o E, Len(out.idx), MergedStatic, old.level), s)'
    <2>1. PICK s : Laid(out'.words, Append(out'.idx, Bits(out'.words, DOMAIN out'.words) \div 8),
                        FirstEntries(D \o E, k + 1, N, old.level), s)
      BY <1>11 DEF PutOut
    <2>2. BytesOut' = Bits(out'.words, DOMAIN out'.words) \div 8 /\ MergedStatic' = N /\ old' = old
      BY <1>10 DEF BytesOut, MergedStatic
    <2>3. out'.idx \in Seq(Nat) /\ Len(out'.idx) = k + 1
      BY <1>11 DEF PutOut
    <2> QED
      BY <2>1, <2>2, <2>3
  <1>13. PICK h : h = Had("NEW")
    OBVIOUS
  <1>14. PICK j : j = Had("OLD")
    OBVIOUS
  <1>15. Passed(h, Terms(D), Terms(D \o E), k) /\ Passed(j, Terms(E), Terms(D \o E), k)
    BY <1>6, <1>13, <1>14 DEF ReadingFiles
  <1>b. w = Terms(D \o E)[k + 1] /\ k < Len(Terms(D \o E))
    BY <1>6, <1>7
  <1>16. /\ h \in 0 .. Len(Terms(D)) /\ Len(Terms(D)) \in Nat
         /\ w \in Vocab(D) => h + 1 \in 1 .. Len(Terms(D))
         /\ Passed(IF w \in Vocab(D) THEN h + 1 ELSE h, Terms(D), Terms(D \o E), k + 1)
    <2>1. NextPassed(h, D, D \o E, k)
      BY <1>2, <1>4, <1>15, <1>b, WordPassed
    <2> QED
      BY <1>b, <2>1 DEF NextPassed
  <1>17. /\ j \in 0 .. Len(Terms(E)) /\ Len(Terms(E)) \in Nat
         /\ w \in Vocab(E) => j + 1 \in 1 .. Len(Terms(E))
         /\ Passed(IF w \in Vocab(E) THEN j + 1 ELSE j, Terms(E), Terms(D \o E), k + 1)
    <2>1. NextPassed(j, E, D \o E, k)
      BY <1>3, <1>4, <1>15, <1>b, WordPassed
    <2> QED
      BY <1>b, <2>1 DEF NextPassed
  <1>18. Had("NEW")' = IF w \in Vocab(D) THEN h + 1 ELSE h
    <2>1. h = Others(marks, k, "NEW")
      BY <1>6, <1>13 DEF Had, Others
    <2>2. Had("NEW")' = Others(marks, k + 1, "NEW")
      BY <1>12 DEF Had, Others
    <2> QED
      BY <1>8, <2>1, <2>2, HadNext
  <1>19. Had("OLD")' = IF w \in Vocab(E) THEN j + 1 ELSE j
    <2>1. j = Others(marks, k, "OLD")
      BY <1>6, <1>14 DEF Had, Others
    <2>2. Had("OLD")' = Others(marks, k + 1, "OLD")
      BY <1>12 DEF Had, Others
    <2> QED
      BY <1>8, <2>1, <2>2, HadNext
  <1>20. at' = [old |-> so[Had("NEW")' + 1], new |-> sn[Had("OLD")' + 1]]
    BY <1>13, <1>14, <1>18, <1>19 DEF Advance
  <1>21. at'.old = so[Had("NEW")' + 1] /\ at'.new = sn[Had("OLD")' + 1] /\ at' = [old |-> at'.old, new |-> at'.new]
    BY <1>20
  <1>22. idxAt' = IF fast THEN Had("NEW")' + 1 ELSE 1
    <2>1. idxAt = IF fast THEN h + 1 ELSE 1
      BY <1>13 DEF ReadingFiles
    <2>2. idxAt' = IF fast /\ w \in Vocab(D) THEN idxAt + 1 ELSE idxAt
      BY DEF Advance
    <2> QED
      BY <1>16, <1>18, <2>1, <2>2
  <1>23. Weighed(k + 1, Len(E))'
    <2>1. weigh' = [d \in 1 .. Len(E) |-> IF old.level = 1 THEN <<>> ELSE weigh[d] \o Part(D \o E, E[d], w)]
      BY DEF Advance
    <2>2. Weighed(k, Len(E))
      BY <1>6 DEF ReadingFiles
    <2> QED
      BY <1>1, <1>2, <1>3, <1>6, <2>1, <2>2, WeightsPut
  <1>24. ReadingFiles(D, E)'
    <2>1. Placed(old, D, so)' /\ Placed(new, E, sn)' /\ Marked(marks, D, E)'
      BY <1>5
    <2>2. Len(out'.idx) <= Len(marks')
      BY <1>6, <1>7, <1>12
    <2>3. /\ Passed(Had("NEW")', Terms(D), Terms(D \o E), Len(out'.idx))
          /\ Passed(Had("OLD")', Terms(E), Terms(D \o E), Len(out'.idx))
          /\ Weighed(Len(out.idx), Len(E))'
      BY <1>6, <1>12, <1>16, <1>17, <1>18, <1>19, <1>23
    <2>4. idxAt' = IF fast' THEN Had("NEW")' + 1 ELSE 1
      BY <1>22
    <2> QED
      BY <1>12, <1>21, <2>1, <2>2, <2>3, <2>4 DEF ReadingFiles
  <1>25. at'.new \in 1 .. Len(new.invf) + 1
    <2>1. Had("OLD")' \in 0 .. Len(Terms(E))
      BY <1>17, <1>19
    <2> QED
      BY <1>1, <1>21, <2>1, PlaceReached
  <1> QED
    BY <1>24, <1>25

\* A word that adds nothing to a weight.
LEMMA SummedKept ==
  ASSUME NEW t, NEW text, NEW k \in Nat
  PROVE  Summed(t, text, k) \o <<>> = Summed(t, text, k)
  <1>1. PICK S : S = {i \in 1 .. k : text[Terms(t)[i]] > 0}
    OBVIOUS
  <1>2. S \in SUBSET Nat /\ IsFiniteSet(S)
    <2>1. IsFiniteSet(1 .. k) /\ S \subseteq 1 .. k
      BY <1>1, FS_Interval
    <2> QED
      BY <1>1, <2>1, FS_Subset
  <1>3. PICK h : h = InOrder(S)
    OBVIOUS
  <1>4. h \in Seq(S)
    BY <1>2, <1>3, InOrderIs DEF Ordered
  <1>5. PICK n \in Nat : n = Len(h) /\ DOMAIN h = 1 .. n
    BY <1>4, SeqFacts
  <1>6. PICK f : f = [j \in 1 .. n |-> [tf |-> text[Terms(t)[h[j]]], fcnt |-> Record(t, Terms(t)[h[j]]).fcnt]]
    OBVIOUS
  <1>7. Summed(t, text, k) = f
    BY <1>1, <1>3, <1>5, <1>6 DEF Summed
  <1>8. PICK V : V = {f[j] : j \in 1 .. n}
    OBVIOUS
  <1>9. f \in [1 .. n -> V]
    BY <1>6, <1>8
  <1>10. f \in Seq(V)
    BY <1>9, FunctionIsSeq
  <1> QED
    BY <1>7, <1>10

\* Where the entry of w is processed, by its mark.
Processed(D, E, w, mark) ==
  /\ D \in Seq(Texts) /\ E \in Seq(Texts) /\ Collection(old, D) /\ Collection(new, E)
  /\ old.nDocs = Len(D) /\ new.nDocs = Len(E) /\ Len(D) \in Nat /\ Len(E) \in Nat
  /\ new.static = new.nDocs /\ new.level = old.level /\ old.level \in {1, 2}
  /\ all = D \o E /\ Len(out.idx) \in Nat
  /\ w \in Word /\ (mark.type # "NEW" <=> w \in Vocab(D)) /\ (mark.type # "OLD" <=> w \in Vocab(E))
  /\ mark.fcntOld = Record(D, w).fcnt /\ mark.fcntNew = Record(E, w).fcnt
  /\ Had("NEW") \in 0 .. Len(Terms(D)) /\ Len(Terms(D)) \in Nat
  /\ w \in Vocab(D) => Had("NEW") + 1 \in 1 .. Len(Terms(D)) /\ Terms(D)[Had("NEW") + 1] = w
  /\ Had("OLD") \in 0 .. Len(Terms(E)) /\ Len(Terms(E)) \in Nat
  /\ w \in Vocab(E) => Had("OLD") + 1 \in 1 .. Len(Terms(E)) /\ Terms(E)[Had("OLD") + 1] = w

\* A mark says what there is to process.
LEMMA Processing ==
  ASSUME NEW D, NEW E, Merging(D, E), ReadingFiles(D, E), Len(out.idx) < Len(marks),
         NEW w, w = Terms(D \o E)[Len(out.idx) + 1], NEW mark, mark = marks[Len(out.idx) + 1]
  PROVE  Processed(D, E, w, mark)
  <1>1. /\ all = D \o E /\ Collection(old, D) /\ Collection(new, E)
        /\ new.static = new.nDocs /\ new.level = old.level
    BY DEF Merging
  <1>2. /\ D \in Seq(Texts) /\ E \in Seq(Texts) /\ Len(D) \in Nat /\ Len(E) \in Nat
        /\ old.nDocs = Len(D) /\ new.nDocs = Len(E) /\ old.level \in {1, 2}
    BY <1>1, CollectionParts
  <1>3. D \o E \in Seq(Texts) /\ Vocab(D) \subseteq Vocab(D \o E) /\ Vocab(E) \subseteq Vocab(D \o E)
    BY <1>2, VocabJoined
  <1>4. Marked(marks, D, E) /\ out.idx \in Seq(Nat)
    BY DEF ReadingFiles
  <1>5. PICK k \in Nat : k = Len(out.idx)
    BY <1>4, SeqFacts
  <1>6. Len(marks) = Len(Terms(D \o E)) /\ Len(marks) \in Nat /\ MarkRight(k + 1, marks, D, E)
    <2>1. Len(marks) \in Nat
      BY <1>4, MarkFacts DEF Marked
    <2>2. k + 1 \in 1 .. Len(marks)
      BY <1>5, <2>1
    <2> QED
      BY <1>2, <1>4, <2>1, <2>2, MarkIs DEF Marked
  <1>7. /\ w \in Word /\ (mark.type # "NEW" <=> w \in Vocab(D)) /\ (mark.type # "OLD" <=> w \in Vocab(E))
        /\ mark.fcntOld = Record(D, w).fcnt /\ mark.fcntNew = Record(E, w).fcnt
    BY <1>5, <1>6 DEF MarkRight
  <1>8. /\ Passed(Had("NEW"), Terms(D), Terms(D \o E), k)
        /\ Passed(Had("OLD"), Terms(E), Terms(D \o E), k)
    BY <1>5 DEF ReadingFiles
  <1>9. k < Len(Terms(D \o E)) /\ w = Terms(D \o E)[k + 1]
    BY <1>5, <1>6
  <1>10. NextPassed(Had("NEW"), D, D \o E, k) /\ NextPassed(Had("OLD"), E, D \o E, k)
    BY <1>2, <1>3, <1>8, <1>9, WordPassed
  <1>11. /\ Had("NEW") \in 0 .. Len(Terms(D)) /\ Len(Terms(D)) \in Nat
         /\ w \in Vocab(D) => Had("NEW") + 1 \in 1 .. Len(Terms(D)) /\ Terms(D)[Had("NEW") + 1] = w
         /\ Had("OLD") \in 0 .. Len(Terms(E)) /\ Len(Terms(E)) \in Nat
         /\ w \in Vocab(E) => Had("OLD") + 1 \in 1 .. Len(Terms(E)) /\ Terms(E)[Had("OLD") + 1] = w
    BY <1>9, <1>10 DEF NextPassed
  <1> QED
    BY <1>1, <1>2, <1>5, <1>7, <1>11 DEF Processed

\* Nothing new: nobody new holds the word.
LEMMA PartNone ==
  ASSUME NEW t, NEW E \in Seq(Texts), NEW w \in Word, w \notin Vocab(E), NEW d \in 1 .. Len(E)
  PROVE  Part(t, E[d], w) = <<>>
  <1>1. d \in DOMAIN E
    BY SeqFacts
  <1>2. ~(E[d][w] > 0)
    BY <1>1 DEF Vocab
  <1> QED
    BY <1>2 DEF Part

\* A copied entry is that of the merged collection: nothing of it has changed, and
\* the parameter is the one it was coded by.
LEMMA CopiedAdvances ==
  ASSUME NEW D, NEW E, Merging(D, E), ReadingFiles(D, E), Len(out.idx) < Len(marks),
         NEW so, Placed(old, D, so), at.old = so[Had("NEW") + 1],
         NEW sn, Placed(new, E, sn), at.new = sn[Had("OLD") + 1],
         NEW w, w = Terms(D \o E)[Len(out.idx) + 1], NEW mark, mark = marks[Len(out.idx) + 1],
         fast, mark.type = "OLD", EntryCopied, idxAt' = NextIdx(mark)
  PROVE  Advance(D, E, w, so, sn)
  <1>0. Processed(D, E, w, mark)
    BY Processing
  <1>1. /\ D \in Seq(Texts) /\ E \in Seq(Texts) /\ Collection(old, D)
        /\ old.level \in {1, 2} /\ all = D \o E /\ Len(out.idx) \in Nat /\ Len(D) \in Nat /\ Len(E) \in Nat
        /\ w \in Word /\ w \in Vocab(D) /\ w \notin Vocab(E)
    BY <1>0 DEF Processed
  <1>2. PICK h : h = Had("NEW")
    OBVIOUS
  <1>3. h \in 0 .. Len(Terms(D)) /\ Len(Terms(D)) \in Nat /\ h + 1 \in 1 .. Len(Terms(D)) /\ Terms(D)[h + 1] = w
    BY <1>0, <1>1, <1>2 DEF Processed
  <1>4. PICK i \in 1 .. Len(Terms(D)) : i = h + 1
    BY <1>3
  <1>5. PICK f : f = old.invf
    OBVIOUS
  <1>6. /\ Held(f, so[i], old.idx[i + 1] - old.idx[i]) = so[i + 1] - so[i]
        /\ SubSeq(f, so[i], so[i + 1] - 1) = EntryOf(D, w, old.static, old.level)
        /\ so[i] \in 1 .. Len(f) + 1 /\ Len(f) \in Nat
    BY <1>1, <1>3, <1>4, <1>5, CollectionRead
  <1>7. so[i + 1] \in 1 .. Len(f) + 1
    <2>1. i \in 0 .. Len(Terms(D))
      BY <1>3
    <2> QED
      BY <1>1, <1>5, <2>1, PlaceReached
  <1>8. PICK p \in Nat : p = so[i]
    BY <1>6
  <1>9. PICK q \in Nat : q = so[i + 1]
    BY <1>6, <1>7
  <1>10. idxAt = i /\ at.old = p
    BY <1>2, <1>4, <1>8 DEF ReadingFiles
  <1>11. PICK held : held = Held(f, at.old, old.idx[idxAt + 1] - old.idx[idxAt])
    OBVIOUS
  <1>12. held = q - p
    BY <1>6, <1>8, <1>9, <1>10, <1>11
  <1>13. /\ out' = [words |-> out.words \o SubSeq(f, at.old, at.old + held - 1), idx |-> Append(out.idx, BytesOut)]
         /\ at' = [at EXCEPT !.old = @ + held]
         /\ weigh' = weigh
    BY <1>5, <1>11 DEF EntryCopied, Put
  <1>14. at.old + held = q /\ at.old + held - 1 = q - 1
    BY <1>8, <1>9, <1>10, <1>12
  <1>15. SubSeq(f, at.old, at.old + held - 1) = EntryOf(D \o E, w, MergedStatic, old.level)
    <2>1. SubSeq(f, at.old, at.old + held - 1) = EntryOf(D, w, old.static, old.level)
      BY <1>6, <1>8, <1>9, <1>10, <1>14
    <2>2. EntryOf(D \o E, w, old.static, old.level) = EntryOf(D, w, old.static, old.level)
      BY <1>1, EntryKept
    <2>3. MergedStatic = old.static
      BY DEF MergedStatic
    <2> QED
      BY <2>1, <2>2, <2>3
  <1>16. at' = [old |-> so[(IF w \in Vocab(D) THEN Had("NEW") + 1 ELSE Had("NEW")) + 1],
                new |-> sn[(IF w \in Vocab(E) THEN Had("OLD") + 1 ELSE Had("OLD")) + 1]]
    <2>1. at = [old |-> at.old, new |-> at.new]
      BY DEF ReadingFiles
    <2>2. at' = [old |-> at.old + held, new |-> at.new]
      BY <1>13, <2>1
    <2>3. at.old + held = so[(IF w \in Vocab(D) THEN Had("NEW") + 1 ELSE Had("NEW")) + 1]
      BY <1>1, <1>2, <1>4, <1>9, <1>14
    <2>4. at.new = sn[(IF w \in Vocab(E) THEN Had("OLD") + 1 ELSE Had("OLD")) + 1]
      BY <1>1
    <2> QED
      BY <2>2, <2>3, <2>4
  <1>17. idxAt' = IF fast /\ w \in Vocab(D) THEN idxAt + 1 ELSE idxAt
    BY <1>1 DEF NextIdx
  <1>18. weigh' = [d \in 1 .. Len(E) |-> IF old.level = 1 THEN <<>> ELSE weigh[d] \o Part(D \o E, E[d], w)]
    <2>1. weigh = [d \in 1 .. Len(E) |-> IF old.level = 1 THEN <<>>
                     ELSE Summed(all, all[Len(all) - Len(E) + d], Len(out.idx))]
      BY DEF ReadingFiles, Weighed
    <2>2. \A text : Summed(all, text, Len(out.idx)) \o <<>> = Summed(all, text, Len(out.idx))
      BY <1>1, SummedKept
    <2>3. \A d \in 1 .. Len(E) : Part(D \o E, E[d], w) = <<>>
      BY <1>1, PartNone
    <2>4. \A d \in 1 .. Len(E) : weigh[d] = IF old.level = 1 THEN <<>> ELSE weigh[d] \o Part(D \o E, E[d], w)
      BY <2>1, <2>2, <2>3
    <2>5. weigh = [d \in 1 .. Len(E) |-> weigh[d]]
      BY <2>1
    <2> QED
      BY <1>13, <2>4, <2>5
  <1> QED
    BY <1>13, <1>15, <1>16, <1>17, <1>18 DEF Advance

\* The two parts of an entry as they are read.
LEMMA PartsRead ==
  ASSUME NEW D, NEW E, Merging(D, E), ReadingFiles(D, E), Len(out.idx) < Len(marks),
         NEW so, Placed(old, D, so), at.old = so[Had("NEW") + 1],
         NEW sn, Placed(new, E, sn), at.new = sn[Had("OLD") + 1],
         NEW w, w = Terms(D \o E)[Len(out.idx) + 1], NEW mark, mark = marks[Len(out.idx) + 1]
  PROVE  /\ Decoded(old.invf, at.old, mark.fcntOld, BblockInit(old.static, mark.fcntOld), old.level)
              = GapsOf(D, w, old.level)
         /\ Decoded(new.invf, at.new, mark.fcntNew, BblockInit(new.nDocs, mark.fcntNew), old.level)
              = GapsOf(E, w, old.level)
         /\ Behind(old.invf, at.old, mark.fcntOld, old.level)
              = so[(IF w \in Vocab(D) THEN Had("NEW") + 1 ELSE Had("NEW")) + 1]
         /\ Behind(new.invf, at.new, mark.fcntNew, old.level)
              = sn[(IF w \in Vocab(E) THEN Had("OLD") + 1 ELSE Had("OLD")) + 1]
  <1>0. Processed(D, E, w, mark)
    BY Processing
  <1>1. /\ Collection(old, D) /\ Collection(new, E) /\ new.static = new.nDocs /\ new.level = old.level
        /\ w \in Word /\ mark.fcntOld = Record(D, w).fcnt /\ mark.fcntNew = Record(E, w).fcnt
    BY <1>0 DEF Processed
  <1>2. PICK h \in 0 .. Len(Terms(D)) : /\ h = Had("NEW")
                                        /\ w \in Vocab(D) => h + 1 \in 1 .. Len(Terms(D)) /\ Terms(D)[h + 1] = w
    BY <1>0 DEF Processed
  <1>3. PICK j \in 0 .. Len(Terms(E)) : /\ j = Had("OLD")
                                        /\ w \in Vocab(E) => j + 1 \in 1 .. Len(Terms(E)) /\ Terms(E)[j + 1] = w
    BY <1>0 DEF Processed
  <1>4. PICK m : m = Record(D, w).fcnt
    OBVIOUS
  <1>5. PICK n : n = Record(E, w).fcnt
    OBVIOUS
  <1>6. /\ Decoded(old.invf, so[h + 1], m, BblockInit(old.static, m), old.level) = GapsOf(D, w, old.level)
        /\ Behind(old.invf, so[h + 1], m, old.level) = so[(IF w \in Vocab(D) THEN h + 1 ELSE h) + 1]
    BY <1>1, <1>2, <1>4, PartRead
  <1>7. /\ Decoded(new.invf, sn[j + 1], n, BblockInit(new.static, n), new.level) = GapsOf(E, w, new.level)
        /\ Behind(new.invf, sn[j + 1], n, new.level) = sn[(IF w \in Vocab(E) THEN j + 1 ELSE j) + 1]
    BY <1>1, <1>3, <1>5, PartRead
  <1> QED
    BY <1>1, <1>2, <1>3, <1>4, <1>5, <1>6, <1>7

\* And so is one that is decoded and coded anew.
LEMMA SlowAdvances ==
  ASSUME NEW D, NEW E, Merging(D, E), ReadingFiles(D, E), Len(out.idx) < Len(marks),
         NEW so, Placed(old, D, so), at.old = so[Had("NEW") + 1],
         NEW sn, Placed(new, E, sn), at.new = sn[Had("OLD") + 1],
         NEW w, w = Terms(D \o E)[Len(out.idx) + 1], NEW mark, mark = marks[Len(out.idx) + 1],
         EntrySlow(mark, old.static, MergedStatic), idxAt' = NextIdx(mark)
  PROVE  Advance(D, E, w, so, sn)
  <1>0. Processed(D, E, w, mark)
    BY Processing
  <1>1. /\ D \in Seq(Texts) /\ E \in Seq(Texts) /\ Collection(old, D) /\ old.nDocs = Len(D)
        /\ old.level \in {1, 2} /\ all = D \o E /\ Len(out.idx) \in Nat /\ Len(D) \in Nat /\ Len(E) \in Nat
        /\ w \in Word
    BY <1>0 DEF Processed
  <1>a. /\ mark.type # "NEW" <=> w \in Vocab(D)
        /\ mark.fcntOld = Record(D, w).fcnt /\ mark.fcntNew = Record(E, w).fcnt
    BY <1>0 DEF Processed
  <1>2. PICK fcnt : fcnt = mark.fcntOld + mark.fcntNew
    OBVIOUS
  <1>3. fcnt = Record(D \o E, w).fcnt
    BY <1>1, <1>2, <1>a, VocabJoined
  <1> DEFINE g == Decoded(old.invf, at.old, mark.fcntOld, BblockInit(old.static, mark.fcntOld), old.level)
             h == Decoded(new.invf, at.new, mark.fcntNew, BblockInit(new.nDocs, mark.fcntNew), old.level)
             m == [i \in DOMAIN h |-> IF i = 1 THEN [h[i] EXCEPT !.gap = @ + Offset(LastOf(g))] ELSE h[i]]
             doc(i) == LastOf(g) + UpTo(m, i) - old.nDocs
             weighed == IF old.level = 1 THEN {} ELSE DOMAIN m
             parts(d) == InOrder({i \in weighed : doc(i) = d})
  <1>4. /\ out' = [words |-> out.words \o Padded(Coded(g \o m, BblockInit(MergedStatic, mark.fcntOld + mark.fcntNew),
                                                       old.level)),
                   idx |-> Append(out.idx, BytesOut)]
        /\ at' = [old |-> Behind(old.invf, at.old, mark.fcntOld, old.level),
                  new |-> Behind(new.invf, at.new, mark.fcntNew, old.level)]
        /\ weigh' = [d \in DOMAIN weigh \cup {doc(i) : i \in weighed} |->
                       (IF d \in DOMAIN weigh THEN weigh[d] ELSE <<>>)
                       \o [k \in DOMAIN parts(d) |-> [tf |-> m[parts(d)[k]].tf,
                                                      fcnt |-> mark.fcntOld + mark.fcntNew]]]
    BY DEF EntrySlow, Put
  <1>5. /\ g = GapsOf(D, w, old.level) /\ h = GapsOf(E, w, old.level)
        /\ Behind(old.invf, at.old, mark.fcntOld, old.level)
              = so[(IF w \in Vocab(D) THEN Had("NEW") + 1 ELSE Had("NEW")) + 1]
        /\ Behind(new.invf, at.new, mark.fcntNew, old.level)
              = sn[(IF w \in Vocab(E) THEN Had("OLD") + 1 ELSE Had("OLD")) + 1]
    BY PartsRead
  <1>6. m = Moved(h, Len(D) - LastOf(g))
    BY <1>1 DEF Moved, Offset
  <1>7. \A i : doc(i) = DocOf(g, m, Len(D), i)
    BY <1>1 DEF DocOf
  <1> HIDE DEF g, h, m, doc
  <1>8. Joining(g, h, m, D, E, w, old.level)
    BY <1>5, <1>6 DEF Joining, GapsOf
  <1>9. g \o m = GapsOf(D \o E, w, old.level)
    <2>1. PICK lv \in {1, 2} : lv = old.level
      BY <1>1
    <2>2. Joining(g, h, m, D, E, w, lv)
      BY <1>8, <2>1
    <2>a. D \in Seq(Texts) /\ E \in Seq(Texts) /\ w \in Word
      BY <1>1
    <2>3. g \o m = Gaps(Index(lv)!Postings(D \o E, w))
      BY <2>2, <2>a, GapsJoined
    <2> QED
      BY <2>1, <2>3 DEF GapsOf
  <1>10. out' = [words |-> out.words \o EntryOf(D \o E, w, MergedStatic, old.level), idx |-> Append(out.idx, BytesOut)]
    BY <1>2, <1>3, <1>4, <1>9 DEF EntryOf
  <1>11. at' = [old |-> so[(IF w \in Vocab(D) THEN Had("NEW") + 1 ELSE Had("NEW")) + 1],
                new |-> sn[(IF w \in Vocab(E) THEN Had("OLD") + 1 ELSE Had("OLD")) + 1]]
    BY <1>4, <1>5
  <1>12. idxAt' = IF fast /\ w \in Vocab(D) THEN idxAt + 1 ELSE idxAt
    BY <1>a DEF NextIdx
  <1>13. weigh = [d \in 1 .. Len(E) |-> IF old.level = 1 THEN <<>>
                    ELSE Summed(all, all[Len(all) - Len(E) + d], Len(out.idx))]
    BY DEF ReadingFiles, Weighed
  <1>14. weigh' = [d \in 1 .. Len(E) |-> IF old.level = 1 THEN <<>> ELSE weigh[d] \o Part(D \o E, E[d], w)]
    <2>1. DOMAIN weigh = 1 .. Len(E)
      BY <1>13
    <2>2. {doc(i) : i \in weighed} \subseteq 1 .. Len(E)
      <3> SUFFICES ASSUME NEW i \in weighed PROVE doc(i) \in 1 .. Len(E)
        OBVIOUS
      <3>1. i \in DOMAIN m
        OBVIOUS
      <3> QED
        BY <1>1, <1>7, <1>8, <3>1, LedToNew
    <2>3. DOMAIN weigh \cup {doc(i) : i \in weighed} = 1 .. Len(E)
      BY <2>1, <2>2
    <2>4. weigh' = [d \in 1 .. Len(E) |-> weigh[d] \o [k \in DOMAIN parts(d) |->
                                            [tf |-> m[parts(d)[k]].tf, fcnt |-> fcnt]]]
      BY <1>2, <1>4, <2>1, <2>3
    <2>5. ASSUME NEW d \in 1 .. Len(E)
          PROVE  weigh[d] \o [k \in DOMAIN parts(d) |-> [tf |-> m[parts(d)[k]].tf, fcnt |-> fcnt]]
                   = IF old.level = 1 THEN <<>> ELSE weigh[d] \o Part(D \o E, E[d], w)
      <3>1. CASE old.level = 1
        <4>1. {i \in weighed : doc(i) = d} = {}
          BY <3>1
        <4>2. PICK p : p = parts(d)
          OBVIOUS
        <4>3. p = <<>>
          BY <4>1, <4>2, NoneInOrder
        <4>4. [k \in DOMAIN p |-> [tf |-> m[p[k]].tf, fcnt |-> fcnt]] = <<>>
          <5>1. DOMAIN p = {}
            BY <4>3
          <5> QED
            BY <5>1
        <4>5. weigh[d] = <<>>
          BY <1>13, <3>1
        <4>6. <<>> \o <<>> = <<>>
          OBVIOUS
        <4> QED
          BY <3>1, <4>2, <4>4, <4>5, <4>6
      <3>2. CASE old.level = 2
        <4>1. {i \in weighed : doc(i) = d} = Leading(g, m, Len(D), d)
          BY <1>7, <3>2 DEF Leading
        <4>2. PICK p : p = parts(d)
          OBVIOUS
        <4>3. p = InOrder(Leading(g, m, Len(D), d))
          BY <4>1, <4>2
        <4>4. Joining(g, h, m, D, E, w, 2)
          BY <1>8, <3>2
        <4>5. Got(g, m, Len(D), d, Record(D \o E, w).fcnt) = Part(D \o E, E[d], w)
          BY <1>1, <4>4, PartIs
        <4>6. [k \in DOMAIN p |-> [tf |-> m[p[k]].tf, fcnt |-> fcnt]] = Part(D \o E, E[d], w)
          BY <1>3, <4>3, <4>5 DEF Got
        <4>7. old.level # 1
          BY <3>2
        <4> QED
          BY <4>2, <4>6, <4>7
      <3> QED
        BY <1>1, <3>1, <3>2
    <2> QED
      BY <2>4, <2>5
  <1> QED
    BY <1>10, <1>11, <1>12, <1>14 DEF Advance

\* An entry, copied or coded anew, keeps the invariant.
LEMMA InvProcess ==
  ASSUME IInv, ProcessEntry
  PROVE  IInv'
  <1>1. PICK mark : mark = marks[Len(out.idx) + 1]
    OBVIOUS
  <1>2. /\ phase = "invf" /\ Len(out.idx) < Len(marks) /\ idxAt' = NextIdx(mark)
        /\ \/ fast /\ mark.type = "OLD" /\ EntryCopied
           \/ EntrySlow(mark, old.static, MergedStatic)
        /\ UNCHANGED <<all, old, new, fast, phase, term_count, marks, merges>>
    BY <1>1 DEF ProcessEntry, MergedStatic
  <1>3. PICK D, E : Merging(D, E)
    BY <1>2 DEF IInv
  <1>4. ReadingFiles(D, E) /\ Bounds
    BY <1>2, <1>3 DEF Merging, IInv
  <1>5. PICK so : Placed(old, D, so) /\ at.old = so[Had("NEW") + 1]
    BY <1>4 DEF ReadingFiles
  <1>6. PICK sn : Placed(new, E, sn) /\ at.new = sn[Had("OLD") + 1]
    BY <1>4 DEF ReadingFiles
  <1>7. PICK w : w = Terms(D \o E)[Len(out.idx) + 1]
    OBVIOUS
  <1>8. Advance(D, E, w, so, sn)
    <2>1. CASE fast /\ mark.type = "OLD" /\ EntryCopied
      BY <1>1, <1>2, <1>3, <1>4, <1>5, <1>6, <1>7, <2>1, CopiedAdvances
    <2>2. CASE EntrySlow(mark, old.static, MergedStatic)
      BY <1>1, <1>2, <1>3, <1>4, <1>5, <1>6, <1>7, <2>2, SlowAdvances
    <2> QED
      BY <1>2, <2>1, <2>2
  <1>9. ReadingFiles(D, E)' /\ at'.new \in 1 .. Len(new.invf) + 1
    BY <1>2, <1>3, <1>4, <1>5, <1>6, <1>7, <1>8, Advanced
  <1>10. Merging(D, E)'
    BY <1>2, <1>3, <1>9 DEF Merging
  <1>11. Bounds'
    BY <1>2, <1>4, <1>9 DEF Bounds
  <1> QED
    BY <1>2, <1>10, <1>11 DEF IInv

----------------------------------------------------------------------------
(* Results.                                                                *)

\* At rest, the old files are those of all the documents; while a merge is under
\* way, they are of the documents before it, the new files of its own documents, and
\* what has been merged is of both, for the words up to the one in hand.
THEOREM IInvInvariant == Spec => []IInv
  <1>1. Init => IInv
    BY InvInit
  <1>2. IInv /\ [Next]_vars => IInv'
    <2> SUFFICES ASSUME IInv, [Next]_vars PROVE IInv'
      OBVIOUS
    <2>1. ASSUME NEW docs \in Collections(MaxNew), Begin(docs) PROVE IInv'
      BY <2>1, InvBegin
    <2>2. CASE MergeTerm
      BY <2>2, InvMergeTerm
    <2>3. CASE LexiconRead
      BY <2>3, InvLexiconRead
    <2>4. CASE ProcessEntry
      BY <2>4, InvProcess
    <2>5. CASE Done
      BY <2>5, InvDone
    <2>6. CASE UNCHANGED vars
      <3>1. Merged => Merged'
        BY <2>6 DEF vars, Merged, Weighed
      <3>2. ASSUME NEW D, NEW E, Merging(D, E) PROVE Merging(D, E)'
        <4>1. ReadingLexicon(D, E) => ReadingLexicon(D, E)'
          BY <2>6 DEF vars, ReadingLexicon, Weighed
        <4>2. ReadingFiles(D, E) => ReadingFiles(D, E)'
          BY <2>6 DEF vars, ReadingFiles, Weighed, Had, BytesOut, MergedStatic
        <4> QED
          BY <2>6, <3>2, <4>1, <4>2 DEF vars, Merging
      <3>3. Bounds'
        BY <2>6 DEF IInv, Bounds, vars
      <3> QED
        BY <2>6, <3>1, <3>2, <3>3 DEF IInv, vars
    <2> QED
      BY <2>1, <2>2, <2>3, <2>4, <2>5, <2>6 DEF Next
  <1> QED
    BY <1>1, <1>2, PTL DEF Spec

\* No read of mg_invf_merge runs past the end of a dictionary, file or index, and the
\* buffer of document weights is written for new documents only.
THEOREM TypeCorrect == Spec => []TypeOK
  BY IInvInvariant, InvType, PTL

\* Entries copied by the old index and entries decoded by their counts may come in any
\* order: both files are always read from where their index says the next word is.
THEOREM FilesInStep == Spec => []InStep
  BY IInvInvariant, InvInStep, PTL

\* After any number of merges of either method, a query finds in the merged files what
\* it would find in an index built of all documents at once, and the weights of the
\* new documents were summed from each of their words and its merged count.
THEOREM MergesAnswer == Spec => []MergedAnswers
  BY IInvInvariant, InvAnswers, PTL
=============================================================================
