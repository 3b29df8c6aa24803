------------------------- MODULE BooleanGet_proofs -------------------------
(***************************************************************************)
(* Boolean queries on an inverted file that mg_invf_rebuild gives other    *)
(* skips between them, for any words, entries, skips and any length of     *)
(* query: the codes of a word can always be read back, every list is what  *)
(* its part of the query means, and a jump goes to the start of a later    *)
(* block, over no document that the list still waits for.                  *)
(*                                                                         *)
(* First what the two loops of mg_invf_rebuild write (Layout): where every *)
(* posting lies, and where the header of a block says the next one begins. *)
(* Then where GetDocsOp stands in that layout (At), what it has made of    *)
(* its list (Kept, Marked), and what the rounds of the list operations     *)
(* keep.  BooleanInv is the invariant that holds all of it together.       *)
(***************************************************************************)
EXTENDS BooleanGet, ArithmeticTheorems, SequenceTheorems

----------------------------------------------------------------------------
(* Codes and parameters.                                                   *)

\* No code is empty.
LEMMA LengthPositive ==
  ASSUME NEW b \in Operand, NEW x \in Nat \ {0}
  PROVE  BblockLength(x, b) \in Nat \ {0}
  <1> DEFINE q == (x - 1) \div b
             r == (x - 1) % b
  <1>1. b \in Nat \ {0} /\ CeilLog2(b) \in 0 .. MaxLog /\ Thresh(b) \in Nat
    BY OperandType, CeilLogSpec, ThreshRange
  <1>2. q \in Nat
    <2>1. x - 1 \in Nat
      OBVIOUS
    <2>2. q \in Int
      BY <1>1, <2>1, DivRem
    <2>3. 0 * b <= x - 1 /\ 0 \in Int
      BY <1>1, <2>1
    <2>4. 0 <= q
      BY <1>1, <2>1, <2>3, DivGreatest
    <2> QED
      BY <2>2, <2>4
  <1>3. r \in Nat
    BY <1>1, DivRem
  <1>4. Thresh(b) > 0 => CeilLog2(b) >= 1
    <2> SUFFICES ASSUME CeilLog2(b) = 0 PROVE Thresh(b) <= 0
      BY <1>1 DEF MaxLog
    <2>1. Shl(0) = 1 /\ b <= Shl(0)
      BY CeilLogSpec DEF Shl, Pow2
    <2> QED
      BY <1>1, <2>1 DEF Thresh
  <1> HIDE DEF q, r
  <1>5. BinaryLength(r + 1, b) \in Nat
    BY <1>1, <1>3, <1>4 DEF BinaryLength, MaxLog
  <1>6. BblockLength(x, b) = (q + 1) + BinaryLength(r + 1, b)
    BY DEF BblockLength, UnaryLength, q, r
  <1> QED
    BY <1>2, <1>5, <1>6

\* No gamma code of a count is empty.
LEMMA GammaPositive ==
  ASSUME NEW x \in 1 .. (Shl(MaxLog) - 1)
  PROVE  GammaLength(x) \in Nat \ {0}
  <1>1. Shl(MaxLog) \in Nat
    BY ShlType DEF MaxLog
  <1>2. x \in Operand
    BY <1>1 DEF Operand
  <1>3. FloorLog2(x) \in 0 .. MaxLog
    BY <1>2, FloorLogSpec
  <1> QED
    BY <1>3 DEF GammaLength, MaxLog

\* The parameter of a Golomb code is one, for gaps or lengths up to p * 2^30.
LEMMA InitRange ==
  ASSUME NEW N \in Nat, NEW n \in Nat \ {0}, N <= n * Shl(MaxLog)
  PROVE  BblockInit(N, n) \in Operand
  <1> DEFINE a == 5000000 * n + 6931471 * N
             d == 10000000 * n
             b == a \div d
  <1>1. PICK M \in Nat \ {0} : M = Shl(MaxLog)
    BY ShlType DEF MaxLog
  <1>2. a \in Nat /\ d \in Nat \ {0}
    BY SMT
  <1>3. a <= M * d
    <2>1. PICK q \in Nat : q = n * M
      BY <1>1, SMT
    <2>2. 4 * n <= M * n
      <3>1. 4 <= M
        BY <1>1, SMT DEF Shl, MaxLog, Pow2
      <3> QED
        BY <1>1, <3>1, TimesMonotone
    <2>3. q \in Nat /\ n \in Nat /\ N \in Nat /\ 4 * n <= q /\ N <= q
      BY <1>1, <2>1, <2>2, SMT
    <2>4. M * d = 10000000 * q
      BY <1>1, <2>1, SMT
    <2> QED
      <3>1. a = 5000000 * n + 6931471 * N
        OBVIOUS
      <3>2. 5000000 * n + 6931471 * N <= 10000000 * q
        BY ONLY <2>3, SMT
      <3> HIDE DEF a, d
      <3> QED
        BY <2>4, <3>1, <3>2, SMT
  <1> HIDE DEF a, d
  <1>4. b \in Int /\ b <= M
    <2>1. a \in Int /\ M \in Int
      BY <1>1, <1>2
    <2>2. a \div d <= M
      BY <1>2, <1>3, <2>1, DivLeast
    <2> QED
      BY <1>2, <2>1, <2>2, DivRem
  <1>5. b >= 0
    <2>1. 0 * d <= a /\ 0 \in Int
      BY <1>2
    <2> QED
      BY <1>2, <2>1, DivGreatest
  <1>6. BblockInit(N, n) = IF b = 0 THEN 1 ELSE b
    BY SMT DEF BblockInit, a, d
  <1> HIDE DEF b
  <1> QED
    BY <1>1, <1>4, <1>5, <1>6 DEF Operand

\* At least two blocks where there is a header.
LEMMA BlocksRange ==
  ASSUME NEW n \in Nat, NEW k \in Nat \ {0}, k < n
  PROVE  (n + k - 1) \div k \in 2 .. n
  <1>1. n + k - 1 \in Int /\ 2 \in Int
    OBVIOUS
  <1>2. 2 * k <= n + k - 1
    OBVIOUS
  <1>3. n + k - 1 <= n * k
    <2>1. PICK j \in Nat : k = j + 1
      <3>1. k - 1 \in Nat /\ k = (k - 1) + 1
        OBVIOUS
      <3> QED
        BY <3>1
    <2>2. n * k = n * j + n
      BY <2>1
    <2>3. 1 * j <= n * j
      BY <2>1, TimesMonotone
    <2> QED
      BY <2>1, <2>2, <2>3
  <1>4. 2 <= (n + k - 1) \div k /\ (n + k - 1) \div k \in Int
    BY <1>1, <1>2, DivGreatest, DivRem
  <1>5. (n + k - 1) \div k <= n
    BY <1>1, <1>3, DivLeast
  <1> QED
    BY <1>4, <1>5

\* Every finite set of naturals, not empty, has a greatest one.
LEMMA MaxNat ==
  ASSUME NEW S \in SUBSET Nat, S # {}, NEW n \in Nat, \A x \in S : x <= n
  PROVE  Max(S) \in S
  <1> DEFINE T == {m \in Nat : \A x \in S : x <= m}
  <1>1. PICK m \in T : \A y \in T : m <= y
    <2>1. T \subseteq Nat /\ n \in T
      OBVIOUS
    <2> HIDE DEF T
    <2> QED
      BY <2>1, LeastNat
  <1>2. m \in Nat /\ \A x \in S : x <= m
    BY <1>1
  <1>3. m \in S
    <2> SUFFICES ASSUME m \notin S PROVE FALSE
      OBVIOUS
    <2>1. PICK z \in S : TRUE
      OBVIOUS
    <2>2. m # 0
      BY <1>2, <2>1
    <2>3. m - 1 \in Nat
      BY <1>2, <2>2
    <2>4. \A x \in S : x <= m - 1
      BY <1>2
    <2>5. m - 1 \in T
      BY <2>3, <2>4
    <2> QED
      BY <1>1, <1>2, <2>5
  <1> QED
    <2>1. \E x \in S : \A y \in S : x >= y
      BY <1>2, <1>3
    <2> QED
      BY <2>1, Zenon DEF Max

Headers == Skips \cup {NoSkips}

\* The number of postings of a block is a number.
LEMMA SkipType ==
  ASSUME NEW h \in Headers, NEW n \in Nat
  PROVE  SkipSize(h, n) \in Nat
  <1>1. h.mode \in {0, 1, 2} /\ (h.mode = 1 => h.k \in Nat)
        /\ (h.mode = 2 => h.mins \in Nat /\ h.max_nodes \in Nat)
    BY SkipsAssumption DEF Headers, NoSkips
  <1>2. CASE h.mode = 0
    BY <1>2 DEF SkipSize
  <1>3. CASE h.mode = 1
    BY <1>1, <1>3 DEF SkipSize
  <1>4. CASE h.mode = 2
    <2> DEFINE S == {h.mins} \cup {r \in 1..(2 * n) : r * r * h.max_nodes <= 4 * n}
    <2>1. h.mins \in Nat
      BY <1>1, <1>4
    <2>2. S \in SUBSET Nat /\ S # {} /\ h.mins + 2 * n \in Nat
      BY <2>1
    <2>3. \A x \in S : x <= h.mins + 2 * n
      BY <2>1
    <2>4. Max(S) \in S
      <3> HIDE DEF S
      <3> QED
        BY <2>2, <2>3, MaxNat
    <2>5. Max(S) \in Nat
      BY <2>2, <2>4
    <2>6. SkipSize(h, n) = IF n <= h.mins THEN 0 ELSE Max(S)
      BY <1>4 DEF SkipSize
    <2> QED
      BY <2>5, <2>6
  <1> QED
    BY <1>1, <1>2, <1>3, <1>4

----------------------------------------------------------------------------
(* A word's entry and its parameters.                                      *)

\* Document j of an entry; 0 for none.
D(e, j) == IF j = 0 THEN 0 ELSE e.docs[j]

Gap(e, j) == D(e, j) - D(e, j - 1)

\* What an entry is made of.
LEMMA EntryFacts ==
  ASSUME NEW e \in Entries
  PROVE  /\ Len(e.docs) \in Nat \ {0} /\ Len(e.docs) <= num_of_docs
         /\ DOMAIN e.docs = 1 .. Len(e.docs) /\ DOMAIN e.counts = 1 .. Len(e.docs)
         /\ \A j \in 1 .. Len(e.docs) : /\ e.docs[j] \in 1 .. num_of_docs
                                        /\ e.counts[j] \in 1 .. (Shl(MaxLog) - 1)
         /\ \A m, n \in 1 .. Len(e.docs) : m < n => e.docs[m] < e.docs[n]
  <1> DEFINE P == Len(e.docs)
  <1>1. /\ e.docs \in Seq(1..num_of_docs) /\ e.docs # <<>>
        /\ \A m, n \in DOMAIN e.docs : m < n => e.docs[m] < e.docs[n]
        /\ DOMAIN e.counts = DOMAIN e.docs
        /\ \A n \in DOMAIN e.docs : e.counts[n] \in 1..(Shl(MaxLog) - 1)
    BY EntriesAssumption
  <1>2. P \in Nat /\ P # 0 /\ DOMAIN e.docs = 1 .. P /\ \A j \in 1 .. P : e.docs[j] \in 1 .. num_of_docs
    <2>1. PICK s \in Seq(1..num_of_docs) : s = e.docs
      BY <1>1
    <2>2. Len(s) \in Nat /\ DOMAIN s = 1 .. Len(s)
      BY LenProperties
    <2>3. \A j \in 1 .. Len(s) : s[j] \in 1..num_of_docs
      BY ElementOfSeq
    <2>4. Len(s) # 0
      <3>1. s # <<>>
        BY <1>1, <2>1
      <3> QED
        BY <3>1, EmptySeq
    <2> QED
      BY <2>1, <2>2, <2>3, <2>4, Zenon
  <1>3. num_of_docs \in Nat
    <2>1. Shl(MaxLog) \in Nat
      BY ShlType DEF MaxLog
    <2> QED
      BY <2>1, DocsAssumption
  <1>4. P \in {n \in Nat : n \in 1 .. P => n <= e.docs[n]}
    <2> DEFINE G == {n \in Nat : n \in 1 .. P => n <= e.docs[n]}
    <2>1. 0 \in G
      OBVIOUS
    <2>2. ASSUME NEW n \in Nat, n \in G PROVE n + 1 \in G
      <3> SUFFICES ASSUME n + 1 \in 1 .. P PROVE n + 1 <= e.docs[n + 1]
        OBVIOUS
      <3>1. e.docs[n + 1] \in 1 .. num_of_docs
        BY <1>2
      <3>2. CASE n = 0
        BY <1>3, <3>1, <3>2
      <3>3. CASE n # 0
        <4>1. n \in 1 .. P
          BY <1>2, <3>3
        <4>2. n <= e.docs[n]
          BY <2>2, <4>1
        <4>4. e.docs[n] < e.docs[n + 1]
          <5>1. n \in DOMAIN e.docs /\ n + 1 \in DOMAIN e.docs /\ n < n + 1
            BY <1>2, <4>1
          <5> QED
            BY <1>1, <5>1, Zenon
        <4>3. e.docs[n] \in 1 .. num_of_docs
          BY <1>2, <4>1
        <4> QED
          BY <1>3, <3>1, <4>2, <4>3, <4>4
      <3> QED
        BY <3>2, <3>3
    <2>3. Nat \subseteq G
      <3> HIDE DEF G
      <3> QED
        BY <2>1, <2>2, NatInductionOnSet
    <2> QED
      BY <1>2, <2>3
  <1>5. P <= e.docs[P] /\ e.docs[P] \in 1 .. num_of_docs
    BY <1>2, <1>4
  <1>6. P <= num_of_docs
    BY <1>2, <1>3, <1>5
  <1> QED
    BY <1>1, <1>2, <1>6

\* The documents of an entry ascend, from 0 before the first.
LEMMA GapFacts ==
  ASSUME NEW e \in Entries
  PROVE  /\ \A j \in 0 .. Len(e.docs) : D(e, j) \in 0 .. num_of_docs
         /\ \A j \in 1 .. Len(e.docs) : D(e, j) = e.docs[j] /\ D(e, j) \in 1 .. num_of_docs
         /\ \A m, n \in 0 .. Len(e.docs) : m < n => D(e, m) < D(e, n)
         /\ \A j \in 1 .. Len(e.docs) : Gap(e, j) \in Nat \ {0}
         /\ num_of_docs \in Nat /\ num_of_docs < Shl(MaxLog) /\ Shl(MaxLog) \in Nat
  <1>1. Shl(MaxLog) \in Nat /\ num_of_docs \in Nat /\ num_of_docs < Shl(MaxLog)
    <2>1. Shl(MaxLog) \in Nat
      BY ShlType DEF MaxLog
    <2> QED
      BY <2>1, DocsAssumption
  <1>2. \A j \in 1 .. Len(e.docs) : D(e, j) = e.docs[j] /\ D(e, j) \in 1 .. num_of_docs
    BY EntryFacts DEF D
  <1>3. D(e, 0) = 0 /\ \A j \in 0 .. Len(e.docs) : j = 0 \/ j \in 1 .. Len(e.docs)
    BY EntryFacts DEF D
  <1>4. \A j \in 0 .. Len(e.docs) : D(e, j) \in 0 .. num_of_docs
    BY <1>1, <1>2, <1>3
  <1>5. ASSUME NEW n \in 0 .. Len(e.docs), NEW j \in 0 .. Len(e.docs), n < j
        PROVE  D(e, n) < D(e, j)
    <2>1. j \in 1 .. Len(e.docs)
      BY <1>5, EntryFacts
    <2>2. CASE n = 0
      BY <1>1, <1>2, <1>3, <2>1, <2>2
    <2>3. CASE n # 0
      <3>1. n \in 1 .. Len(e.docs)
        BY <2>3
      <3> QED
        BY <1>2, <1>5, <2>1, <3>1, EntryFacts
    <2> QED
      BY <2>2, <2>3
  <1>6. ASSUME NEW j \in 1 .. Len(e.docs) PROVE Gap(e, j) \in Nat \ {0}
    <2>1. j - 1 \in 0 .. Len(e.docs) /\ j \in 0 .. Len(e.docs) /\ j - 1 < j
      BY EntryFacts
    <2>2. D(e, j - 1) < D(e, j) /\ D(e, j - 1) \in 0 .. num_of_docs /\ D(e, j) \in 0 .. num_of_docs
      BY <1>4, <1>5, <2>1
    <2> QED
      BY <1>1, <2>2 DEF Gap
  <1> QED
    BY <1>1, <1>2, <1>4, <1>5, <1>6

\* The parameters of an entry under a header of the file.
ParamsOf(e, h, lv) == CalcBlks(h, lv, Len(e.docs), Total(e.counts))

\* The parameters of an entry are in range.
LEMMA ParamFacts ==
  ASSUME NEW e \in Entries, NEW h \in Headers, NEW lv \in {1, 2, 3}, NEW c, c = ParamsOf(e, h, lv)
  PROVE  /\ c.k = SkipSize(h, Len(e.docs)) /\ c.k \in Nat
         /\ c.blk = BblockInit(static_num_of_docs, Len(e.docs)) /\ c.blk \in Operand
         /\ 0 < c.k /\ c.k < Len(e.docs) => c.dn_blk \in Operand /\ c.len_blk \in Operand
  <1> DEFINE P == Len(e.docs)
             k == SkipSize(h, P)
             blocks == (P + k - 1) \div k
             len == BblockBound(num_of_docs, P) + IF lv >= 2 THEN Total(e.counts) ELSE 0
  <1>1. P \in Nat \ {0} /\ P <= num_of_docs
    BY EntryFacts
  <1>2. PICK M \in Nat \ {0} : M = Shl(MaxLog)
    BY ShlType DEF MaxLog
  <1>3. /\ num_of_docs \in Nat /\ num_of_docs < M
        /\ static_num_of_docs \in Nat /\ static_num_of_docs < M
    BY <1>2, DocsAssumption
  <1>4. \A n \in Nat \ {0} : \A N \in Nat : N < M => N <= n * M
    <2> TAKE n \in Nat \ {0}
    <2> TAKE N \in Nat
    <2>1. 1 * M <= n * M /\ n * M \in Nat
      BY <1>2, TimesMonotone
    <2> QED
      BY <1>2, <2>1
  <1>5. BblockInit(static_num_of_docs, P) \in Operand
    BY <1>1, <1>2, <1>3, <1>4, InitRange
  <1>6. k \in Nat
    BY <1>1, SkipType
  <1>7. c = [k       |-> k,
             blk     |-> BblockInit(static_num_of_docs, P),
             dn_blk  |-> IF k = 0 THEN 0 ELSE BblockInit(num_of_docs, blocks),
             len_blk |-> IF k = 0 THEN 0 ELSE BblockInit(len, blocks)]
    BY Zenon DEF ParamsOf, CalcBlks
  <1>8. ASSUME 0 < k, k < P
        PROVE  BblockInit(num_of_docs, blocks) \in Operand /\ BblockInit(len, blocks) \in Operand
    <2> HIDE DEF k
    <2>1. blocks \in 2 .. P
      <3>1. P \in Nat /\ k \in Nat \ {0} /\ k < P
        BY <1>1, <1>6, <1>8
      <3> QED
        BY <3>1, BlocksRange
    <2>2. len \in Nat /\ len <= 2 * M
      <3>1. BblockBound(num_of_docs, P) \in 0..(2 * (M - 1) + 1)
        BY <1>2, EntriesAssumption
      <3>2. BblockBound(num_of_docs, P) + Total(e.counts) \in 0..(2 * (M - 1) + 1)
        BY <1>2, EntriesAssumption
      <3>3. BblockBound(num_of_docs, P) + 0 = BblockBound(num_of_docs, P)
        BY <1>2, <3>1
      <3>4. len \in 0..(2 * (M - 1) + 1)
        BY <3>1, <3>2, <3>3, Zenon
      <3> HIDE DEF len
      <3> QED
        BY <1>2, <3>4
    <2> HIDE DEF blocks, len
    <2>3. 2 * M <= blocks * M
      BY <1>2, <2>1, TimesMonotone
    <2>4. len <= blocks * M /\ blocks \in Nat \ {0}
      <3>1. blocks \in Nat \ {0} /\ blocks * M \in Nat
        BY <1>2, <2>1
      <3> QED
        BY <1>2, <2>2, <2>3, <3>1
    <2>5. num_of_docs <= blocks * M
      BY <1>3, <1>4, <2>4
    <2> QED
      BY <1>2, <1>3, <2>2, <2>4, <2>5, InitRange
  <1> HIDE DEF k, blocks, len
  <1>9. /\ c.k = k /\ c.blk = BblockInit(static_num_of_docs, P)
        /\ k # 0 => c.dn_blk = BblockInit(num_of_docs, blocks) /\ c.len_blk = BblockInit(len, blocks)
    BY <1>7
  <1> QED
    BY <1>5, <1>6, <1>8, <1>9 DEF k

----------------------------------------------------------------------------
(* Blocks.                                                                 *)

\* A remainder is known by its quotient.
LEMMA ModUnique ==
  ASSUME NEW k \in Nat \ {0}, NEW a \in Int, NEW q \in Int, NEW r \in 0 .. (k - 1), a = k * q + r
  PROVE  a % k = r
  <1>1. PICK d \in Int : d = a \div k
    BY DivRem
  <1>2. PICK m \in 0 .. (k - 1) : m = a % k
    BY DivRem
  <1>3. a = k * d + m
    BY <1>1, <1>2, DivRem
  <1>4. k * (d - q) = r - m
    BY <1>3, SMT
  <1>5. d = q
    <2>1. ASSUME d - q >= 1 PROVE FALSE
      <3>1. 1 * k <= (d - q) * k
        BY <2>1, TimesMonotone
      <3> QED
        BY <1>4, <3>1
    <2>2. ASSUME q - d >= 1 PROVE FALSE
      <3>1. 1 * k <= (q - d) * k
        BY <2>2, TimesMonotone
      <3>2. k * (q - d) = m - r
        BY <1>3, SMT
      <3> QED
        BY <3>1, <3>2
    <2> QED
      BY <2>1, <2>2
  <1> QED
    BY <1>2, <1>4, <1>5

\* Remainders of one posting and the next.
LEMMA ModFacts ==
  ASSUME NEW k \in Nat \ {0}, NEW j \in Nat
  PROVE  /\ j % k \in 0 .. (k - 1) /\ j % k <= j
         /\ (j + 1) % k = IF j % k = k - 1 THEN 0 ELSE (j % k) + 1
         /\ (j - (j % k)) % k = 0 /\ j - (j % k) \in Nat
         /\ j % k = 0 => (j + k) % k = 0
         /\ 0 % k = 0
  <1>1. PICK q \in Int : q = j \div k
    BY DivRem
  <1>2. PICK m \in 0 .. (k - 1) : m = j % k
    BY DivRem
  <1>3. j = k * q + m
    BY <1>1, <1>2, DivRem
  <1>4. q \in Nat
    <2>1. 0 * k <= j /\ 0 \in Int
      OBVIOUS
    <2>2. 0 <= j \div k
      BY <2>1, DivGreatest
    <2> QED
      BY <1>1, <2>2
  <1>5. k * q \in Nat
    BY <1>4
  <1>6. m <= j
    BY <1>3, <1>5
  <1>7. (j + 1) % k = IF m = k - 1 THEN 0 ELSE m + 1
    <2>1. CASE m = k - 1
      <3>1. j + 1 = k * (q + 1) + 0 /\ 0 \in 0 .. (k - 1) /\ q + 1 \in Int /\ j + 1 \in Int
        BY <1>3, <2>1
      <3> QED
        BY <2>1, <3>1, ModUnique
    <2>2. CASE m # k - 1
      <3>1. j + 1 = k * q + (m + 1) /\ m + 1 \in 0 .. (k - 1) /\ j + 1 \in Int
        BY <1>3, <1>5, <2>2
      <3> QED
        BY <2>2, <3>1, ModUnique
    <2> QED
      BY <2>1, <2>2
  <1>8. (j - m) % k = 0 /\ j - m \in Nat
    <2>1. j - m = k * q + 0 /\ 0 \in 0 .. (k - 1) /\ j - m \in Int
      BY <1>3, <1>5
    <2> QED
      BY <1>6, <2>1, ModUnique
  <1>9. ASSUME m = 0 PROVE (j + k) % k = 0
    <2>1. j + k = k * (q + 1) + 0 /\ 0 \in 0 .. (k - 1) /\ j + k \in Int /\ q + 1 \in Int
      BY <1>3, <1>9
    <2> QED
      BY <2>1, ModUnique
  <1>10. 0 % k = 0
    <2>1. 0 = k * 0 + 0 /\ 0 \in 0 .. (k - 1) /\ 0 \in Int
      OBVIOUS
    <2> QED
      BY <2>1, ModUnique
  <1> QED
    BY <1>2, <1>6, <1>7, <1>8, <1>9, <1>10

----------------------------------------------------------------------------
(* Recursion: reading, writing and the list operations step by step.       *)

ReadBody(f, codes, lv, len, c, junk, j) ==
  IF j = 0 THEN Start ELSE ReadStep(codes, f[j - 1], j - 1, lv, len, c, junk)
ReadRuns(f, codes, lv, len, c, junk, n) == f = [j \in 0..n |-> ReadBody(f, codes, lv, len, c, junk, j)]

\* Reading of n postings step by step exists.
LEMMA ReadRunsExist ==
  ASSUME NEW codes, NEW lv, NEW len, NEW c, NEW junk, NEW n \in Nat
  PROVE  \E f : ReadRuns(f, codes, lv, len, c, junk, n)
  <1> DEFINE G == {m \in Nat : \E f : ReadRuns(f, codes, lv, len, c, junk, m)}
  <1>1. 0 \in G
    <2>1. PICK f : f = [j \in 0..0 |-> ReadBody(<<>>, codes, lv, len, c, junk, j)]
      OBVIOUS
    <2>2. \A j \in 0..0 : ReadBody(<<>>, codes, lv, len, c, junk, j) = ReadBody(f, codes, lv, len, c, junk, j)
      <3> TAKE j \in 0..0
      <3>1. j = 0
        OBVIOUS
      <3> QED
        BY ONLY <3>1, Zenon DEF ReadBody
    <2>3. [j \in 0..0 |-> ReadBody(<<>>, codes, lv, len, c, junk, j)] = [j \in 0..0 |-> ReadBody(f, codes, lv, len, c, junk, j)]
      BY <2>2, Zenon
    <2>4. ReadRuns(f, codes, lv, len, c, junk, 0)
      BY ONLY <2>1, <2>3, Zenon DEF ReadRuns
    <2> QED
      BY <2>4
  <1>2. ASSUME NEW m \in Nat, m \in G PROVE m + 1 \in G
    <2>1. PICK f : ReadRuns(f, codes, lv, len, c, junk, m)
      BY <1>2
    <2>2. PICK k : k = m + 1
      OBVIOUS
    <2>3. PICK g : g = [j \in 0..k |-> ReadBody(f, codes, lv, len, c, junk, j)]
      OBVIOUS
    <2>4. ASSUME NEW j \in 0..k PROVE ReadBody(f, codes, lv, len, c, junk, j) = ReadBody(g, codes, lv, len, c, junk, j)
      <3>1. CASE j = 0
        BY ONLY <3>1, Zenon DEF ReadBody
      <3>2. CASE j # 0
        <4>1. PICK x : x = j - 1
          OBVIOUS
        <4>2. x \in 0..m /\ x \in 0..k
          BY <2>2, <3>2, <4>1
        <4>3. g[x] = ReadBody(f, codes, lv, len, c, junk, x)
          BY <2>3, <4>2, Zenon
        <4>4. f[x] = ReadBody(f, codes, lv, len, c, junk, x)
          <5>1. f = [y \in 0..m |-> ReadBody(f, codes, lv, len, c, junk, y)]
            BY ONLY <2>1, Zenon DEF ReadRuns
          <5>2. [y \in 0..m |-> ReadBody(f, codes, lv, len, c, junk, y)][x] = ReadBody(f, codes, lv, len, c, junk, x)
            BY <4>2, Zenon
          <5> QED
            BY ONLY <5>1, <5>2, Zenon
        <4>5. f[j - 1] = g[j - 1]
          BY ONLY <4>1, <4>3, <4>4, Zenon
        <4> QED
          BY ONLY <4>5, Zenon DEF ReadBody
      <3> QED
        BY <3>1, <3>2
    <2>5. [j \in 0..k |-> ReadBody(f, codes, lv, len, c, junk, j)] = [j \in 0..k |-> ReadBody(g, codes, lv, len, c, junk, j)]
      BY <2>4, Zenon
    <2>6. ReadRuns(g, codes, lv, len, c, junk, k)
      BY ONLY <2>3, <2>5, Zenon DEF ReadRuns
    <2> QED
      BY <2>2, <2>6
  <1>3. Nat \subseteq G
    <2> HIDE DEF G
    <2> QED
      BY <1>1, <1>2, NatInductionOnSet
  <1> QED
    BY <1>3

\* Reading goes posting by posting.
ReadRun(f, codes, lv, len, c, junk, n) == f[0] = Start /\ \A j \in 1..n : f[j] = ReadStep(codes, f[j - 1], j - 1, lv, len, c, junk)
ReadRan(codes, lv, len, c, junk) ==
  \E f : ReadRun(f, codes, lv, len, c, junk, len) /\ ReadEntry(codes, lv, len, c, junk) = f[len]

\* ReadPostings is the last of its steps.
LEMMA ReadIs ==
  ASSUME NEW codes, NEW lv, NEW len, NEW c, NEW junk, len \in Nat
  PROVE  ReadRan(codes, lv, len, c, junk)
  <1>0. PICK n \in Nat : n = len
    OBVIOUS
  <1>1. PICK f : f = CHOOSE h : ReadRuns(h, codes, lv, len, c, junk, n)
    OBVIOUS
  <1>2. ReadRuns(f, codes, lv, len, c, junk, n)
    BY <1>1, ReadRunsExist, Zenon
  <1>3. ReadEntry(codes, lv, len, c, junk) = f[n]
    BY ONLY <1>0, <1>1, Zenon DEF ReadEntry, ReadRuns, ReadBody
  <1>4. \A j \in 0..n : f[j] = ReadBody(f, codes, lv, len, c, junk, j)
    <2>1. f = [j \in 0..n |-> ReadBody(f, codes, lv, len, c, junk, j)]
      BY ONLY <1>2, Zenon DEF ReadRuns
    <2> TAKE j \in 0..n
    <2>2. [y \in 0..n |-> ReadBody(f, codes, lv, len, c, junk, y)][j] = ReadBody(f, codes, lv, len, c, junk, j)
      BY Zenon
    <2> QED
      BY ONLY <2>1, <2>2, Zenon
  <1>5. 0 \in 0..n /\ \A j \in 1..n : j \in 0..n /\ j # 0
    OBVIOUS
  <1>6. f[0] = Start /\ \A j \in 1..n : f[j] = ReadStep(codes, f[j - 1], j - 1, lv, len, c, junk)
    BY ONLY <1>4, <1>5, Zenon DEF ReadBody
  <1> QED
    BY ONLY <1>0, <1>3, <1>6, Zenon DEF ReadRun, ReadRan

WriteBody(f, ii, lv, c, j) ==
  IF j = 0 THEN Empty ELSE WriteStep(f[j - 1], ii, j - 1, lv, c)
WriteRuns(f, ii, lv, c, n) == f = [j \in 0..n |-> WriteBody(f, ii, lv, c, j)]

\* Writing of n postings step by step exists.
LEMMA WriteRunsExist ==
  ASSUME NEW ii, NEW lv, NEW c, NEW n \in Nat
  PROVE  \E f : WriteRuns(f, ii, lv, c, n)
  <1> DEFINE G == {m \in Nat : \E f : WriteRuns(f, ii, lv, c, m)}
  <1>1. 0 \in G
    <2>1. PICK f : f = [j \in 0..0 |-> WriteBody(<<>>, ii, lv, c, j)]
      OBVIOUS
    <2>2. \A j \in 0..0 : WriteBody(<<>>, ii, lv, c, j) = WriteBody(f, ii, lv, c, j)
      <3> TAKE j \in 0..0
      <3>1. j = 0
        OBVIOUS
      <3> QED
        BY ONLY <3>1, Zenon DEF WriteBody
    <2>3. [j \in 0..0 |-> WriteBody(<<>>, ii, lv, c, j)] = [j \in 0..0 |-> WriteBody(f, ii, lv, c, j)]
      BY <2>2, Zenon
    <2>4. WriteRuns(f, ii, lv, c, 0)
      BY ONLY <2>1, <2>3, Zenon DEF WriteRuns
    <2> QED
      BY <2>4
  <1>2. ASSUME NEW m \in Nat, m \in G PROVE m + 1 \in G
    <2>1. PICK f : WriteRuns(f, ii, lv, c, m)
      BY <1>2
    <2>2. PICK k : k = m + 1
      OBVIOUS
    <2>3. PICK g : g = [j \in 0..k |-> WriteBody(f, ii, lv, c, j)]
      OBVIOUS
    <2>4. ASSUME NEW j \in 0..k PROVE WriteBody(f, ii, lv, c, j) = WriteBody(g, ii, lv, c, j)
      <3>1. CASE j = 0
        BY ONLY <3>1, Zenon DEF WriteBody
      <3>2. CASE j # 0
        <4>1. PICK x : x = j - 1
          OBVIOUS
        <4>2. x \in 0..m /\ x \in 0..k
          BY <2>2, <3>2, <4>1
        <4>3. g[x] = WriteBody(f, ii, lv, c, x)
          BY <2>3, <4>2, Zenon
        <4>4. f[x] = WriteBody(f, ii, lv, c, x)
          <5>1. f = [y \in 0..m |-> WriteBody(f, ii, lv, c, y)]
            BY ONLY <2>1, Zenon DEF WriteRuns
          <5>2. [y \in 0..m |-> WriteBody(f, ii, lv, c, y)][x] = WriteBody(f, ii, lv, c, x)
            BY <4>2, Zenon
          <5> QED
            BY ONLY <5>1, <5>2, Zenon
        <4>5. f[j - 1] = g[j - 1]
          BY ONLY <4>1, <4>3, <4>4, Zenon
        <4> QED
          BY ONLY <4>5, Zenon DEF WriteBody
      <3> QED
        BY <3>1, <3>2
    <2>5. [j \in 0..k |-> WriteBody(f, ii, lv, c, j)] = [j \in 0..k |-> WriteBody(g, ii, lv, c, j)]
      BY <2>4, Zenon
    <2>6. WriteRuns(g, ii, lv, c, k)
      BY ONLY <2>3, <2>5, Zenon DEF WriteRuns
    <2> QED
      BY <2>2, <2>6
  <1>3. Nat \subseteq G
    <2> HIDE DEF G
    <2> QED
      BY <1>1, <1>2, NatInductionOnSet
  <1> QED
    BY <1>3

\* Writing too.
WriteRun(f, ii, lv, c, n) == f[0] = Empty /\ \A j \in 1..n : f[j] = WriteStep(f[j - 1], ii, j - 1, lv, c)
WriteRan(ii, lv, c) ==
  \E f : WriteRun(f, ii, lv, c, Len(ii)) /\ WriteEntry(ii, lv, c) = f[Len(ii)]

\* The writer ends at the last of its steps.
LEMMA WriteIs ==
  ASSUME NEW ii, NEW lv, NEW c, Len(ii) \in Nat
  PROVE  WriteRan(ii, lv, c)
  <1>0. PICK n \in Nat : n = Len(ii)
    OBVIOUS
  <1>1. PICK f : f = CHOOSE h : WriteRuns(h, ii, lv, c, n)
    OBVIOUS
  <1>2. WriteRuns(f, ii, lv, c, n)
    BY <1>1, WriteRunsExist, Zenon
  <1>3. WriteEntry(ii, lv, c) = f[n]
    BY ONLY <1>0, <1>1, Zenon DEF WriteEntry, WriteRuns, WriteBody
  <1>4. \A j \in 0..n : f[j] = WriteBody(f, ii, lv, c, j)
    <2>1. f = [j \in 0..n |-> WriteBody(f, ii, lv, c, j)]
      BY ONLY <1>2, Zenon DEF WriteRuns
    <2> TAKE j \in 0..n
    <2>2. [y \in 0..n |-> WriteBody(f, ii, lv, c, y)][j] = WriteBody(f, ii, lv, c, j)
      BY Zenon
    <2> QED
      BY ONLY <2>1, <2>2, Zenon
  <1>5. 0 \in 0..n /\ \A j \in 1..n : j \in 0..n /\ j # 0
    OBVIOUS
  <1>6. f[0] = Empty /\ \A j \in 1..n : f[j] = WriteStep(f[j - 1], ii, j - 1, lv, c)
    BY ONLY <1>4, <1>5, Zenon DEF WriteBody
  <1> QED
    BY ONLY <1>0, <1>3, <1>6, Zenon DEF WriteRun, WriteRan

ReduceBody(f, l, j) ==
  IF j = 0 THEN <<>> ELSE IF l[j].or_included THEN Append(f[j - 1], Unmark(l[j])) ELSE f[j - 1]
ReduceRuns(f, l, n) == f = [j \in 0..n |-> ReduceBody(f, l, j)]

\* Reducing of n places step by step exists.
LEMMA ReduceRunsExist ==
  ASSUME NEW l, NEW n \in Nat
  PROVE  \E f : ReduceRuns(f, l, n)
  <1> DEFINE G == {m \in Nat : \E f : ReduceRuns(f, l, m)}
  <1>1. 0 \in G
    <2>1. PICK f : f = [j \in 0..0 |-> ReduceBody(<<>>, l, j)]
      OBVIOUS
    <2>2. \A j \in 0..0 : ReduceBody(<<>>, l, j) = ReduceBody(f, l, j)
      <3> TAKE j \in 0..0
      <3>1. j = 0
        OBVIOUS
      <3> QED
        BY ONLY <3>1, Zenon DEF ReduceBody
    <2>3. [j \in 0..0 |-> ReduceBody(<<>>, l, j)] = [j \in 0..0 |-> ReduceBody(f, l, j)]
      BY <2>2, Zenon
    <2>4. ReduceRuns(f, l, 0)
      BY ONLY <2>1, <2>3, Zenon DEF ReduceRuns
    <2> QED
      BY <2>4
  <1>2. ASSUME NEW m \in Nat, m \in G PROVE m + 1 \in G
    <2>1. PICK f : ReduceRuns(f, l, m)
      BY <1>2
    <2>2. PICK k : k = m + 1
      OBVIOUS
    <2>3. PICK g : g = [j \in 0..k |-> ReduceBody(f, l, j)]
      OBVIOUS
    <2>4. ASSUME NEW j \in 0..k PROVE ReduceBody(f, l, j) = ReduceBody(g, l, j)
      <3>1. CASE j = 0
        BY ONLY <3>1, Zenon DEF ReduceBody
      <3>2. CASE j # 0
        <4>1. PICK x : x = j - 1
          OBVIOUS
        <4>2. x \in 0..m /\ x \in 0..k
          BY <2>2, <3>2, <4>1
        <4>3. g[x] = ReduceBody(f, l, x)
          BY <2>3, <4>2, Zenon
        <4>4. f[x] = ReduceBody(f, l, x)
          <5>1. f = [y \in 0..m |-> ReduceBody(f, l, y)]
            BY ONLY <2>1, Zenon DEF ReduceRuns
          <5>2. [y \in 0..m |-> ReduceBody(f, l, y)][x] = ReduceBody(f, l, x)
            BY <4>2, Zenon
          <5> QED
            BY ONLY <5>1, <5>2, Zenon
        <4>5. f[j - 1] = g[j - 1]
          BY ONLY <4>1, <4>3, <4>4, Zenon
        <4> QED
          BY ONLY <4>5, Zenon DEF ReduceBody
      <3> QED
        BY <3>1, <3>2
    <2>5. [j \in 0..k |-> ReduceBody(f, l, j)] = [j \in 0..k |-> ReduceBody(g, l, j)]
      BY <2>4, Zenon
    <2>6. ReduceRuns(g, l, k)
      BY ONLY <2>3, <2>5, Zenon DEF ReduceRuns
    <2> QED
      BY <2>2, <2>6
  <1>3. Nat \subseteq G
    <2> HIDE DEF G
    <2> QED
      BY <1>1, <1>2, NatInductionOnSet
  <1> QED
    BY <1>3

\* The list of a group goes entry by entry.
ReduceRun(f, l, n) == f[0] = <<>> /\ \A j \in 1..n : f[j] = IF l[j].or_included THEN Append(f[j - 1], Unmark(l[j])) ELSE f[j - 1]
ReduceRan(l) ==
  \E f : ReduceRun(f, l, Len(l)) /\ Reduced(l) = f[Len(l)]

\* The reduced list is the last of its steps.
LEMMA ReduceIs ==
  ASSUME NEW l, Len(l) \in Nat
  PROVE  ReduceRan(l)
  <1>0. PICK n \in Nat : n = Len(l)
    OBVIOUS
  <1>1. PICK f : f = CHOOSE h : ReduceRuns(h, l, n)
    OBVIOUS
  <1>2. ReduceRuns(f, l, n)
    BY <1>1, ReduceRunsExist, Zenon
  <1>3. Reduced(l) = f[n]
    BY ONLY <1>0, <1>1, Zenon DEF Reduced, ReduceRuns, ReduceBody
  <1>4. \A j \in 0..n : f[j] = ReduceBody(f, l, j)
    <2>1. f = [j \in 0..n |-> ReduceBody(f, l, j)]
      BY ONLY <1>2, Zenon DEF ReduceRuns
    <2> TAKE j \in 0..n
    <2>2. [y \in 0..n |-> ReduceBody(f, l, y)][j] = ReduceBody(f, l, j)
      BY Zenon
    <2> QED
      BY ONLY <2>1, <2>2, Zenon
  <1>5. 0 \in 0..n /\ \A j \in 1..n : j \in 0..n /\ j # 0
    OBVIOUS
  <1>6. f[0] = <<>> /\ \A j \in 1..n : f[j] = IF l[j].or_included THEN Append(f[j - 1], Unmark(l[j])) ELSE f[j - 1]
    BY ONLY <1>4, <1>5, Zenon DEF ReduceBody
  <1> QED
    BY ONLY <1>0, <1>3, <1>6, Zenon DEF ReduceRun, ReduceRan

IntersectBody(f, l1, l2, j) ==
  IF j = 0 THEN FromStart ELSE IntersectRound(l1, l2, f[j - 1])
IntersectRuns(f, l1, l2, n) == f = [j \in 0..n |-> IntersectBody(f, l1, l2, j)]

\* n rounds of IntersectLists exist.
LEMMA IntersectRunsExist ==
  ASSUME NEW l1, NEW l2, NEW n \in Nat
  PROVE  \E f : IntersectRuns(f, l1, l2, n)
  <1> DEFINE G == {m \in Nat : \E f : IntersectRuns(f, l1, l2, m)}
  <1>1. 0 \in G
    <2>1. PICK f : f = [j \in 0..0 |-> IntersectBody(<<>>, l1, l2, j)]
      OBVIOUS
    <2>2. \A j \in 0..0 : IntersectBody(<<>>, l1, l2, j) = IntersectBody(f, l1, l2, j)
      <3> TAKE j \in 0..0
      <3>1. j = 0
        OBVIOUS
      <3> QED
        BY ONLY <3>1, Zenon DEF IntersectBody
    <2>3. [j \in 0..0 |-> IntersectBody(<<>>, l1, l2, j)] = [j \in 0..0 |-> IntersectBody(f, l1, l2, j)]
      BY <2>2, Zenon
    <2>4. IntersectRuns(f, l1, l2, 0)
      BY ONLY <2>1, <2>3, Zenon DEF IntersectRuns
    <2> QED
      BY <2>4
  <1>2. ASSUME NEW m \in Nat, m \in G PROVE m + 1 \in G
    <2>1. PICK f : IntersectRuns(f, l1, l2, m)
      BY <1>2
    <2>2. PICK k : k = m + 1
      OBVIOUS
    <2>3. PICK g : g = [j \in 0..k |-> IntersectBody(f, l1, l2, j)]
      OBVIOUS
    <2>4. ASSUME NEW j \in 0..k PROVE IntersectBody(f, l1, l2, j) = IntersectBody(g, l1, l2, j)
      <3>1. CASE j = 0
        BY ONLY <3>1, Zenon DEF IntersectBody
      <3>2. CASE j # 0
        <4>1. PICK x : x = j - 1
          OBVIOUS
        <4>2. x \in 0..m /\ x \in 0..k
          BY <2>2, <3>2, <4>1
        <4>3. g[x] = IntersectBody(f, l1, l2, x)
          BY <2>3, <4>2, Zenon
        <4>4. f[x] = IntersectBody(f, l1, l2, x)
          <5>1. f = [y \in 0..m |-> IntersectBody(f, l1, l2, y)]
            BY ONLY <2>1, Zenon DEF IntersectRuns
          <5>2. [y \in 0..m |-> IntersectBody(f, l1, l2, y)][x] = IntersectBody(f, l1, l2, x)
            BY <4>2, Zenon
          <5> QED
            BY ONLY <5>1, <5>2, Zenon
        <4>5. f[j - 1] = g[j - 1]
          BY ONLY <4>1, <4>3, <4>4, Zenon
        <4> QED
          BY ONLY <4>5, Zenon DEF IntersectBody
      <3> QED
        BY <3>1, <3>2
    <2>5. [j \in 0..k |-> IntersectBody(f, l1, l2, j)] = [j \in 0..k |-> IntersectBody(g, l1, l2, j)]
      BY <2>4, Zenon
    <2>6. IntersectRuns(g, l1, l2, k)
      BY ONLY <2>3, <2>5, Zenon DEF IntersectRuns
    <2> QED
      BY <2>2, <2>6
  <1>3. Nat \subseteq G
    <2> HIDE DEF G
    <2> QED
      BY <1>1, <1>2, NatInductionOnSet
  <1> QED
    BY <1>3

\* The list operations go round by round.
IntersectRun(f, l1, l2, n) == f[0] = FromStart /\ \A j \in 1..n : f[j] = IntersectRound(l1, l2, f[j - 1])
IntersectRan(l1, l2) ==
  \E f : IntersectRun(f, l1, l2, Len(l1) + Len(l2)) /\ IntersectLists(l1, l2) = f[Len(l1) + Len(l2)].out

\* IntersectLists is the last of its rounds.
LEMMA IntersectIs ==
  ASSUME NEW l1, NEW l2, Len(l1) + Len(l2) \in Nat
  PROVE  IntersectRan(l1, l2)
  <1>0. PICK n \in Nat : n = Len(l1) + Len(l2)
    OBVIOUS
  <1>1. PICK f : f = CHOOSE h : IntersectRuns(h, l1, l2, n)
    OBVIOUS
  <1>2. IntersectRuns(f, l1, l2, n)
    BY <1>1, IntersectRunsExist, Zenon
  <1>3. IntersectLists(l1, l2) = f[n].out
    BY ONLY <1>0, <1>1, Zenon DEF IntersectLists, IntersectRuns, IntersectBody, Rounds
  <1>4. \A j \in 0..n : f[j] = IntersectBody(f, l1, l2, j)
    <2>1. f = [j \in 0..n |-> IntersectBody(f, l1, l2, j)]
      BY ONLY <1>2, Zenon DEF IntersectRuns
    <2> TAKE j \in 0..n
    <2>2. [y \in 0..n |-> IntersectBody(f, l1, l2, y)][j] = IntersectBody(f, l1, l2, j)
      BY Zenon
    <2> QED
      BY ONLY <2>1, <2>2, Zenon
  <1>5. 0 \in 0..n /\ \A j \in 1..n : j \in 0..n /\ j # 0
    OBVIOUS
  <1>6. f[0] = FromStart /\ \A j \in 1..n : f[j] = IntersectRound(l1, l2, f[j - 1])
    BY ONLY <1>4, <1>5, Zenon DEF IntersectBody
  <1> QED
    BY ONLY <1>0, <1>3, <1>6, Zenon DEF IntersectRun, IntersectRan

DiffBody(f, l1, l2, j) ==
  IF j = 0 THEN FromStart ELSE DiffRound(l1, l2, f[j - 1])
DiffRuns(f, l1, l2, n) == f = [j \in 0..n |-> DiffBody(f, l1, l2, j)]

\* n rounds of DiffLists exist.
LEMMA DiffRunsExist ==
  ASSUME NEW l1, NEW l2, NEW n \in Nat
  PROVE  \E f : DiffRuns(f, l1, l2, n)
  <1> DEFINE G == {m \in Nat : \E f : DiffRuns(f, l1, l2, m)}
  <1>1. 0 \in G
    <2>1. PICK f : f = [j \in 0..0 |-> DiffBody(<<>>, l1, l2, j)]
      OBVIOUS
    <2>2. \A j \in 0..0 : DiffBody(<<>>, l1, l2, j) = DiffBody(f, l1, l2, j)
      <3> TAKE j \in 0..0
      <3>1. j = 0
        OBVIOUS
      <3> QED
        BY ONLY <3>1, Zenon DEF DiffBody
    <2>3. [j \in 0..0 |-> DiffBody(<<>>, l1, l2, j)] = [j \in 0..0 |-> DiffBody(f, l1, l2, j)]
      BY <2>2, Zenon
    <2>4. DiffRuns(f, l1, l2, 0)
      BY ONLY <2>1, <2>3, Zenon DEF DiffRuns
    <2> QED
      BY <2>4
  <1>2. ASSUME NEW m \in Nat, m \in G PROVE m + 1 \in G
    <2>1. PICK f : DiffRuns(f, l1, l2, m)
      BY <1>2
    <2>2. PICK k : k = m + 1
      OBVIOUS
    <2>3. PICK g : g = [j \in 0..k |-> DiffBody(f, l1, l2, j)]
      OBVIOUS
    <2>4. ASSUME NEW j \in 0..k PROVE DiffBody(f, l1, l2, j) = DiffBody(g, l1, l2, j)
      <3>1. CASE j = 0
        BY ONLY <3>1, Zenon DEF DiffBody
      <3>2. CASE j # 0
        <4>1. PICK x : x = j - 1
          OBVIOUS
        <4>2. x \in 0..m /\ x \in 0..k
          BY <2>2, <3>2, <4>1
        <4>3. g[x] = DiffBody(f, l1, l2, x)
          BY <2>3, <4>2, Zenon
        <4>4. f[x] = DiffBody(f, l1, l2, x)
          <5>1. f = [y \in 0..m |-> DiffBody(f, l1, l2, y)]
            BY ONLY <2>1, Zenon DEF DiffRuns
          <5>2. [y \in 0..m |-> DiffBody(f, l1, l2, y)][x] = DiffBody(f, l1, l2, x)
            BY <4>2, Zenon
          <5> QED
            BY ONLY <5>1, <5>2, Zenon
        <4>5. f[j - 1] = g[j - 1]
          BY ONLY <4>1, <4>3, <4>4, Zenon
        <4> QED
          BY ONLY <4>5, Zenon DEF DiffBody
      <3> QED
        BY <3>1, <3>2
    <2>5. [j \in 0..k |-> DiffBody(f, l1, l2, j)] = [j \in 0..k |-> DiffBody(g, l1, l2, j)]
      BY <2>4, Zenon
    <2>6. DiffRuns(g, l1, l2, k)
      BY ONLY <2>3, <2>5, Zenon DEF DiffRuns
    <2> QED
      BY <2>2, <2>6
  <1>3. Nat \subseteq G
    <2> HIDE DEF G
    <2> QED
      BY <1>1, <1>2, NatInductionOnSet
  <1> QED
    BY <1>3

DiffRun(f, l1, l2, n) == f[0] = FromStart /\ \A j \in 1..n : f[j] = DiffRound(l1, l2, f[j - 1])
DiffRan(l1, l2) ==
  \E f : DiffRun(f, l1, l2, Len(l1) + Len(l2)) /\ DiffLists(l1, l2) = f[Len(l1) + Len(l2)].out

\* DiffLists is the last of its rounds.
LEMMA DiffIs ==
  ASSUME NEW l1, NEW l2, Len(l1) + Len(l2) \in Nat
  PROVE  DiffRan(l1, l2)
  <1>0. PICK n \in Nat : n = Len(l1) + Len(l2)
    OBVIOUS
  <1>1. PICK f : f = CHOOSE h : DiffRuns(h, l1, l2, n)
    OBVIOUS
  <1>2. DiffRuns(f, l1, l2, n)
    BY <1>1, DiffRunsExist, Zenon
  <1>3. DiffLists(l1, l2) = f[n].out
    BY ONLY <1>0, <1>1, Zenon DEF DiffLists, DiffRuns, DiffBody, Rounds
  <1>4. \A j \in 0..n : f[j] = DiffBody(f, l1, l2, j)
    <2>1. f = [j \in 0..n |-> DiffBody(f, l1, l2, j)]
      BY ONLY <1>2, Zenon DEF DiffRuns
    <2> TAKE j \in 0..n
    <2>2. [y \in 0..n |-> DiffBody(f, l1, l2, y)][j] = DiffBody(f, l1, l2, j)
      BY Zenon
    <2> QED
      BY ONLY <2>1, <2>2, Zenon
  <1>5. 0 \in 0..n /\ \A j \in 1..n : j \in 0..n /\ j # 0
    OBVIOUS
  <1>6. f[0] = FromStart /\ \A j \in 1..n : f[j] = DiffRound(l1, l2, f[j - 1])
    BY ONLY <1>4, <1>5, Zenon DEF DiffBody
  <1> QED
    BY ONLY <1>0, <1>3, <1>6, Zenon DEF DiffRun, DiffRan

MergeBody(f, l1, l2, j) ==
  IF j = 0 THEN FromStart ELSE MergeRound(l1, l2, f[j - 1])
MergeRuns(f, l1, l2, n) == f = [j \in 0..n |-> MergeBody(f, l1, l2, j)]

\* n rounds of MergeLists exist.
LEMMA MergeRunsExist ==
  ASSUME NEW l1, NEW l2, NEW n \in Nat
  PROVE  \E f : MergeRuns(f, l1, l2, n)
  <1> DEFINE G == {m \in Nat : \E f : MergeRuns(f, l1, l2, m)}
  <1>1. 0 \in G
    <2>1. PICK f : f = [j \in 0..0 |-> MergeBody(<<>>, l1, l2, j)]
      OBVIOUS
    <2>2. \A j \in 0..0 : MergeBody(<<>>, l1, l2, j) = MergeBody(f, l1, l2, j)
      <3> TAKE j \in 0..0
      <3>1. j = 0
        OBVIOUS
      <3> QED
        BY ONLY <3>1, Zenon DEF MergeBody
    <2>3. [j \in 0..0 |-> MergeBody(<<>>, l1, l2, j)] = [j \in 0..0 |-> MergeBody(f, l1, l2, j)]
      BY <2>2, Zenon
    <2>4. MergeRuns(f, l1, l2, 0)
      BY ONLY <2>1, <2>3, Zenon DEF MergeRuns
    <2> QED
      BY <2>4
  <1>2. ASSUME NEW m \in Nat, m \in G PROVE m + 1 \in G
    <2>1. PICK f : MergeRuns(f, l1, l2, m)
      BY <1>2
    <2>2. PICK k : k = m + 1
      OBVIOUS
    <2>3. PICK g : g = [j \in 0..k |-> MergeBody(f, l1, l2, j)]
      OBVIOUS
    <2>4. ASSUME NEW j \in 0..k PROVE MergeBody(f, l1, l2, j) = MergeBody(g, l1, l2, j)
      <3>1. CASE j = 0
        BY ONLY <3>1, Zenon DEF MergeBody
      <3>2. CASE j # 0
        <4>1. PICK x : x = j - 1
          OBVIOUS
        <4>2. x \in 0..m /\ x \in 0..k
          BY <2>2, <3>2, <4>1
        <4>3. g[x] = MergeBody(f, l1, l2, x)
          BY <2>3, <4>2, Zenon
        <4>4. f[x] = MergeBody(f, l1, l2, x)
          <5>1. f = [y \in 0..m |-> MergeBody(f, l1, l2, y)]
            BY ONLY <2>1, Zenon DEF MergeRuns
          <5>2. [y \in 0..m |-> MergeBody(f, l1, l2, y)][x] = MergeBody(f, l1, l2, x)
            BY <4>2, Zenon
          <5> QED
            BY ONLY <5>1, <5>2, Zenon
        <4>5. f[j - 1] = g[j - 1]
          BY ONLY <4>1, <4>3, <4>4, Zenon
        <4> QED
          BY ONLY <4>5, Zenon DEF MergeBody
      <3> QED
        BY <3>1, <3>2
    <2>5. [j \in 0..k |-> MergeBody(f, l1, l2, j)] = [j \in 0..k |-> MergeBody(g, l1, l2, j)]
      BY <2>4, Zenon
    <2>6. MergeRuns(g, l1, l2, k)
      BY ONLY <2>3, <2>5, Zenon DEF MergeRuns
    <2> QED
      BY <2>2, <2>6
  <1>3. Nat \subseteq G
    <2> HIDE DEF G
    <2> QED
      BY <1>1, <1>2, NatInductionOnSet
  <1> QED
    BY <1>3

MergeRun(f, l1, l2, n) == f[0] = FromStart /\ \A j \in 1..n : f[j] = MergeRound(l1, l2, f[j - 1])
MergeRan(l1, l2) ==
  \E f : MergeRun(f, l1, l2, Len(l1) + Len(l2)) /\ MergeLists(l1, l2) = f[Len(l1) + Len(l2)].out

\* MergeLists is the last of its rounds.
LEMMA MergeIs ==
  ASSUME NEW l1, NEW l2, Len(l1) + Len(l2) \in Nat
  PROVE  MergeRan(l1, l2)
  <1>0. PICK n \in Nat : n = Len(l1) + Len(l2)
    OBVIOUS
  <1>1. PICK f : f = CHOOSE h : MergeRuns(h, l1, l2, n)
    OBVIOUS
  <1>2. MergeRuns(f, l1, l2, n)
    BY <1>1, MergeRunsExist, Zenon
  <1>3. MergeLists(l1, l2) = f[n].out
    BY ONLY <1>0, <1>1, Zenon DEF MergeLists, MergeRuns, MergeBody, Rounds
  <1>4. \A j \in 0..n : f[j] = MergeBody(f, l1, l2, j)
    <2>1. f = [j \in 0..n |-> MergeBody(f, l1, l2, j)]
      BY ONLY <1>2, Zenon DEF MergeRuns
    <2> TAKE j \in 0..n
    <2>2. [y \in 0..n |-> MergeBody(f, l1, l2, y)][j] = MergeBody(f, l1, l2, j)
      BY Zenon
    <2> QED
      BY ONLY <2>1, <2>2, Zenon
  <1>5. 0 \in 0..n /\ \A j \in 1..n : j \in 0..n /\ j # 0
    OBVIOUS
  <1>6. f[0] = FromStart /\ \A j \in 1..n : f[j] = MergeRound(l1, l2, f[j - 1])
    BY ONLY <1>4, <1>5, Zenon DEF MergeBody
  <1> QED
    BY ONLY <1>0, <1>3, <1>6, Zenon DEF MergeRun, MergeRan

----------------------------------------------------------------------------
(* Codes written one after the other.                                      *)

Code == [at : Nat, b : Nat, x : Nat]

CodeLength(x, b) == IF b = 0 THEN GammaLength(x) ELSE BblockLength(x, b)

\* What the encoders take.
Coding(x, b) == /\ x \in Nat \ {0}
                /\ b \in Operand \/ (b = 0 /\ x \in 1 .. (Shl(MaxLog) - 1))

Writing == [codes : Seq(Code), bits : Nat, bits_so_far : Nat, last_major : Nat,
            doc_num : Nat, ok : {TRUE}]

Ascending(codes) == \A m, n \in 1 .. Len(codes) : m < n => codes[m].at < codes[n].at

\* The codes begin one behind the other, the last before the bit reached.
InOrder(s) == Ascending(s.codes) /\ \A m \in 1 .. Len(s.codes) : s.codes[m].at < s.bits

\* t is s with its codes and more of them.
Further(s, t) == /\ Len(s.codes) <= Len(t.codes)
                 /\ \A m \in 1 .. Len(s.codes) : t.codes[m] = s.codes[m]

SameElse(s, t) == /\ t.bits_so_far = s.bits_so_far /\ t.last_major = s.last_major
                  /\ t.doc_num = s.doc_num

\* The length of a code that the coder accepts.
LEMMA CodingLength ==
  ASSUME NEW x, NEW b, Coding(x, b)
  PROVE  CodeLength(x, b) \in Nat \ {0} /\ b \in Nat /\ x \in Nat
         /\ (b = 0 => CodeLength(x, b) = GammaLength(x))
         /\ (b # 0 => CodeLength(x, b) = BblockLength(x, b))
  <1>1. CASE b \in Operand
    <2>1. b \in Nat \ {0}
      BY <1>1, OperandType
    <2> QED
      BY <1>1, <2>1, LengthPositive DEF Coding, CodeLength
  <1>2. CASE b = 0 /\ x \in 1 .. (Shl(MaxLog) - 1)
    <2>1. GammaLength(x) \in Nat \ {0}
      BY <1>2, GammaPositive
    <2>2. b = 0 /\ x \in Nat
      BY <1>2 DEF Coding
    <2> QED
      BY <2>1, <2>2 DEF CodeLength
  <1> QED
    BY <1>1, <1>2 DEF Coding

\* A code more at the end.
LEMMA PutIs ==
  ASSUME NEW s \in Writing, InOrder(s), NEW x, NEW b, Coding(x, b),
         NEW t, t = Put(s, x, b)
  PROVE  /\ t \in Writing /\ InOrder(t) /\ SameElse(s, t) /\ Further(s, t)
         /\ t.bits = s.bits + CodeLength(x, b)
         /\ Len(t.codes) = Len(s.codes) + 1
         /\ t.codes[Len(s.codes) + 1] = [at |-> s.bits, b |-> b, x |-> x]
  <1>1. PICK len : len = CodeLength(x, b)
    OBVIOUS
  <1>2. len \in Nat \ {0} /\ b \in Nat /\ x \in Nat \ {0}
    BY <1>1, CodingLength DEF Coding
  <1>3. PICK new \in Code : new = [at |-> s.bits, b |-> b, x |-> x]
    BY <1>2 DEF Writing, Code
  <1>4. PICK cs \in Seq(Code) : cs = s.codes
    BY DEF Writing
  <1>5. PICK ds \in Seq(Code) : ds = Append(cs, new)
    BY AppendProperties
  <1>6. /\ Len(ds) = Len(cs) + 1 /\ Len(cs) \in Nat
        /\ \A m \in 1 .. Len(cs) : ds[m] = cs[m] /\ cs[m] \in Code
        /\ ds[Len(cs) + 1] = new
    BY <1>5, AppendProperties, LenProperties, ElementOfSeq
  <1>7. t = [s EXCEPT !.codes = ds, !.bits = s.bits + len]
    <2>1. s.ok /\ ~(x < 1)
      <3>1. ~(x < 1)
        BY <1>2
      <3>2. s.ok \in {TRUE}
        BY DEF Writing
      <3> QED
        BY <3>1, <3>2, Zenon
    <2>2. len = IF b = 0 THEN GammaLength(x) ELSE BblockLength(x, b)
      BY <1>1, Zenon DEF CodeLength
    <2> QED
      BY <1>3, <1>4, <1>5, <2>1, <2>2, t = Put(s, x, b), Zenon DEF Put
  <1>8. /\ t.codes = ds /\ t.bits = s.bits + len /\ t.ok = TRUE
        /\ t.bits_so_far = s.bits_so_far /\ t.last_major = s.last_major /\ t.doc_num = s.doc_num
        /\ t \in Writing
    <2>1. s.bits + len \in Nat
      BY <1>2 DEF Writing
    <2>2. t.codes = ds /\ t.bits = s.bits + len /\ t.ok = s.ok
          /\ t.bits_so_far = s.bits_so_far /\ t.last_major = s.last_major /\ t.doc_num = s.doc_num
          /\ t \in Writing
      BY <1>7, <2>1 DEF Writing
    <2>3. s.ok \in {TRUE}
      BY DEF Writing
    <2> QED
      BY <2>2, <2>3
  <1>9. InOrder(t)
    <2>1. \A m \in 1 .. Len(ds) : m \in 1 .. Len(cs) \/ m = Len(cs) + 1
      BY <1>6
    <2>2. s.bits \in Nat /\ new.at = s.bits
      BY <1>3 DEF Writing
    <2>3. \A m \in 1 .. Len(cs) : ds[m].at < s.bits /\ ds[m].at \in Nat
      BY <1>4, <1>6 DEF InOrder, Code
    <2>4. \A m \in 1 .. Len(ds) : ds[m].at < s.bits + len
      BY <1>2, <1>6, <2>1, <2>2, <2>3
    <2>5. ASSUME NEW m \in 1 .. Len(ds), NEW n \in 1 .. Len(ds), m < n PROVE ds[m].at < ds[n].at
      <3>1. m \in 1 .. Len(cs)
        BY <1>6, <2>5
      <3>2. CASE n \in 1 .. Len(cs)
        <4>1. cs[m].at < cs[n].at
          BY <1>4, <2>5, <3>1, <3>2 DEF InOrder, Ascending
        <4> QED
          BY <1>6, <3>1, <3>2, <4>1
      <3>3. CASE n = Len(cs) + 1
        BY <1>6, <2>2, <2>3, <3>1, <3>3
      <3> QED
        BY <2>1, <3>2, <3>3
    <2> QED
      BY <1>8, <2>4, <2>5 DEF InOrder, Ascending
  <1> QED
    BY <1>1, <1>3, <1>4, <1>6, <1>8, <1>9 DEF SameElse, Further

\* More written, and more again, is more.
LEMMA FurtherTwice ==
  ASSUME NEW s \in Writing, NEW t \in Writing, NEW u \in Writing, Further(s, t), Further(t, u)
  PROVE  Further(s, u)
  <1>1. Len(s.codes) \in Nat /\ Len(t.codes) \in Nat /\ Len(u.codes) \in Nat
    BY LenProperties DEF Writing
  <1> QED
    BY <1>1 DEF Further

----------------------------------------------------------------------------
(* The second loop of mg_invf_rebuild.                                     *)

\* The bits of the count of posting j, from 1.
Tf(e, lv, j) == IF lv >= 2 THEN GammaLength(e.counts[j]) ELSE 0

\* The postings in memory are those of e, with their bits where they matter.
Right(ii, e, lv, c) ==
  /\ Len(ii) = Len(e.docs)
  /\ \A j \in 1 .. Len(e.docs) : ii[j].doc_num = e.docs[j] /\ ii[j].count = e.counts[j]
  /\ c.k > 0 =>
       /\ ii[1].bits_so_far = 0
       /\ \A j \in 1 .. Len(e.docs) : /\ ii[j].bits_so_far \in Nat
                                      /\ ii[j].count_bits = Tf(e, lv, j)
       /\ \A j \in 1 .. (Len(e.docs) - 1) :
            ii[j + 1].bits_so_far =
              ii[j].bits_so_far + (BblockLength(Gap(e, j), c.blk) + Tf(e, lv, j))

Rest(s, ii, j, lv, c) ==
  LET s2 == IF LeftOut(j, Len(ii), c.k) THEN s
            ELSE Put(s, ii[j + 1].doc_num - s.doc_num, c.blk)
      s3 == [s2 EXCEPT !.doc_num = ii[j + 1].doc_num]
  IN IF lv >= 2 THEN Put(s3, ii[j + 1].count, 0) ELSE s3

\* A step of the writer: a header if one is due, then the posting.
LEMMA StepIs ==
  ASSUME NEW s, NEW ii, NEW j, NEW lv, NEW c
  PROVE  WriteStep(s, ii, j, lv, c) =
           Rest(IF HeaderAt(j, Len(ii), c.k) THEN PutHeader(s, ii, j, c) ELSE s, ii, j, lv, c)
  BY Zenon DEF WriteStep, Rest

\* The gap and the count of posting j, from 0, are written behind s.
Rested(s, t, e, lv, c, j, last) ==
  /\ t \in Writing /\ InOrder(t) /\ Further(s, t) /\ t.doc_num = D(e, j + 1)
  /\ t.bits_so_far = s.bits_so_far /\ t.last_major = s.last_major
  /\ t.bits = s.bits + ((IF last THEN 0 ELSE BblockLength(Gap(e, j + 1), c.blk))
                        + Tf(e, lv, j + 1))
  /\ Len(t.codes) = Len(s.codes) + ((IF last THEN 0 ELSE 1) + (IF lv >= 2 THEN 1 ELSE 0))
  /\ ~last => t.codes[Len(s.codes) + 1] =
                [at |-> s.bits, b |-> c.blk, x |-> Gap(e, j + 1)]
  /\ lv >= 2 => t.codes[Len(t.codes)] =
                  [at |-> s.bits + (IF last THEN 0 ELSE BblockLength(Gap(e, j + 1), c.blk)),
                   b |-> 0, x |-> e.counts[j + 1]]

\* What a posting adds to the codes.
LEMMA RestIs ==
  ASSUME NEW e \in Entries, NEW h \in Headers, NEW lv \in {1, 2, 3}, NEW c, c = ParamsOf(e, h, lv),
         NEW ii, Right(ii, e, lv, c), NEW j \in 0 .. (Len(e.docs) - 1),
         NEW s \in Writing, InOrder(s), s.doc_num = D(e, j),
         NEW last, last = LastOfBlock(j, Len(e.docs), c.k)
  PROVE  Rested(s, Rest(s, ii, j, lv, c), e, lv, c, j, last)
  <1> DEFINE t == Rest(s, ii, j, lv, c)
  <1>0. SUFFICES /\ t \in Writing /\ InOrder(t) /\ Further(s, t) /\ t.doc_num = D(e, j + 1)
                 /\ t.bits_so_far = s.bits_so_far /\ t.last_major = s.last_major
                 /\ t.bits = s.bits + ((IF last THEN 0 ELSE BblockLength(Gap(e, j + 1), c.blk))
                                       + Tf(e, lv, j + 1))
                 /\ Len(t.codes) = Len(s.codes) + ((IF last THEN 0 ELSE 1) + (IF lv >= 2 THEN 1 ELSE 0))
                 /\ ~last => t.codes[Len(s.codes) + 1] =
                               [at |-> s.bits, b |-> c.blk, x |-> Gap(e, j + 1)]
                 /\ lv >= 2 => t.codes[Len(t.codes)] =
                                 [at |-> s.bits + (IF last THEN 0 ELSE BblockLength(Gap(e, j + 1), c.blk)),
                                  b |-> 0, x |-> e.counts[j + 1]]
    BY Zenon DEF Rested
  <1> HIDE DEF t
  <1>1. PICK n : n = j + 1
    OBVIOUS
  <1>2. n \in 1 .. Len(e.docs) /\ j + 1 = n /\ n - 1 = j
    BY <1>1, EntryFacts
  <1>3. Coding(Gap(e, n), c.blk) /\ c.blk # 0
    <2>1. Gap(e, n) \in Nat \ {0} /\ c.blk \in Operand
      BY <1>2, GapFacts, ParamFacts
    <2> QED
      BY <2>1, OperandType DEF Coding
  <1>4. Coding(e.counts[n], 0)
    <2>1. e.counts[n] \in 1 .. (Shl(MaxLog) - 1) /\ Shl(MaxLog) \in Nat
      BY <1>2, EntryFacts, GapFacts
    <2> QED
      BY <2>1 DEF Coding
  <1>5. ii[j + 1].doc_num = D(e, n) /\ ii[j + 1].count = e.counts[n] /\ Len(ii) = Len(e.docs)
    BY <1>1, <1>2, GapFacts DEF Right
  <1>6. ii[j + 1].doc_num - s.doc_num = Gap(e, n)
    BY <1>2, <1>5 DEF Gap
  <1>7. D(e, n) \in Nat
    BY <1>2, GapFacts
  <1>8. PICK gap : gap = IF last THEN 0 ELSE CodeLength(Gap(e, n), c.blk)
    OBVIOUS
  <1>9. PICK s2 : s2 = IF last THEN s ELSE Put(s, Gap(e, n), c.blk)
    OBVIOUS
  <1>10. /\ s2 \in Writing /\ InOrder(s2) /\ SameElse(s, s2) /\ Further(s, s2)
         /\ s2.bits = s.bits + gap /\ gap \in Nat
         /\ Len(s2.codes) = Len(s.codes) + (IF last THEN 0 ELSE 1)
         /\ ~last => s2.codes[Len(s.codes) + 1] = [at |-> s.bits, b |-> c.blk, x |-> Gap(e, n)]
    <2>1. CASE last
      <3>1. Len(s.codes) \in Nat /\ s.bits \in Nat
        BY LenProperties DEF Writing
      <3> QED
        BY <1>8, <1>9, <2>1, <3>1 DEF SameElse, Further
    <2>2. CASE ~last
      <3>1. s2 = Put(s, Gap(e, n), c.blk) /\ gap = CodeLength(Gap(e, n), c.blk)
        BY <1>8, <1>9, <2>2
      <3> QED
        BY <1>3, <2>2, <3>1, PutIs, CodingLength
    <2> QED
      BY <2>1, <2>2
  <1>11. PICK s3 : s3 = [s2 EXCEPT !.doc_num = D(e, n)]
    OBVIOUS
  <1>12. /\ s3 \in Writing /\ InOrder(s3) /\ s3.codes = s2.codes /\ s3.bits = s2.bits
         /\ s3.doc_num = D(e, n)
         /\ s3.bits_so_far = s.bits_so_far /\ s3.last_major = s.last_major
    <2>1. /\ s3 \in Writing /\ s3.codes = s2.codes /\ s3.bits = s2.bits
          /\ s3.doc_num = D(e, n)
          /\ s3.bits_so_far = s2.bits_so_far /\ s3.last_major = s2.last_major
      BY <1>7, <1>10, <1>11 DEF Writing
    <2> QED
      BY <1>10, <2>1, Zenon DEF InOrder, SameElse
  <1>13. t = IF lv >= 2 THEN Put(s3, e.counts[n], 0) ELSE s3
    <2>1. LeftOut(j, Len(ii), c.k) <=> last
      BY <1>5, last = LastOfBlock(j, Len(e.docs), c.k), Zenon DEF LeftOut
    <2> QED
      BY <1>5, <1>6, <1>9, <1>11, <2>1, Zenon DEF Rest, t
  <1>14. gap = IF last THEN 0 ELSE BblockLength(Gap(e, n), c.blk)
    BY <1>3, <1>8, CodingLength
  <1>15. Further(s, s3) /\ Len(s2.codes) \in Nat /\ Len(s.codes) \in Nat /\ s.bits \in Nat
    BY <1>10, <1>12, LenProperties DEF Further, Writing
  <1>16. CASE lv >= 2
    <2>1. t = Put(s3, e.counts[n], 0)
      BY <1>13, <1>16
    <2>2. /\ t \in Writing /\ InOrder(t) /\ SameElse(s3, t) /\ Further(s3, t)
          /\ t.bits = s3.bits + CodeLength(e.counts[n], 0)
          /\ Len(t.codes) = Len(s3.codes) + 1
          /\ t.codes[Len(s3.codes) + 1] = [at |-> s3.bits, b |-> 0, x |-> e.counts[n]]
      <3>1. s3 \in Writing /\ InOrder(s3)
        BY <1>12
      <3> QED
        BY ONLY <1>4, <2>1, <3>1, PutIs
    <2>3. CodeLength(e.counts[n], 0) = Tf(e, lv, n) /\ Tf(e, lv, n) \in Nat
      BY <1>4, <1>16, CodingLength, Zenon DEF Tf
    <2>4. Further(s, t)
      BY <1>12, <1>15, <2>2, FurtherTwice
    <2>5. ~last => t.codes[Len(s.codes) + 1] = [at |-> s.bits, b |-> c.blk, x |-> Gap(e, n)]
      <3> SUFFICES ASSUME ~last PROVE t.codes[Len(s.codes) + 1] = s2.codes[Len(s.codes) + 1]
        BY <1>10
      <3>1. Len(s.codes) + 1 \in 1 .. Len(s3.codes)
        BY <1>10, <1>12, <1>15
      <3> QED
        BY <1>12, <2>2, <3>1 DEF Further
    <2>6. t.bits = s.bits + (gap + Tf(e, lv, n))
      BY <1>10, <1>12, <1>15, <2>2, <2>3
    <2>7. Len(t.codes) = Len(s.codes) + ((IF last THEN 0 ELSE 1) + (IF lv >= 2 THEN 1 ELSE 0))
      <3>1. PICK m : m = IF last THEN 0 ELSE 1
        OBVIOUS
      <3>2. m \in Nat /\ Len(s2.codes) = Len(s.codes) + m
        BY <1>10, <3>1
      <3>3. PICK u : u = IF lv >= 2 THEN 1 ELSE 0
        OBVIOUS
      <3>4. u = 1
        BY <1>16, <3>3
      <3>5. Len(t.codes) = Len(s.codes) + (m + u)
        <4>1. /\ Len(s.codes) \in Nat
              /\ Len(t.codes) = Len(s2.codes) + 1
          BY <1>12, <1>15, <2>2
        <4>2. PICK a, d, z : a = Len(s.codes) /\ d = Len(s2.codes) /\ z = Len(t.codes)
          OBVIOUS
        <4>3. a \in Nat /\ m \in Nat /\ d = a + m /\ z = d + 1
          BY ONLY <3>2, <4>1, <4>2, Zenon
        <4>4. z = a + (m + 1)
          BY ONLY <4>3
        <4> QED
          BY ONLY <3>4, <4>2, <4>4, Zenon
      <3> QED
        BY ONLY <3>1, <3>3, <3>5, Zenon
    <2>8. t.codes[Len(t.codes)] = [at |-> s.bits + gap, b |-> 0, x |-> e.counts[n]]
      BY <1>10, <1>12, <2>2
    <2> QED
      BY <1>1, <1>12, <1>14, <1>16, <2>2, <2>4, <2>5, <2>6, <2>7, <2>8 DEF SameElse
  <1>17. CASE ~(lv >= 2)
    <2>1. t = s3
      BY <1>13, <1>17
    <2>2. Tf(e, lv, n) = 0
      BY <1>17 DEF Tf
    <2>3. t.bits = s.bits + (gap + Tf(e, lv, n))
      BY <1>10, <1>12, <1>15, <2>1, <2>2
    <2>4. Len(t.codes) = Len(s.codes) + ((IF last THEN 0 ELSE 1) + (IF lv >= 2 THEN 1 ELSE 0))
      <3>1. PICK m : m = IF last THEN 0 ELSE 1
        OBVIOUS
      <3>2. m \in Nat /\ Len(s2.codes) = Len(s.codes) + m
        BY <1>10, <3>1
      <3>3. PICK u : u = IF lv >= 2 THEN 1 ELSE 0
        OBVIOUS
      <3>4. u = 0
        BY <1>17, <3>3
      <3>5. Len(t.codes) = Len(s.codes) + (m + u)
        <4>1. /\ Len(s.codes) \in Nat
              /\ Len(t.codes) = Len(s2.codes)
          BY <1>12, <1>15, <2>1
        <4> QED
          BY ONLY <3>2, <3>4, <4>1
      <3> QED
        BY ONLY <3>1, <3>3, <3>5, Zenon
    <2> QED
      BY <1>1, <1>10, <1>12, <1>14, <1>15, <1>17, <2>1, <2>2, <2>3, <2>4
  <1> QED
    BY <1>16, <1>17

\* The header of a block.
HeaderPut(s, x1, b1, x2, b2, major, start) ==
  [Put(Put(s, x1, b1), x2, b2) EXCEPT !.last_major = major, !.bits_so_far = start]

\* What a header adds to the codes.
LEMMA HeaderIs ==
  ASSUME NEW s \in Writing, InOrder(s),
         NEW x1, NEW b1, Coding(x1, b1), b1 # 0, NEW x2, NEW b2, Coding(x2, b2), b2 # 0,
         NEW major \in Nat, NEW start \in Nat,
         NEW t, t = HeaderPut(s, x1, b1, x2, b2, major, start)
  PROVE  /\ t \in Writing /\ InOrder(t) /\ Further(s, t) /\ t.doc_num = s.doc_num
         /\ t.last_major = major /\ t.bits_so_far = start
         /\ t.bits = s.bits + BblockLength(x1, b1) + BblockLength(x2, b2)
         /\ Len(t.codes) = Len(s.codes) + 2
         /\ t.codes[Len(s.codes) + 1] = [at |-> s.bits, b |-> b1, x |-> x1]
         /\ t.codes[Len(s.codes) + 2] =
              [at |-> s.bits + BblockLength(x1, b1), b |-> b2, x |-> x2]
  <1>1. PICK s1 : s1 = Put(s, x1, b1)
    OBVIOUS
  <1>2. /\ s1 \in Writing /\ InOrder(s1) /\ SameElse(s, s1) /\ Further(s, s1)
        /\ s1.bits = s.bits + BblockLength(x1, b1)
        /\ Len(s1.codes) = Len(s.codes) + 1
        /\ s1.codes[Len(s.codes) + 1] = [at |-> s.bits, b |-> b1, x |-> x1]
    BY <1>1, PutIs, CodingLength
  <1>3. PICK s2 : s2 = Put(s1, x2, b2)
    OBVIOUS
  <1>4. /\ s2 \in Writing /\ InOrder(s2) /\ SameElse(s1, s2) /\ Further(s1, s2)
        /\ s2.bits = s1.bits + BblockLength(x2, b2)
        /\ Len(s2.codes) = Len(s1.codes) + 1
        /\ s2.codes[Len(s1.codes) + 1] = [at |-> s1.bits, b |-> b2, x |-> x2]
    <2>1. s1 \in Writing /\ InOrder(s1)
      BY <1>2
    <2>2. /\ s2 \in Writing /\ InOrder(s2) /\ SameElse(s1, s2) /\ Further(s1, s2)
          /\ s2.bits = s1.bits + CodeLength(x2, b2)
          /\ Len(s2.codes) = Len(s1.codes) + 1
          /\ s2.codes[Len(s1.codes) + 1] = [at |-> s1.bits, b |-> b2, x |-> x2]
      BY ONLY <1>3, <2>1, Coding(x2, b2), PutIs
    <2>3. CodeLength(x2, b2) = BblockLength(x2, b2)
      BY CodingLength
    <2> QED
      BY ONLY <2>2, <2>3, Zenon
  <1>5. Further(s, s2)
    BY <1>2, <1>4, FurtherTwice
  <1>6. t = [s2 EXCEPT !.last_major = major, !.bits_so_far = start]
    BY <1>1, <1>3, Zenon DEF HeaderPut
  <1>7. /\ t \in Writing /\ t.codes = s2.codes /\ t.bits = s2.bits /\ t.doc_num = s2.doc_num
        /\ t.last_major = major /\ t.bits_so_far = start
    BY <1>4, <1>6 DEF Writing
  <1>8. InOrder(t) /\ Further(s, t)
    BY <1>4, <1>5, <1>7, Zenon DEF InOrder, Further
  <1>9. Len(s.codes) \in Nat
    BY LenProperties DEF Writing
  <1>10. s2.codes[Len(s.codes) + 1] = s1.codes[Len(s.codes) + 1]
    <2>1. Len(s.codes) + 1 \in 1 .. Len(s1.codes)
      BY <1>2, <1>9
    <2> QED
      BY <1>4, <2>1 DEF Further
  <1>11. s2.codes[Len(s.codes) + 2] =
           [at |-> s.bits + BblockLength(x1, b1), b |-> b2, x |-> x2]
         /\ Len(s2.codes) = Len(s.codes) + 2
    <2>1. Len(s1.codes) + 1 = Len(s.codes) + 2
      BY <1>2, <1>9
    <2> QED
      BY <1>2, <1>4, <2>1
  <1>12. t.doc_num = s.doc_num
    BY <1>2, <1>4, <1>7 DEF SameElse
  <1>13. t.bits = s.bits + BblockLength(x1, b1) + BblockLength(x2, b2)
    BY <1>2, <1>4, <1>7
  <1> QED
    BY <1>2, <1>7, <1>8, <1>10, <1>11, <1>12, <1>13

----------------------------------------------------------------------------
(* A round of the writer.                                                  *)

\* Where posting j of an entry begins, when its block has a header: the state
\* behind it.
Body(g, ii, e, c, j) ==
  IF HeaderAt(j, Len(e.docs), c.k) THEN PutHeader(g[j], ii, j, c) ELSE g[j]

\* The state before posting j, from 0: at the start of a block, or in one with a
\* header, what mg_invf_rebuild remembers of it.
Standing(g, ii, e, lv, c, j) ==
  LET s  == g[j]
      j0 == j - (j % c.k)
  IN /\ s \in Writing /\ InOrder(s) /\ s.doc_num = D(e, j)
     /\ c.k > 0 /\ j % c.k = 0 /\ j < Len(e.docs) =>
          /\ s.last_major = D(e, j) /\ s.bits_so_far = ii[j + 1].bits_so_far
          /\ j >= c.k =>
               s.bits + ii[j - c.k + 1].bits_so_far =
                 Body(g, ii, e, c, j - c.k).bits + (ii[j].bits_so_far + ii[j].count_bits)
     /\ c.k > 0 /\ j % c.k # 0 /\ j0 + c.k < Len(e.docs) =>
          /\ s.last_major = D(e, j0 + c.k)
          /\ s.bits_so_far = ii[j0 + c.k + 1].bits_so_far
          /\ Body(g, ii, e, c, j0).bits \in Nat
          /\ s.bits + ii[j0 + 1].bits_so_far =
               Body(g, ii, e, c, j0).bits + ii[j + 1].bits_so_far

\* Later postings have more bits before them.
LEMMA BitsGrow ==
  ASSUME NEW e \in Entries, NEW h \in Headers, NEW lv \in {1, 2, 3}, NEW c, c = ParamsOf(e, h, lv),
         NEW ii, Right(ii, e, lv, c), c.k > 0,
         NEW m \in 1 .. Len(e.docs), NEW n \in 1 .. Len(e.docs), m <= n
  PROVE  ii[m].bits_so_far <= ii[n].bits_so_far
  <1> DEFINE G == {d \in Nat : m + d <= Len(e.docs) => ii[m].bits_so_far <= ii[m + d].bits_so_far}
  <1>1. Len(e.docs) \in Nat
    BY EntryFacts
  <1>2. \A j \in 1 .. Len(e.docs) : ii[j].bits_so_far \in Nat
    BY DEF Right
  <1>3. 0 \in G
    BY <1>2
  <1>4. ASSUME NEW d \in Nat, d \in G PROVE d + 1 \in G
    <2> SUFFICES ASSUME m + (d + 1) <= Len(e.docs) PROVE ii[m].bits_so_far <= ii[m + (d + 1)].bits_so_far
      OBVIOUS
    <2>1. PICK j : j = m + d
      OBVIOUS
    <2>2. j \in 1 .. (Len(e.docs) - 1) /\ m + (d + 1) = j + 1 /\ j \in 1 .. Len(e.docs)
          /\ j + 1 \in 1 .. Len(e.docs)
      BY <1>1, <2>1
    <2>3. ii[j + 1].bits_so_far = ii[j].bits_so_far + (BblockLength(Gap(e, j), c.blk) + Tf(e, lv, j))
      BY <2>2 DEF Right
    <2>4. BblockLength(Gap(e, j), c.blk) \in Nat
      <3>1. Gap(e, j) \in Nat \ {0} /\ c.blk \in Operand
        BY <2>2, GapFacts, ParamFacts
      <3> QED
        BY <3>1, LengthPositive
    <2>5. Tf(e, lv, j) \in Nat
      <3>1. GammaLength(e.counts[j]) \in Nat
        BY <2>2, EntryFacts, GammaPositive
      <3> QED
        BY <3>1 DEF Tf
    <2>6. ii[m].bits_so_far <= ii[j].bits_so_far
      BY <1>1, <1>4, <2>1, <2>2
    <2>7. ii[m].bits_so_far \in Nat /\ ii[j].bits_so_far \in Nat
      BY <1>2, <2>2
    <2> QED
      BY <2>2, <2>3, <2>4, <2>5, <2>6, <2>7, SMTT(60)
  <1>5. Nat \subseteq G
    <2> HIDE DEF G
    <2> QED
      BY <1>3, <1>4, NatInductionOnSet
  <1>6. n - m \in G /\ m + (n - m) = n /\ n <= Len(e.docs)
    BY <1>1, <1>5
  <1> QED
    BY <1>6

\* What a header of the block that begins at posting j says: the distance to
\* the document of its last posting and, from ii, the bits to its end.
HeaderGap(e, c, j) == D(e, j + c.k) - D(e, j)
HeaderBits(ii, c, j) ==
  ii[j + c.k].bits_so_far + ii[j + c.k].count_bits - ii[j + 1].bits_so_far

\* The counts that an entry stores.
LEMMA TfFacts ==
  ASSUME NEW e \in Entries, NEW lv \in {1, 2, 3}, NEW j \in 1 .. Len(e.docs)
  PROVE  Tf(e, lv, j) \in Nat /\ (lv >= 2 => Tf(e, lv, j) > 0)
  <1>1. GammaLength(e.counts[j]) \in Nat \ {0}
    BY EntryFacts, GammaPositive
  <1> QED
    BY <1>1 DEF Tf

\* Both numbers of a header can be coded.
LEMMA HeaderNumbers ==
  ASSUME NEW e \in Entries, NEW h \in Headers, NEW lv \in {2, 3}, NEW c, c = ParamsOf(e, h, lv),
         NEW ii, Right(ii, e, lv, c),
         NEW j \in Nat, HeaderAt(j, Len(e.docs), c.k)
  PROVE  /\ c.k \in Nat \ {0} /\ j + c.k \in 1 .. (Len(e.docs) - 1) /\ j \in 0 .. (Len(e.docs) - 1)
         /\ Coding(HeaderGap(e, c, j), c.dn_blk) /\ c.dn_blk # 0
         /\ Coding(HeaderBits(ii, c, j), c.len_blk) /\ c.len_blk # 0
         /\ ii[j + c.k].doc_num = D(e, j + c.k) /\ D(e, j + c.k) \in Nat
         /\ ii[j + 1].bits_so_far \in Nat /\ ii[j + c.k].bits_so_far \in Nat
         /\ ii[j + c.k].count_bits \in Nat /\ ii[j + c.k + 1].bits_so_far \in Nat
         /\ HeaderBits(ii, c, j) \in Nat \ {0}
  <1>1. c.k \in Nat /\ Len(e.docs) \in Nat \ {0} /\ lv \in {1, 2, 3}
    BY EntryFacts, ParamFacts
  <1>2. c.k > 0 /\ j + c.k < Len(e.docs)
    BY DEF HeaderAt
  <1>3. PICK n : n = j + c.k
    OBVIOUS
  <1>4. /\ n \in 1 .. (Len(e.docs) - 1) /\ j + 1 \in 1 .. Len(e.docs) /\ n + 1 \in 1 .. Len(e.docs)
        /\ j + 1 <= n /\ n \in 1 .. Len(e.docs) /\ j \in 0 .. (Len(e.docs) - 1) /\ c.k \in Nat \ {0}
        /\ j \in 0 .. Len(e.docs) /\ n \in 0 .. Len(e.docs) /\ j < n /\ c.k < Len(e.docs)
    BY <1>1, <1>2, <1>3
  <1>5. c.dn_blk \in Operand /\ c.len_blk \in Operand
    <2>1. 0 < c.k /\ c.k < Len(e.docs)
      BY <1>4
    <2> QED
      BY <1>1, <2>1, ParamFacts
  <1>6. D(e, n) - D(e, j) \in Nat \ {0} /\ D(e, n) \in Nat /\ ii[n].doc_num = D(e, n)
    <2>1. D(e, j) < D(e, n) /\ D(e, j) \in 0 .. num_of_docs /\ D(e, n) \in 0 .. num_of_docs
          /\ num_of_docs \in Nat /\ D(e, n) = e.docs[n]
      BY <1>4, GapFacts
    <2>2. ii[n].doc_num = e.docs[n]
      BY <1>4 DEF Right
    <2> QED
      BY <2>1, <2>2
  <1>7. /\ ii[j + 1].bits_so_far \in Nat /\ ii[n].bits_so_far \in Nat
        /\ ii[n + 1].bits_so_far \in Nat /\ ii[n].count_bits = Tf(e, lv, n)
    BY <1>2, <1>4 DEF Right
  <1>8. Tf(e, lv, n) \in Nat /\ Tf(e, lv, n) > 0
    BY <1>1, <1>4, TfFacts, SMTT(60)
  <1>9. ii[j + 1].bits_so_far <= ii[n].bits_so_far
    BY <1>1, <1>2, <1>4, BitsGrow
  <1>10. ii[n].bits_so_far + ii[n].count_bits - ii[j + 1].bits_so_far \in Nat \ {0}
    BY <1>7, <1>8, <1>9
  <1> QED
    BY <1>3, <1>4, <1>5, <1>6, <1>7, <1>8, <1>10, OperandType DEF Coding, HeaderGap, HeaderBits

\* Posting j is the m-th, from 0, of the block of k that begins at z.
InBlock(k, j, m, z) ==
  /\ m \in 0 .. (k - 1) /\ z \in Nat /\ z + m = j /\ z % k = 0 /\ z <= j /\ j < z + k
  /\ m = k - 1 => (j + 1) % k = 0 /\ (j + 1) - k = z /\ j + 1 = z + k
  /\ m # k - 1 => (j + 1) % k = m + 1 /\ (j + 1) - (m + 1) = z

\* The block of a posting and its place there.
LEMMA BlockIs ==
  ASSUME NEW k \in Nat \ {0}, NEW j \in Nat
  PROVE  InBlock(k, j, j % k, j - (j % k))
  <1>0. PICK m, z : m = j % k /\ z = j - (j % k)
    OBVIOUS
  <1>1. /\ j % k \in 0 .. (k - 1) /\ j % k <= j
        /\ (j + 1) % k = IF j % k = k - 1 THEN 0 ELSE (j % k) + 1
        /\ (j - (j % k)) % k = 0 /\ j - (j % k) \in Nat
    BY ModFacts
  <1>2. /\ m \in 0 .. (k - 1) /\ m <= j /\ z % k = 0 /\ z \in Nat
        /\ (j + 1) % k = IF m = k - 1 THEN 0 ELSE m + 1
        /\ z = j - m
    BY <1>0, <1>1
  <1>3. z + m = j /\ z <= j /\ j < z + k
    BY <1>2
  <1>4. m = k - 1 => (j + 1) - k = z /\ j + 1 = z + k
    BY <1>2
  <1>5. m # k - 1 => (j + 1) - (m + 1) = z
    BY <1>2
  <1>6. InBlock(k, j, m, z)
    BY <1>2, <1>3, <1>4, <1>5 DEF InBlock
  <1> QED
    BY <1>0, <1>6, Zenon

\* t is the state before the gap of posting j, behind the header if there is one.
HeadedBy(s, t, g, ii, e, c, j, j0) ==
  /\ t \in Writing /\ InOrder(t) /\ Further(s, t) /\ t.doc_num = D(e, j)
  /\ HeaderAt(j, Len(e.docs), c.k) =>
       /\ Len(t.codes) = Len(s.codes) + 2
       /\ t.codes[Len(s.codes) + 1] =
            [at |-> s.bits, b |-> c.dn_blk, x |-> HeaderGap(e, c, j)]
       /\ t.codes[Len(s.codes) + 2] =
            [at |-> s.bits + BblockLength(HeaderGap(e, c, j), c.dn_blk),
             b |-> c.len_blk, x |-> HeaderBits(ii, c, j)]
       /\ t.bits = s.bits + BblockLength(HeaderGap(e, c, j), c.dn_blk)
                   + BblockLength(HeaderBits(ii, c, j), c.len_blk)
       /\ HeaderBits(ii, c, j) \in Nat \ {0}
  /\ ~HeaderAt(j, Len(e.docs), c.k) => t = s
  /\ c.k > 0 /\ j0 + c.k < Len(e.docs) =>
       /\ t.last_major = D(e, j0 + c.k)
       /\ t.bits_so_far = ii[j0 + c.k + 1].bits_so_far
       /\ Body(g, ii, e, c, j0).bits \in Nat
       /\ t.bits + ii[j0 + 1].bits_so_far =
            Body(g, ii, e, c, j0).bits + ii[j + 1].bits_so_far

\* Behind the header that a posting may have before it.
LEMMA BodyIs ==
  ASSUME NEW e \in Entries, NEW h \in Headers, NEW lv \in {1, 2, 3}, NEW c, c = ParamsOf(e, h, lv),
         lv >= 2 \/ c.k = 0,
         NEW ii, Right(ii, e, lv, c), NEW j \in 0 .. (Len(e.docs) - 1),
         NEW g, Standing(g, ii, e, lv, c, j),
         NEW j0, j0 = j - (j % c.k)
  PROVE  HeadedBy(g[j], Body(g, ii, e, c, j), g, ii, e, c, j, j0)
  <1> DEFINE t == Body(g, ii, e, c, j)
  <1>0. SUFFICES /\ t \in Writing /\ InOrder(t) /\ Further(g[j], t) /\ t.doc_num = D(e, j)
                 /\ HeaderAt(j, Len(e.docs), c.k) =>
                      /\ Len(t.codes) = Len(g[j].codes) + 2
                      /\ t.codes[Len(g[j].codes) + 1] =
                           [at |-> g[j].bits, b |-> c.dn_blk, x |-> HeaderGap(e, c, j)]
                      /\ t.codes[Len(g[j].codes) + 2] =
                           [at |-> g[j].bits + BblockLength(HeaderGap(e, c, j), c.dn_blk),
                            b |-> c.len_blk, x |-> HeaderBits(ii, c, j)]
                      /\ t.bits = g[j].bits + BblockLength(HeaderGap(e, c, j), c.dn_blk)
                                  + BblockLength(HeaderBits(ii, c, j), c.len_blk)
                      /\ HeaderBits(ii, c, j) \in Nat \ {0}
                 /\ ~HeaderAt(j, Len(e.docs), c.k) => t = g[j]
                 /\ c.k > 0 /\ j0 + c.k < Len(e.docs) =>
                      /\ t.last_major = D(e, j0 + c.k)
                      /\ t.bits_so_far = ii[j0 + c.k + 1].bits_so_far
                      /\ Body(g, ii, e, c, j0).bits \in Nat
                      /\ t.bits + ii[j0 + 1].bits_so_far =
                           Body(g, ii, e, c, j0).bits + ii[j + 1].bits_so_far
    BY Zenon DEF HeadedBy
  <1> HIDE DEF t
  <1>1. c.k \in Nat /\ Len(e.docs) \in Nat \ {0} /\ j \in Nat
    BY EntryFacts, ParamFacts
  <1>2. g[j] \in Writing /\ InOrder(g[j]) /\ g[j].doc_num = D(e, j)
    BY Zenon DEF Standing
  <1>3. Len(g[j].codes) \in Nat /\ g[j].bits \in Nat
    BY <1>2, LenProperties DEF Writing
  <1>4. CASE HeaderAt(j, Len(e.docs), c.k)
    <2>1. c.k > 0 /\ j % c.k = 0 /\ j + c.k < Len(e.docs) /\ lv \in {2, 3} /\ j < Len(e.docs)
      <3>1. c.k > 0 /\ j % c.k = 0 /\ j + c.k < Len(e.docs)
        BY <1>4, Zenon DEF HeaderAt
      <3>2. j < Len(e.docs)
        BY <1>1
      <3>3. lv >= 2
        BY <1>1, <3>1
      <3>4. lv \in {2, 3}
        BY <3>3
      <3> QED
        BY <3>1, <3>2, <3>4, Zenon
    <2>2. g[j].last_major = D(e, j) /\ g[j].bits_so_far = ii[j + 1].bits_so_far
      BY <2>1, Zenon DEF Standing
    <2>3. t = PutHeader(g[j], ii, j, c)
      BY <1>4, Zenon DEF Body, t
    <2>4. /\ Coding(HeaderGap(e, c, j), c.dn_blk) /\ c.dn_blk # 0
          /\ Coding(HeaderBits(ii, c, j), c.len_blk) /\ c.len_blk # 0
          /\ ii[j + c.k].doc_num = D(e, j + c.k) /\ D(e, j + c.k) \in Nat
          /\ ii[j + c.k + 1].bits_so_far \in Nat /\ ii[j + 1].bits_so_far \in Nat
      BY ONLY <1>1, <1>4, <2>1, e \in Entries, h \in Headers, c = ParamsOf(e, h, lv), Right(ii, e, lv, c), HeaderNumbers, SMTT(60)
    <2>5. /\ HeaderGap(e, c, j) = ii[j + c.k].doc_num - g[j].last_major
          /\ HeaderBits(ii, c, j) =
               ii[j + c.k].bits_so_far + ii[j + c.k].count_bits - g[j].bits_so_far
      BY <2>2, <2>4, Zenon DEF HeaderGap, HeaderBits
    <2>6. PICK x1, x2 : x1 = HeaderGap(e, c, j) /\ x2 = HeaderBits(ii, c, j)
      OBVIOUS
    <2>7. /\ t \in Writing /\ InOrder(t) /\ Further(g[j], t) /\ t.doc_num = g[j].doc_num
          /\ t.last_major = ii[j + c.k].doc_num /\ t.bits_so_far = ii[j + c.k + 1].bits_so_far
          /\ t.bits = g[j].bits + BblockLength(x1, c.dn_blk) + BblockLength(x2, c.len_blk)
          /\ Len(t.codes) = Len(g[j].codes) + 2
          /\ t.codes[Len(g[j].codes) + 1] = [at |-> g[j].bits, b |-> c.dn_blk, x |-> x1]
          /\ t.codes[Len(g[j].codes) + 2] =
               [at |-> g[j].bits + BblockLength(x1, c.dn_blk), b |-> c.len_blk, x |-> x2]
      <3>1. /\ x1 = ii[j + c.k].doc_num - g[j].last_major /\ Coding(x1, c.dn_blk)
            /\ x2 = ii[j + c.k].bits_so_far + ii[j + c.k].count_bits - g[j].bits_so_far
            /\ Coding(x2, c.len_blk) /\ ii[j + c.k].doc_num \in Nat
        BY <2>4, <2>5, <2>6, Zenon
      <3> QED
        <4>1. PICK s, major, start : s = g[j] /\ major = ii[j + c.k].doc_num
                                     /\ start = ii[j + c.k + 1].bits_so_far
          OBVIOUS
        <4>2. s \in Writing /\ InOrder(s) /\ t = PutHeader(s, ii, j, c)
              /\ major \in Nat /\ start \in Nat
          BY <1>2, <2>3, <2>4, <3>1, <4>1, Zenon
        <4>3. /\ x1 = major - s.last_major
              /\ x2 = ii[j + c.k].bits_so_far + ii[j + c.k].count_bits - s.bits_so_far
          BY ONLY <3>1, <4>1, Zenon
        <4>4. t = HeaderPut(s, x1, c.dn_blk, x2, c.len_blk, major, start)
          <5>1. SameElse(s, Put(s, x1, c.dn_blk))
            BY ONLY <2>4, <3>1, <4>2, PutIs
          <5>2. Put(s, x1, c.dn_blk).bits_so_far = s.bits_so_far
            BY ONLY <5>1, Zenon DEF SameElse
          <5> QED
            BY ONLY <4>1, <4>2, <4>3, <5>2, Zenon DEF PutHeader, BlockStart, HeaderPut
        <4>5. /\ t \in Writing /\ InOrder(t) /\ Further(s, t) /\ t.doc_num = s.doc_num
              /\ t.last_major = major /\ t.bits_so_far = start
              /\ t.bits = s.bits + BblockLength(x1, c.dn_blk) + BblockLength(x2, c.len_blk)
              /\ Len(t.codes) = Len(s.codes) + 2
              /\ t.codes[Len(s.codes) + 1] = [at |-> s.bits, b |-> c.dn_blk, x |-> x1]
              /\ t.codes[Len(s.codes) + 2] =
                   [at |-> s.bits + BblockLength(x1, c.dn_blk), b |-> c.len_blk, x |-> x2]
          <5>1. /\ Coding(x1, c.dn_blk) /\ c.dn_blk # 0 /\ Coding(x2, c.len_blk) /\ c.len_blk # 0
                /\ s \in Writing /\ InOrder(s) /\ major \in Nat /\ start \in Nat
            BY <2>4, <3>1, <4>2, Zenon
          <5> QED
            BY ONLY <4>4, <5>1, HeaderIs
        <4> QED
          BY ONLY <4>1, <4>5, Zenon
    <2>8. j0 = j
      BY <1>1, <2>1
    <2>9. t.bits \in Nat
      BY <2>7 DEF Writing
    <2>11. Body(g, ii, e, c, j0).bits \in Nat
      BY <2>8, <2>9 DEF t
    <2>10. t.bits + ii[j0 + 1].bits_so_far = Body(g, ii, e, c, j0).bits + ii[j + 1].bits_so_far
      BY <2>8 DEF t
    <2>12. HeaderBits(ii, c, j) \in Nat \ {0}
      BY <2>4, Zenon DEF Coding
    <2> QED
      BY <1>2, <1>4, <2>4, <2>6, <2>7, <2>8, <2>10, <2>11, <2>12
  <1>5. CASE ~HeaderAt(j, Len(e.docs), c.k)
    <2>1. t = g[j]
      BY <1>5, Zenon DEF Body, t
    <2>2. Further(g[j], t)
      BY <1>3, <2>1 DEF Further
    <2>3. ASSUME c.k > 0, j0 + c.k < Len(e.docs)
          PROVE  /\ t.last_major = D(e, j0 + c.k)
                 /\ t.bits_so_far = ii[j0 + c.k + 1].bits_so_far
                 /\ Body(g, ii, e, c, j0).bits \in Nat
                 /\ t.bits + ii[j0 + 1].bits_so_far =
                      Body(g, ii, e, c, j0).bits + ii[j + 1].bits_so_far
      <3>1. j % c.k # 0
        <4> SUFFICES ASSUME j % c.k = 0 PROVE FALSE
          OBVIOUS
        <4>1. j0 = j
          BY <1>1
        <4> QED
          BY <1>5, <2>3, <4>1 DEF HeaderAt
      <3> QED
        BY <2>1, <2>3, <3>1, Zenon DEF Standing
    <2> QED
      BY <1>2, <1>5, <2>1, <2>2, <2>3
  <1> QED
    BY <1>4, <1>5

\* What a round of the writer adds for posting j.
Round(g, ii, e, lv, c, j) ==
  LET t    == Body(g, ii, e, c, j)
      n    == Len(g[j].codes)
      u    == g[j + 1]
      last == LastOfBlock(j, Len(e.docs), c.k)
  IN /\ Further(g[j], u) /\ t.bits \in Nat /\ Len(t.codes) \in Nat
     /\ HeaderAt(j, Len(e.docs), c.k) =>
          /\ Len(t.codes) = n + 2
          /\ u.codes[n + 1] = [at |-> g[j].bits, b |-> c.dn_blk, x |-> HeaderGap(e, c, j)]
          /\ u.codes[n + 2] = [at |-> g[j].bits + BblockLength(HeaderGap(e, c, j), c.dn_blk),
                               b |-> c.len_blk, x |-> HeaderBits(ii, c, j)]
          /\ t.bits = g[j].bits + BblockLength(HeaderGap(e, c, j), c.dn_blk)
                      + BblockLength(HeaderBits(ii, c, j), c.len_blk)
          /\ HeaderBits(ii, c, j) \in Nat \ {0}
     /\ ~HeaderAt(j, Len(e.docs), c.k) => t = g[j]
     /\ u.bits = t.bits + ((IF last THEN 0 ELSE BblockLength(Gap(e, j + 1), c.blk))
                           + Tf(e, lv, j + 1))
     /\ Len(u.codes) = Len(t.codes) + ((IF last THEN 0 ELSE 1) + (IF lv >= 2 THEN 1 ELSE 0))
     /\ ~last => u.codes[Len(t.codes) + 1] =
                   [at |-> t.bits, b |-> c.blk, x |-> Gap(e, j + 1)]
     /\ lv >= 2 => u.codes[Len(u.codes)] =
                     [at |-> t.bits + (IF last THEN 0 ELSE BblockLength(Gap(e, j + 1), c.blk)),
                      b |-> 0, x |-> e.counts[j + 1]]

\* A round of the writer keeps Standing.
LEMMA RoundIs ==
  ASSUME NEW e \in Entries, NEW h \in Headers, NEW lv \in {1, 2, 3}, NEW c, c = ParamsOf(e, h, lv),
         lv >= 2 \/ c.k = 0,
         NEW ii, Right(ii, e, lv, c), NEW j \in 0 .. (Len(e.docs) - 1),
         NEW g, Standing(g, ii, e, lv, c, j), g[j + 1] = WriteStep(g[j], ii, j, lv, c)
  PROVE  Standing(g, ii, e, lv, c, j + 1) /\ Round(g, ii, e, lv, c, j)
  <1> DEFINE P == Len(e.docs)
  <1>1. c.k \in Nat /\ P \in Nat \ {0} /\ j \in Nat /\ j + 1 \in 1 .. P /\ Len(ii) = P
    BY EntryFacts, ParamFacts DEF Right
  <1>2. PICK t, last, j0 : /\ t = Body(g, ii, e, c, j) /\ last = LastOfBlock(j, P, c.k)
                           /\ j0 = j - (j % c.k)
    OBVIOUS
  <1>3. PICK u : u = g[j + 1]
    OBVIOUS
  <1>4. u = Rest(t, ii, j, lv, c)
    BY <1>1, <1>2, <1>3, StepIs, Zenon DEF Body
  <1>5. HeadedBy(g[j], t, g, ii, e, c, j, j0)
    BY <1>2, BodyIs
  <1>6. Rested(t, u, e, lv, c, j, last)
    <2>1. t \in Writing /\ InOrder(t) /\ t.doc_num = D(e, j)
      BY <1>5, Zenon DEF HeadedBy
    <2>2. Rested(t, Rest(t, ii, j, lv, c), e, lv, c, j, last)
      BY <1>2, <2>1, RestIs
    <2> QED
      BY ONLY <1>4, <2>2, Zenon
  <1>7. g[j] \in Writing /\ t \in Writing /\ u \in Writing /\ t.bits \in Nat
    <2>1. g[j] \in Writing /\ t \in Writing /\ u \in Writing
      BY <1>5, <1>6, Zenon DEF Standing, HeadedBy, Rested
    <2> QED
      BY <2>1 DEF Writing
  <1>8. Round(g, ii, e, lv, c, j)
    <2>1. Further(g[j], u) /\ Further(t, u)
      <3>1. Further(g[j], t) /\ Further(t, u)
        BY <1>5, <1>6, Zenon DEF HeadedBy, Rested
      <3> QED
        BY <1>7, <3>1, FurtherTwice
    <2>2. ASSUME HeaderAt(j, P, c.k)
          PROVE  u.codes[Len(g[j].codes) + 1] = t.codes[Len(g[j].codes) + 1]
                 /\ u.codes[Len(g[j].codes) + 2] = t.codes[Len(g[j].codes) + 2]
      <3>1. Len(g[j].codes) \in Nat /\ Len(t.codes) = Len(g[j].codes) + 2
        <4>1. Len(g[j].codes) \in Nat
          BY <1>7, LenProperties DEF Writing
        <4>2. Len(t.codes) = Len(g[j].codes) + 2
          BY <1>5, <2>2, Zenon DEF HeadedBy
        <4> QED
          BY <4>1, <4>2
      <3>2. Len(g[j].codes) + 1 \in 1 .. Len(t.codes) /\ Len(g[j].codes) + 2 \in 1 .. Len(t.codes)
        BY <3>1
      <3> QED
        BY <2>1, <3>2, Zenon DEF Further
    <2>3. Len(t.codes) \in Nat
      BY <1>7, LenProperties DEF Writing
    <2> QED
      BY ONLY <1>2, <1>3, <1>5, <1>6, <1>7, <2>1, <2>2, <2>3, Zenon DEF Round, HeadedBy, Rested
  <1>9. CASE c.k = 0
    <2>1. ~(c.k > 0)
      BY <1>9
    <2> QED
      BY <1>3, <1>6, <1>8, <2>1, Zenon DEF Standing, Rested
  <1>10. CASE c.k > 0
    <2>1. PICK k \in Nat \ {0} : k = c.k
      BY <1>1, <1>10
    <2>2. PICK m : m = j % k
      OBVIOUS
    <2>3. j0 = j - m
      BY <1>2, <2>1, <2>2
    <2>4. /\ m \in 0 .. (k - 1) /\ j0 \in Nat /\ j0 + m = j /\ j0 % k = 0 /\ j0 <= j /\ j < j0 + k
          /\ m = k - 1 => (j + 1) % k = 0 /\ (j + 1) - k = j0 /\ j + 1 = j0 + k
          /\ m # k - 1 => (j + 1) % k = m + 1 /\ (j + 1) - (m + 1) = j0
      <3>1. j \in Nat /\ k \in Nat \ {0}
        BY <1>1
      <3> QED
        BY ONLY <1>2, <2>1, <2>2, <3>1, BlockIs, ZenonT(60) DEF InBlock
    <2>5. j0 + k < P =>
             /\ u.last_major = D(e, j0 + k)
             /\ u.bits_so_far = ii[j0 + k + 1].bits_so_far
             /\ Body(g, ii, e, c, j0).bits \in Nat
             /\ t.bits + ii[j0 + 1].bits_so_far = Body(g, ii, e, c, j0).bits + ii[j + 1].bits_so_far
      BY <1>5, <1>6, <1>10, <2>1, Zenon DEF HeadedBy, Rested
    <2>6. /\ \A n \in 1 .. P : ii[n].bits_so_far \in Nat /\ ii[n].count_bits = Tf(e, lv, n)
          /\ j + 1 < P => ii[j + 2].bits_so_far =
                ii[j + 1].bits_so_far + (BblockLength(Gap(e, j + 1), c.blk) + Tf(e, lv, j + 1))
      <3>1. \A n \in 1 .. P : ii[n].bits_so_far \in Nat /\ ii[n].count_bits = Tf(e, lv, n)
        BY <1>10 DEF Right
      <3>2. \A n \in 1 .. (P - 1) :
              ii[n + 1].bits_so_far =
                ii[n].bits_so_far + (BblockLength(Gap(e, n), c.blk) + Tf(e, lv, n))
        BY <1>10 DEF Right
      <3>3. j + 1 < P => j + 1 \in 1 .. (P - 1) /\ (j + 1) + 1 = j + 2
        BY <1>1
      <3> QED
        BY <3>1, <3>2, <3>3
    <2>7. PICK B, gap, tf, x0, x1 : /\ B = Body(g, ii, e, c, j0).bits
                                /\ gap = BblockLength(Gap(e, j + 1), c.blk)
                                /\ tf = Tf(e, lv, j + 1)
                                /\ x0 = ii[j0 + 1].bits_so_far /\ x1 = ii[j + 1].bits_so_far
      OBVIOUS
    <2>8. gap \in Nat /\ tf \in Nat /\ x0 \in Nat /\ x1 \in Nat
      <3>1. Gap(e, j + 1) \in Nat \ {0} /\ c.blk \in Operand
        BY <1>1, GapFacts, ParamFacts
      <3>2. gap \in Nat
        BY <2>7, <3>1, LengthPositive
      <3>3. tf \in Nat
        BY <1>1, <2>7, TfFacts
      <3>4. j0 + 1 \in 1 .. P
        BY <1>1, <2>4
      <3> QED
        BY <1>1, <2>6, <2>7, <3>2, <3>3, <3>4
    <2>9. CASE m = k - 1
      <3>1. (j + 1) % k = 0 /\ (j + 1) - k = j0 /\ j + 1 = j0 + k
        BY <2>4, <2>9
      <3>2. ASSUME j + 1 < P
            PROVE /\ u.last_major = D(e, j + 1) /\ u.bits_so_far = ii[(j + 1) + 1].bits_so_far
                  /\ u.bits + ii[(j + 1) - k + 1].bits_so_far =
                       Body(g, ii, e, c, (j + 1) - k).bits
                       + (ii[j + 1].bits_so_far + ii[j + 1].count_bits)
        <4>1. j0 + k < P /\ j0 + k + 1 = (j + 1) + 1
          BY <2>4, <3>1, <3>2
        <4>2. u.last_major = D(e, j + 1) /\ u.bits_so_far = ii[(j + 1) + 1].bits_so_far
              /\ t.bits + x0 = B + x1 /\ B \in Nat
          BY <2>5, <2>7, <3>1, <4>1
        <4>3. last
          <5>1. j % c.k = c.k - 1 /\ j # P - 1
            BY <1>1, <2>1, <2>2, <2>9, <3>2
          <5> QED
            BY <1>2, <1>10, <5>1, Zenon DEF LastOfBlock
        <4>4. u.bits = t.bits + tf
          <5>1. u.bits = t.bits + (0 + tf)
            BY <1>6, <2>7, <4>3, Zenon DEF Rested
          <5> QED
            BY <1>7, <2>8, <5>1
        <4>5. u.bits + x0 = B + (x1 + tf)
          <5>1. /\ t.bits \in Nat /\ t.bits + x0 = B + x1 /\ B \in Nat
                /\ u.bits = t.bits + tf
            BY <1>7, <4>2, <4>4
          <5> QED
            BY ONLY <2>8, <5>1
        <4>6. ii[(j + 1) - k + 1].bits_so_far = x0 /\ ii[j + 1].count_bits = tf
              /\ Body(g, ii, e, c, (j + 1) - k).bits = B
          BY <1>1, <2>6, <2>7, <3>1
        <4> QED
          BY ONLY <2>7, <4>2, <4>5, <4>6, Zenon
      <3>3. Standing(g, ii, e, lv, c, j + 1)
        <4>1. (j + 1) % c.k = 0
          BY <2>1, <3>1
        <4> QED
          BY ONLY <1>3, <1>6, <2>1, <3>2, <4>1, Zenon DEF Standing, Rested
      <3> QED
        BY <1>8, <3>3
    <2>10. CASE m # k - 1
      <3>1. (j + 1) % k = m + 1 /\ (j + 1) - (m + 1) = j0 /\ m + 1 # 0
        BY <2>4, <2>10
      <3>2. ASSUME j0 + k < P
            PROVE /\ u.last_major = D(e, j0 + k)
                  /\ u.bits_so_far = ii[j0 + k + 1].bits_so_far
                  /\ B \in Nat
                  /\ u.bits + ii[j0 + 1].bits_so_far = B + ii[(j + 1) + 1].bits_so_far
        <4>1. u.last_major = D(e, j0 + k) /\ u.bits_so_far = ii[j0 + k + 1].bits_so_far
              /\ t.bits + x0 = B + x1 /\ B \in Nat
          BY <2>5, <2>7, <3>2
        <4>2. j + 1 < P /\ (j + 1) + 1 = j + 2
          BY <1>1, <2>4, <2>10, <3>2
        <4>3. ~last
          <5>1. ~(j % c.k = c.k - 1)
            BY <2>1, <2>2, <2>10
          <5> QED
            BY <1>2, <5>1, Zenon DEF LastOfBlock
        <4>4. u.bits = t.bits + (gap + tf)
          BY <1>6, <2>7, <4>3, Zenon DEF Rested
        <4>5. ii[(j + 1) + 1].bits_so_far = x1 + (gap + tf)
          BY <2>6, <2>7, <4>2
        <4> QED
          <5>1. /\ t.bits \in Nat /\ t.bits + x0 = B + x1 /\ B \in Nat
                /\ u.bits = t.bits + (gap + tf)
            BY <1>7, <4>1, <4>4
          <5>2. u.bits + x0 = B + (x1 + (gap + tf))
            BY ONLY <2>8, <5>1
          <5> QED
            BY ONLY <2>7, <4>1, <4>5, <5>1, <5>2, Zenon
      <3>3. Standing(g, ii, e, lv, c, j + 1)
        <4>1. (j + 1) % c.k = m + 1 /\ (j + 1) % c.k # 0 /\ (j + 1) - ((j + 1) % c.k) = j0
          BY <2>1, <3>1
        <4> QED
          BY ONLY <1>3, <1>6, <2>1, <2>7, <3>2, <4>1, Zenon DEF Standing, Rested
      <3> QED
        BY <1>8, <3>3
    <2> QED
      BY <2>9, <2>10
  <1> QED
    BY <1>1, <1>9, <1>10

----------------------------------------------------------------------------
(* The layout of an entry.                                                 *)

\* Where posting j, from 0, is: place[j] has the codes before it, the bit it (or
\* the header of its block) begins at, and the bit its gap begins at.  A header
\* tells the document of the last posting of its block and the bit the next
\* block begins at.
Laid(codes, e, lv, c, place, j) ==
  LET now  == place[j]
      next == place[j + 1]
      head == HeaderAt(j, Len(e.docs), c.k)
      last == LastOfBlock(j, Len(e.docs), c.k)
      t    == IF head THEN now.t + 2 ELSE now.t
      len  == BblockLength(HeaderGap(e, c, j), c.dn_blk)
      left == place[j + c.k].at - now.body
      gap  == IF last THEN 0 ELSE BblockLength(Gap(e, j + 1), c.blk)
  IN /\ head => /\ codes[now.t + 1] = [at |-> now.at, b |-> c.dn_blk, x |-> HeaderGap(e, c, j)]
                /\ codes[now.t + 2] = [at |-> now.at + len, b |-> c.len_blk, x |-> left]
                /\ now.body = now.at + len + BblockLength(left, c.len_blk)
     /\ ~head => now.body = now.at
     /\ ~last => codes[t + 1] = [at |-> now.body, b |-> c.blk, x |-> Gap(e, j + 1)]
     /\ lv >= 2 => codes[next.t] = [at |-> now.body + gap, b |-> 0, x |-> e.counts[j + 1]]
     /\ next.t = t + ((IF last THEN 0 ELSE 1) + (IF lv >= 2 THEN 1 ELSE 0))
     /\ next.at = now.body + (gap + Tf(e, lv, j + 1))

Places(n, codes) == [0 .. n -> [t : 0 .. Len(codes), at : Nat, body : Nat]]

Layout(codes, e, lv, c, place) ==
  /\ codes \in Seq(Code) /\ Ascending(codes)
  /\ place \in Places(Len(e.docs), codes)
  /\ place[0].t = 0 /\ place[0].at = 0
  /\ \A j \in 0 .. (Len(e.docs) - 1) : Laid(codes, e, lv, c, place, j)

Laying(codes, e, lv, c) == \E place : Layout(codes, e, lv, c, place)

\* mg_invf_rebuild, and the inversion, lay an entry out.
LEMMA WriteLays ==
  ASSUME NEW e \in Entries, NEW h \in Headers, NEW lv \in {1, 2, 3}, NEW c, c = ParamsOf(e, h, lv),
         lv >= 2 \/ c.k = 0, NEW ii, Right(ii, e, lv, c)
  PROVE  WriteEntry(ii, lv, c).ok /\ Laying(WriteEntry(ii, lv, c).codes, e, lv, c)
  <1> DEFINE P == Len(e.docs)
  <1>1. P \in Nat \ {0} /\ Len(ii) = P /\ c.k \in Nat
    BY EntryFacts, ParamFacts DEF Right
  <1>2. PICK g : /\ g[0] = Empty
                 /\ \A j \in 1 .. P : g[j] = WriteStep(g[j - 1], ii, j - 1, lv, c)
                 /\ WriteEntry(ii, lv, c) = g[P]
    <2>1. Len(ii) \in Nat /\ Len(ii) = P
      BY <1>1
    <2>2. PICK f : WriteRun(f, ii, lv, c, Len(ii)) /\ WriteEntry(ii, lv, c) = f[Len(ii)]
      <3>1. WriteRan(ii, lv, c)
        BY ONLY <2>1, WriteIs
      <3> QED
        BY ONLY <3>1, Zenon DEF WriteRan
    <2> QED
      BY ONLY <2>1, <2>2, Zenon DEF WriteRun
  <1>3. Standing(g, ii, e, lv, c, 0)
    <2>1. g[0] \in Writing /\ g[0].doc_num = 0 /\ g[0].codes = <<>>
          /\ g[0].last_major = 0 /\ g[0].bits_so_far = 0
      BY <1>2, EmptySeq DEF Empty, Writing
    <2>2. InOrder(g[0])
      BY <2>1 DEF InOrder, Ascending
    <2>3. D(e, 0) = 0
      BY DEF D
    <2>4. c.k > 0 => 0 % c.k = 0 /\ ~(0 >= c.k) /\ ii[0 + 1].bits_so_far = 0
      <3> SUFFICES ASSUME c.k > 0 PROVE 0 % c.k = 0 /\ ~(0 >= c.k) /\ ii[0 + 1].bits_so_far = 0
        OBVIOUS
      <3>1. c.k \in Nat \ {0}
        BY <1>1
      <3>2. 0 % c.k = 0
        BY <3>1, ModFacts
      <3>3. ii[1].bits_so_far = 0
        BY DEF Right
      <3> QED
        BY <3>1, <3>2, <3>3
    <2> QED
      BY ONLY <2>1, <2>2, <2>3, <2>4, Zenon DEF Standing
  <1> DEFINE G == {j \in Nat : j <= P =>
                     /\ Standing(g, ii, e, lv, c, j)
                     /\ \A n \in 0 .. j : Further(g[n], g[j]) /\ g[n] \in Writing
                     /\ \A n \in 0 .. (j - 1) : Round(g, ii, e, lv, c, n)}
  <1>4. 0 \in G
    <2>1. Further(g[0], g[0]) /\ g[0] \in Writing
      <3>1. g[0] \in Writing
        BY <1>3, Zenon DEF Standing
      <3>2. Len(g[0].codes) \in Nat
        BY <3>1, LenProperties DEF Writing
      <3> QED
        BY <3>1, <3>2 DEF Further
    <2> QED
      BY <1>3, <2>1
  <1>5. ASSUME NEW j \in Nat, j \in G PROVE j + 1 \in G
    <2>1. SUFFICES ASSUME j + 1 <= P
                   PROVE  /\ Standing(g, ii, e, lv, c, j + 1)
                          /\ \A n \in 0 .. (j + 1) : Further(g[n], g[j + 1]) /\ g[n] \in Writing
                          /\ \A n \in 0 .. j : Round(g, ii, e, lv, c, n)
      BY <1>1
    <2>2. /\ Standing(g, ii, e, lv, c, j)
          /\ \A n \in 0 .. j : Further(g[n], g[j]) /\ g[n] \in Writing
          /\ \A n \in 0 .. (j - 1) : Round(g, ii, e, lv, c, n)
      BY <1>1, <1>5, <2>1
    <2>3. j \in 0 .. (P - 1) /\ j + 1 \in 1 .. P /\ (j + 1) - 1 = j
      BY <1>1, <2>1
    <2>4. g[j + 1] = WriteStep(g[j], ii, j, lv, c)
      BY <1>2, <2>3
    <2> HIDE DEF G
    <2>5. Standing(g, ii, e, lv, c, j + 1) /\ Round(g, ii, e, lv, c, j)
      BY <1>1, <2>2, <2>3, <2>4, RoundIs
    <2>6. Further(g[j], g[j + 1]) /\ g[j + 1] \in Writing
      BY <2>5, Zenon DEF Standing, Round
    <2>7. ASSUME NEW n \in 0 .. (j + 1) PROVE Further(g[n], g[j + 1]) /\ g[n] \in Writing
      <3>1. CASE n = j + 1
        <4>1. Len(g[n].codes) \in Nat
          BY <2>6, <3>1, LenProperties DEF Writing
        <4> QED
          BY <2>6, <3>1, <4>1 DEF Further
      <3>2. CASE n \in 0 .. j
        <4>1. Further(g[n], g[j]) /\ g[n] \in Writing /\ g[j] \in Writing
          BY <2>2, <3>2
        <4> QED
          BY <2>6, <4>1, FurtherTwice
      <3> QED
        BY <3>1, <3>2
    <2>8. ASSUME NEW n \in 0 .. j PROVE Round(g, ii, e, lv, c, n)
      <3>1. n = j \/ n \in 0 .. (j - 1)
        OBVIOUS
      <3> QED
        BY <2>2, <2>5, <3>1
    <2> QED
      BY <2>5, <2>7, <2>8
  <1>6. /\ \A j \in 0 .. P : Standing(g, ii, e, lv, c, j) /\ Further(g[j], g[P]) /\ g[j] \in Writing
        /\ \A j \in 0 .. (P - 1) : Round(g, ii, e, lv, c, j)
    <2>1. Nat \subseteq G
      <3> HIDE DEF G
      <3> QED
        BY <1>4, <1>5, NatInductionOnSet
    <2>2. \A j \in 0 .. P : j \in G /\ j <= P
      BY <1>1, <2>1
    <2>3. \A j \in 0 .. P : Standing(g, ii, e, lv, c, j)
      BY <2>2
    <2>4. P \in G /\ P <= P
      BY <1>1, <2>2
    <2> QED
      BY <2>3, <2>4
  <1> HIDE DEF G
  <1>7. PICK codes : codes = g[P].codes
    OBVIOUS
  <1>8. g[P].ok /\ codes \in Seq(Code) /\ Ascending(codes)
    <2>1. g[P] \in Writing /\ InOrder(g[P])
      <3>1. P \in 0 .. P
        BY <1>1
      <3> QED
        BY <1>6, <3>1, Zenon DEF Standing
    <2>2. g[P].ok \in {TRUE} /\ g[P].codes \in Seq(Code)
      BY <2>1 DEF Writing
    <2> QED
      BY <1>7, <2>1, <2>2, Zenon DEF InOrder
  <1>9. PICK place : place = [j \in 0 .. P |-> [t |-> Len(g[j].codes), at |-> g[j].bits,
           body |-> IF j < P THEN Body(g, ii, e, c, j).bits ELSE 0]]
    OBVIOUS
  <1>10. \A j \in 0 .. P : /\ place[j].t = Len(g[j].codes) /\ place[j].at = g[j].bits
                           /\ j < P => place[j].body = Body(g, ii, e, c, j).bits
    BY <1>9
  <1>11. place \in Places(P, codes)
    <2>1. ASSUME NEW j \in 0 .. P
          PROVE  /\ Len(g[j].codes) \in 0 .. Len(codes) /\ g[j].bits \in Nat
                 /\ (IF j < P THEN Body(g, ii, e, c, j).bits ELSE 0) \in Nat
      <3>1. g[j] \in Writing /\ g[P] \in Writing /\ Further(g[j], g[P])
        <4>1. P \in 0 .. P
          BY <1>1
        <4> QED
          BY <1>6, <4>1
      <3>2. Len(g[j].codes) \in Nat /\ Len(codes) \in Nat /\ g[j].bits \in Nat
        BY <1>7, <3>1, LenProperties DEF Writing
      <3>3. Len(g[j].codes) <= Len(codes)
        BY <1>7, <3>1, Zenon DEF Further
      <3>4. j < P => Body(g, ii, e, c, j).bits \in Nat
        <4>1. j < P => j \in 0 .. (P - 1)
          BY <1>1
        <4> QED
          BY <1>6, <4>1, Zenon DEF Round
      <3> QED
        BY <3>2, <3>3, <3>4
    <2>2. place \in [0 .. P -> [t : 0 .. Len(codes), at : Nat, body : Nat]]
      BY <1>9, <2>1
    <2> QED
      BY <2>2, Zenon DEF Places
  <1>12. place[0].t = 0 /\ place[0].at = 0
    <2>1. 0 \in 0 .. P
      BY <1>1
    <2>2. Len(g[0].codes) = 0 /\ g[0].bits = 0
      BY <1>2, EmptySeq DEF Empty
    <2> QED
      BY <1>10, <2>1, <2>2
  <1>13. ASSUME NEW j \in 0 .. (P - 1) PROVE Laid(codes, e, lv, c, place, j)
    <2>1. j \in 0 .. P /\ j + 1 \in 0 .. P /\ j < P /\ j \in Nat
      BY <1>1
    <2>2. PICK u, t : u = g[j + 1] /\ t = Body(g, ii, e, c, j)
      OBVIOUS
    <2>3. /\ Round(g, ii, e, lv, c, j)
          /\ Further(u, g[P]) /\ u \in Writing /\ g[j] \in Writing
      BY <1>6, <2>1, <2>2
    <2>4. /\ place[j].t = Len(g[j].codes) /\ place[j].at = g[j].bits /\ place[j].body = t.bits
          /\ place[j + 1].t = Len(u.codes) /\ place[j + 1].at = u.bits
      BY <1>10, <2>1, <2>2
    <2>5. Len(u.codes) \in Nat /\ Len(g[j].codes) \in Nat /\ Len(t.codes) \in Nat
      <3>1. Len(u.codes) \in Nat /\ Len(g[j].codes) \in Nat
        BY <2>3, LenProperties DEF Writing
      <3> QED
        BY <2>2, <2>3, <3>1, Zenon DEF Round
    <2>6. \A n \in 1 .. Len(u.codes) : codes[n] = u.codes[n]
      BY <1>7, <2>3, Zenon DEF Further
    <2>7. PICK gaps, counts : /\ gaps = IF LastOfBlock(j, P, c.k) THEN 0 ELSE 1
                              /\ counts = IF lv >= 2 THEN 1 ELSE 0
      OBVIOUS
    <2>8. Len(u.codes) = Len(t.codes) + (gaps + counts)
          /\ gaps \in {0, 1} /\ counts \in {0, 1}
          /\ (~LastOfBlock(j, P, c.k) => gaps = 1) /\ (lv >= 2 => counts = 1)
      <3>1. Len(u.codes) = Len(t.codes) + (gaps + counts)
        BY <2>2, <2>3, <2>7, Zenon DEF Round
      <3> QED
        BY <2>7, <3>1
    <2>9. /\ ~LastOfBlock(j, P, c.k) => Len(t.codes) + 1 \in 1 .. Len(u.codes)
          /\ lv >= 2 => Len(u.codes) \in 1 .. Len(u.codes)
          /\ Len(t.codes) <= Len(u.codes)
      <3>1. PICK x, y : x = Len(t.codes) /\ y = Len(u.codes)
        OBVIOUS
      <3>2. x \in Nat /\ y \in Nat /\ y = x + (gaps + counts) /\ gaps \in {0, 1} /\ counts \in {0, 1}
        BY ONLY <2>5, <2>8, <3>1, Zenon
      <3>3. /\ gaps = 1 => x + 1 \in 1 .. y
            /\ counts = 1 => y \in 1 .. y
            /\ x <= y
        BY ONLY <3>2
      <3> QED
        BY ONLY <2>8, <3>1, <3>3, Zenon
    <2>10. PICK tt : tt = IF HeaderAt(j, P, c.k) THEN place[j].t + 2 ELSE place[j].t
      OBVIOUS
    <2>11. Len(t.codes) = tt
      BY <2>2, <2>3, <2>4, <2>10, Zenon DEF Round
    <2>12. /\ ~HeaderAt(j, P, c.k) => place[j].body = place[j].at
           /\ ~LastOfBlock(j, P, c.k) => codes[tt + 1] =
                [at |-> place[j].body, b |-> c.blk, x |-> Gap(e, j + 1)]
           /\ lv >= 2 => codes[place[j + 1].t] =
                [at |-> place[j].body + (IF LastOfBlock(j, P, c.k) THEN 0
                                         ELSE BblockLength(Gap(e, j + 1), c.blk)),
                 b |-> 0, x |-> e.counts[j + 1]]
           /\ place[j + 1].t =
                tt + ((IF LastOfBlock(j, P, c.k) THEN 0 ELSE 1) + (IF lv >= 2 THEN 1 ELSE 0))
           /\ place[j + 1].at =
                place[j].body + ((IF LastOfBlock(j, P, c.k) THEN 0
                                  ELSE BblockLength(Gap(e, j + 1), c.blk)) + Tf(e, lv, j + 1))
      BY ONLY <2>2, <2>3, <2>4, <2>6, <2>9, <2>11, Zenon DEF Round
    <2>13. ASSUME HeaderAt(j, P, c.k)
           PROVE  LET len  == BblockLength(HeaderGap(e, c, j), c.dn_blk)
                      left == place[j + c.k].at - place[j].body
                  IN /\ codes[place[j].t + 1] =
                          [at |-> place[j].at, b |-> c.dn_blk, x |-> HeaderGap(e, c, j)]
                     /\ codes[place[j].t + 2] =
                          [at |-> place[j].at + len, b |-> c.len_blk, x |-> left]
                     /\ place[j].body = place[j].at + len + BblockLength(left, c.len_blk)
      <3>1. PICK n : n = Len(g[j].codes)
        OBVIOUS
      <3>2. /\ Len(t.codes) = n + 2
            /\ u.codes[n + 1] = [at |-> g[j].bits, b |-> c.dn_blk, x |-> HeaderGap(e, c, j)]
            /\ u.codes[n + 2] = [at |-> g[j].bits + BblockLength(HeaderGap(e, c, j), c.dn_blk),
                                 b |-> c.len_blk, x |-> HeaderBits(ii, c, j)]
            /\ t.bits = g[j].bits + BblockLength(HeaderGap(e, c, j), c.dn_blk)
                        + BblockLength(HeaderBits(ii, c, j), c.len_blk)
            /\ HeaderBits(ii, c, j) \in Nat \ {0} /\ t.bits \in Nat
        BY ONLY <2>2, <2>3, <2>13, <3>1, Zenon DEF Round
      <3>3. n + 1 \in 1 .. Len(u.codes) /\ n + 2 \in 1 .. Len(u.codes)
        <4>1. PICK x, y : x = Len(t.codes) /\ y = Len(u.codes)
          OBVIOUS
        <4>2. n \in Nat /\ y \in Nat /\ x = n + 2 /\ x <= y
          BY ONLY <2>5, <2>9, <3>1, <3>2, <4>1, Zenon
        <4>3. n + 1 \in 1 .. y /\ n + 2 \in 1 .. y
          BY ONLY <4>2
        <4> QED
          BY ONLY <4>1, <4>3, Zenon
      <3>4. HeaderBits(ii, c, j) = place[j + c.k].at - place[j].body
        <4>1. c.k > 0 /\ j % c.k = 0 /\ j + c.k < P
          BY <2>13, Zenon DEF HeaderAt
        <4>2. PICK k \in Nat \ {0} : k = c.k
          BY <1>1, <4>1
        <4>3. PICK z : z = j + k
          OBVIOUS
        <4>4. z \in 0 .. P /\ z < P /\ z >= k /\ (z - k) + 1 = j + 1 /\ z - k = j
          BY <1>1, <2>1, <4>1, <4>2, <4>3
        <4>5. z % k = 0
          BY <2>1, <4>1, <4>2, <4>3, ModFacts
        <4>6. g[z].bits + ii[z - k + 1].bits_so_far =
                Body(g, ii, e, c, z - k).bits + (ii[z].bits_so_far + ii[z].count_bits)
          <5>1. Standing(g, ii, e, lv, c, z)
            BY <1>6, <4>4
          <5> QED
            BY ONLY <4>1, <4>2, <4>4, <4>5, <5>1, Zenon DEF Standing
        <4>7. g[z].bits + ii[j + 1].bits_so_far =
                t.bits + (ii[z].bits_so_far + ii[z].count_bits)
          BY ONLY <2>2, <4>4, <4>6, Zenon
        <4>8. g[z].bits \in Nat /\ ii[j + 1].bits_so_far \in Nat /\ ii[z].bits_so_far \in Nat
              /\ ii[z].count_bits \in Nat
          <5>1. g[z].bits \in Nat
            <6>1. g[z] \in Writing
              BY <1>6, <4>4
            <6> QED
              BY <6>1 DEF Writing
          <5>2. lv \in {2, 3}
            BY <4>1
          <5>3. /\ ii[j + 1].bits_so_far \in Nat /\ ii[j + c.k].bits_so_far \in Nat
                /\ ii[j + c.k].count_bits \in Nat
            BY <2>1, <2>13, <5>2, HeaderNumbers, SMTT(60)
          <5> QED
            BY <4>2, <4>3, <5>1, <5>3
        <4>9. HeaderBits(ii, c, j) =
                ii[z].bits_so_far + ii[z].count_bits - ii[j + 1].bits_so_far
          BY <4>2, <4>3, Zenon DEF HeaderBits
        <4>10. place[z].at = g[z].bits
          BY <1>10, <4>4
        <4>11. HeaderBits(ii, c, j) = g[z].bits - t.bits
          <5>1. PICK a, x, y, z2, w : /\ a = g[z].bits /\ x = ii[j + 1].bits_so_far
                  /\ y = ii[z].bits_so_far /\ z2 = ii[z].count_bits /\ w = t.bits
            OBVIOUS
          <5>2. /\ a \in Nat /\ x \in Nat /\ y \in Nat /\ z2 \in Nat /\ w \in Nat
                /\ a + x = w + (y + z2)
            BY ONLY <3>2, <4>7, <4>8, <5>1, Zenon
          <5>3. y + z2 - x = a - w
            BY ONLY <5>2
          <5> QED
            BY ONLY <4>9, <5>1, <5>3, Zenon
        <4> QED
          BY ONLY <2>4, <4>2, <4>3, <4>10, <4>11, Zenon
      <3> QED
        BY ONLY <2>4, <2>6, <3>1, <3>2, <3>3, <3>4, Zenon
    <2> QED
      BY ONLY <2>10, <2>12, <2>13, Zenon DEF Laid
  <1>14. Layout(codes, e, lv, c, place)
    BY ONLY <1>8, <1>11, <1>12, <1>13, Zenon DEF Layout
  <1> QED
    BY <1>2, <1>7, <1>8, <1>14, Zenon DEF Laying

\* The codes before the gap of posting j.
GapCode(place, e, c, j) ==
  IF HeaderAt(j, Len(e.docs), c.k) THEN place[j].t + 2 ELSE place[j].t

\* All that a posting needs is among the codes.
Indexed(codes, e, lv, c, place, j) ==
  LET last == LastOfBlock(j, Len(e.docs), c.k)
      tt   == GapCode(place, e, c, j)
  IN /\ DOMAIN codes = 1 .. Len(codes) /\ Len(codes) \in Nat
     /\ place[j] \in [t : Nat, at : Nat, body : Nat]
     /\ place[j + 1] \in [t : Nat, at : Nat, body : Nat]
     /\ tt \in Nat
     /\ HeaderAt(j, Len(e.docs), c.k) =>
          /\ place[j].t + 1 \in 1 .. Len(codes) /\ place[j].t + 2 \in 1 .. Len(codes)
          /\ (place[j].t + 1) + 1 = place[j].t + 2
     /\ ~last => tt + 1 \in 1 .. Len(codes)
     /\ lv >= 2 => place[j + 1].t \in 1 .. Len(codes)
     /\ last /\ lv >= 2 => place[j + 1].t = tt + 1
     /\ ~last /\ lv >= 2 => place[j + 1].t = (tt + 1) + 1
     /\ last /\ ~(lv >= 2) => place[j + 1].t = tt
     /\ ~last /\ ~(lv >= 2) => place[j + 1].t = tt + 1

\* The layout, posting by posting.
LEMMA LayoutIndexed ==
  ASSUME NEW e \in Entries, NEW lv, NEW c, NEW codes, NEW place,
         Layout(codes, e, lv, c, place), NEW j \in 0 .. (Len(e.docs) - 1)
  PROVE  Indexed(codes, e, lv, c, place, j) /\ Laid(codes, e, lv, c, place, j)
  <1>1. Len(e.docs) \in Nat \ {0}
    BY EntryFacts
  <1>2. codes \in Seq(Code) /\ place \in Places(Len(e.docs), codes) /\ Laid(codes, e, lv, c, place, j)
    BY Zenon DEF Layout
  <1>3. DOMAIN codes = 1 .. Len(codes) /\ Len(codes) \in Nat
    BY <1>2, LenProperties
  <1>4. /\ place[j] \in [t : 0 .. Len(codes), at : Nat, body : Nat]
        /\ place[j + 1] \in [t : 0 .. Len(codes), at : Nat, body : Nat]
    <2>1. j \in 0 .. Len(e.docs) /\ j + 1 \in 0 .. Len(e.docs)
      BY <1>1
    <2>2. place \in [0 .. Len(e.docs) -> [t : 0 .. Len(codes), at : Nat, body : Nat]]
      BY <1>2, Zenon DEF Places
    <2> QED
      BY <2>1, <2>2, Zenon
  <1>5. /\ place[j].t \in 0 .. Len(codes) /\ place[j + 1].t \in 0 .. Len(codes)
        /\ place[j] \in [t : Nat, at : Nat, body : Nat]
        /\ place[j + 1] \in [t : Nat, at : Nat, body : Nat]
    BY <1>3, <1>4
  <1>6. PICK n, x, y, tt, gaps, counts :
           /\ n = Len(codes) /\ x = place[j].t /\ y = place[j + 1].t
           /\ tt = GapCode(place, e, c, j)
           /\ gaps = IF LastOfBlock(j, Len(e.docs), c.k) THEN 0 ELSE 1
           /\ counts = IF lv >= 2 THEN 1 ELSE 0
    OBVIOUS
  <1>7. n \in Nat /\ x \in 0 .. n /\ y \in 0 .. n
    BY <1>3, <1>5, <1>6
  <1>8. y = tt + (gaps + counts)
    BY ONLY <1>2, <1>6, Zenon DEF Laid, GapCode
  <1>9. /\ HeaderAt(j, Len(e.docs), c.k) => tt = x + 2
        /\ ~HeaderAt(j, Len(e.docs), c.k) => tt = x
    BY ONLY <1>6, Zenon DEF GapCode
  <1>10. /\ LastOfBlock(j, Len(e.docs), c.k) => gaps = 0
         /\ ~LastOfBlock(j, Len(e.docs), c.k) => gaps = 1
         /\ lv >= 2 => counts = 1
         /\ ~(lv >= 2) => counts = 0
    BY ONLY <1>6, Zenon
  <1>11. tt \in Nat /\ gaps \in {0, 1} /\ counts \in {0, 1}
    BY ONLY <1>7, <1>9, <1>10
  <1>12. /\ tt = x + 2 => x + 1 \in 1 .. n /\ x + 2 \in 1 .. n /\ (x + 1) + 1 = x + 2
         /\ gaps = 1 => tt + 1 \in 1 .. n
         /\ counts = 1 => y \in 1 .. n
         /\ gaps = 0 /\ counts = 1 => y = tt + 1
         /\ gaps = 1 /\ counts = 1 => y = (tt + 1) + 1
         /\ gaps = 0 /\ counts = 0 => y = tt
         /\ gaps = 1 /\ counts = 0 => y = tt + 1
    BY ONLY <1>7, <1>8, <1>11
  <1> QED
    BY ONLY <1>2, <1>3, <1>5, <1>6, <1>9, <1>10, <1>11, <1>12, Zenon DEF Indexed

----------------------------------------------------------------------------
(* Reading an entry from start to end.                                     *)

Item(junk) == [doc_num : Nat, count : Nat, bits_so_far : Nat, count_bits : Nat \cup {junk}]

Reading(junk) == [t : Nat, doc_num : Nat, next_mjr_dn : Nat, ok : {TRUE}, bits : Nat,
                  ii : Seq(Item(junk))]

\* Item n is what it should be.
ItemRight(x, e, lv, n, junk) ==
  /\ x.doc_num = e.docs[n] /\ x.count = IF lv >= 2 THEN e.counts[n] ELSE 0
  /\ x.bits_so_far \in Nat
  /\ x.count_bits = IF lv >= 2 THEN Tf(e, lv, n) ELSE junk

Bits(e, lv, c, n) == BblockLength(Gap(e, n), c.blk) + Tf(e, lv, n)

\* The reader before posting j, from 0.
ReadTo(s, e, lv, c, place, junk, j) ==
  LET j0 == j - (j % c.k)
  IN /\ s \in Reading(junk) /\ s.t = place[j].t + 1 /\ s.doc_num = D(e, j)
     /\ c.k > 0 /\ j % c.k # 0 /\ j0 + c.k < Len(e.docs) => s.next_mjr_dn = D(e, j0 + c.k)
     /\ Len(s.ii) = j
     /\ \A n \in 1 .. j : ItemRight(s.ii[n], e, lv, n, junk)
     /\ \A n \in 1 .. (j - 1) : s.ii[n + 1].bits_so_far = s.ii[n].bits_so_far + Bits(e, lv, c, n)
     /\ j > 0 => s.ii[1].bits_so_far = 0 /\ s.bits = s.ii[j].bits_so_far + Bits(e, lv, c, j)
     /\ j = 0 => s.bits = 0

\* Behind the header, if there is one, the document at the end of a block with a
\* header is known.
LEMMA HeadRead ==
  ASSUME NEW e \in Entries, NEW h \in Headers, NEW lv \in {1, 2, 3}, NEW c, c = ParamsOf(e, h, lv),
         NEW codes, NEW place, Layout(codes, e, lv, c, place), NEW j \in 0 .. (Len(e.docs) - 1),
         NEW junk, NEW s, ReadTo(s, e, lv, c, place, junk, j),
         NEW r, r = IF HeaderAt(j, Len(e.docs), c.k) THEN Headed(codes, s, c) ELSE s
  PROVE  /\ r \in Reading(junk) /\ r.t = GapCode(place, e, c, j) + 1 /\ r.doc_num = D(e, j)
         /\ r.ii = s.ii /\ r.bits = s.bits
         /\ c.k > 0 /\ j - (j % c.k) + c.k < Len(e.docs) =>
              r.next_mjr_dn = D(e, j - (j % c.k) + c.k)
         /\ LastOfBlock(j, Len(e.docs), c.k) => r.next_mjr_dn = D(e, j + 1)
  <1> DEFINE P == Len(e.docs)
  <1>1. c.k \in Nat /\ P \in Nat \ {0} /\ j \in Nat
    BY EntryFacts, ParamFacts
  <1>2. /\ s \in Reading(junk) /\ s.t = place[j].t + 1 /\ s.doc_num = D(e, j)
        /\ c.k > 0 /\ j % c.k # 0 /\ j - (j % c.k) + c.k < P =>
             s.next_mjr_dn = D(e, j - (j % c.k) + c.k)
    BY Zenon DEF ReadTo
  <1>3. Indexed(codes, e, lv, c, place, j) /\ Laid(codes, e, lv, c, place, j)
    BY LayoutIndexed
  <1>4. CASE HeaderAt(j, P, c.k)
    <2>1. c.k > 0 /\ j % c.k = 0 /\ j + c.k < P
      BY <1>4, Zenon DEF HeaderAt
    <2>2. /\ place[j].t + 1 \in 1 .. Len(codes) /\ place[j].t + 2 \in 1 .. Len(codes)
          /\ DOMAIN codes = 1 .. Len(codes) /\ (place[j].t + 1) + 1 = place[j].t + 2
          /\ place[j].t \in Nat
      <3>1. place[j] \in [t : Nat, at : Nat, body : Nat]
        BY <1>3, Zenon DEF Indexed
      <3>2. place[j].t \in Nat
        BY <3>1
      <3> QED
        BY <1>3, <1>4, <3>2, Zenon DEF Indexed
    <2>3. /\ codes[place[j].t + 1] = [at |-> place[j].at, b |-> c.dn_blk, x |-> HeaderGap(e, c, j)]
          /\ codes[place[j].t + 2].b = c.len_blk
      <3>1. codes[place[j].t + 2] =
              [at |-> place[j].at + BblockLength(HeaderGap(e, c, j), c.dn_blk),
               b |-> c.len_blk, x |-> place[j + c.k].at - place[j].body]
        BY <1>3, <1>4, Zenon DEF Laid
      <3>2. codes[place[j].t + 1] =
              [at |-> place[j].at, b |-> c.dn_blk, x |-> HeaderGap(e, c, j)]
        BY <1>3, <1>4, Zenon DEF Laid
      <3> QED
        BY <3>1, <3>2
    <2>4. D(e, j) + HeaderGap(e, c, j) = D(e, j + c.k) /\ D(e, j + c.k) \in Nat
      <3>1. j \in 0 .. P /\ j + c.k \in 0 .. P
        BY <1>1, <2>1
      <3>2. D(e, j) \in 0 .. num_of_docs /\ D(e, j + c.k) \in 0 .. num_of_docs /\ num_of_docs \in Nat
        BY <3>1, GapFacts
      <3>3. PICK x, y : x = D(e, j) /\ y = D(e, j + c.k)
        OBVIOUS
      <3>4. x \in Nat /\ y \in Nat /\ HeaderGap(e, c, j) = y - x
        BY <3>2, <3>3 DEF HeaderGap
      <3> QED
        BY <3>3, <3>4
    <2>5. r = [s EXCEPT !.t = s.t + 2, !.next_mjr_dn = s.doc_num + codes[s.t].x]
      <3>1. r = Headed(codes, s, c)
        BY <1>4
      <3>2. s.t + 1 = place[j].t + 2
        BY <1>2, <2>2
      <3>3. s.t + 1 \in DOMAIN codes /\ codes[s.t].b = c.dn_blk /\ codes[s.t + 1].b = c.len_blk
        BY <1>2, <2>2, <2>3, <3>2
      <3> QED
        BY ONLY <3>1, <3>3, Zenon DEF Headed
    <2>6. s.doc_num + codes[s.t].x = D(e, j + c.k)
      BY <1>2, <2>3, <2>4
    <2>7. /\ r \in Reading(junk) /\ r.t = s.t + 2 /\ r.doc_num = s.doc_num /\ r.ii = s.ii
          /\ r.bits = s.bits /\ r.next_mjr_dn = D(e, j + c.k)
      <3>1. PICK x \in Nat : x = D(e, j + c.k)
        BY <2>4
      <3>2. r = [s EXCEPT !.t = s.t + 2, !.next_mjr_dn = x]
        BY ONLY <2>5, <2>6, <3>1, Zenon
      <3>3. /\ r \in Reading(junk) /\ r.t = s.t + 2 /\ r.doc_num = s.doc_num /\ r.ii = s.ii
            /\ r.bits = s.bits /\ r.next_mjr_dn = x
        <4>1. PICK y \in Nat : y = s.t + 2
          BY <1>2 DEF Reading
        <4>2. r = [s EXCEPT !.t = y, !.next_mjr_dn = x]
          BY ONLY <3>2, <4>1, Zenon
        <4>3. /\ r.t = y /\ r.doc_num = s.doc_num /\ r.ii = s.ii
              /\ r.bits = s.bits /\ r.next_mjr_dn = x
          BY <1>2, <4>2 DEF Reading
        <4>4. r \in Reading(junk)
          BY <1>2, <4>2 DEF Reading
        <4> QED
          BY <4>1, <4>3, <4>4
      <3> QED
        BY ONLY <3>1, <3>3, Zenon
    <2>8. r.t = GapCode(place, e, c, j) + 1
      <3>1. GapCode(place, e, c, j) = place[j].t + 2
        BY <1>4, Zenon DEF GapCode
      <3> QED
        BY <1>2, <2>2, <2>7, <3>1
    <2>9. ASSUME LastOfBlock(j, P, c.k) PROVE j + c.k = j + 1
      <3>1. j % c.k = c.k - 1
        BY <2>9, Zenon DEF LastOfBlock
      <3> QED
        BY <1>1, <2>1, <3>1
    <2>10. j - (j % c.k) + c.k = j + c.k
      BY <1>1, <2>1
    <2> QED
      BY <1>2, <2>7, <2>8, <2>9, <2>10
  <1>5. CASE ~HeaderAt(j, P, c.k)
    <2>1. r = s /\ GapCode(place, e, c, j) = place[j].t
      BY <1>5, Zenon DEF GapCode
    <2>2. ASSUME LastOfBlock(j, P, c.k) PROVE r.next_mjr_dn = D(e, j + 1)
      <3>1. c.k > 0 /\ j % c.k = c.k - 1 /\ j # P - 1
        BY <2>2, Zenon DEF LastOfBlock
      <3>2. PICK k \in Nat \ {0} : k = c.k
        BY <1>1, <3>1
      <3>3. PICK m, z : m = j % k /\ z = j - (j % k)
        OBVIOUS
      <3>4. InBlock(k, j, m, z)
        BY <1>1, <3>3, BlockIs, Zenon
      <3>5. m = k - 1
        BY <3>1, <3>2, <3>3
      <3>6. j + 1 = z + k
        BY <3>4, <3>5, Zenon DEF InBlock
      <3>7. z + k < P
        BY <1>1, <3>1, <3>6
      <3>8. m # 0
        <4> SUFFICES ASSUME m = 0 PROVE FALSE
          OBVIOUS
        <4>1. z = j
          BY <1>1, <3>3
        <4> QED
          BY <1>5, <3>1, <3>2, <3>3, <3>7, <4>1, Zenon DEF HeaderAt
      <3> QED
        BY <1>2, <2>1, <3>1, <3>2, <3>3, <3>6, <3>7, <3>8
    <2>3. ASSUME c.k > 0, j - (j % c.k) + c.k < P
          PROVE  r.next_mjr_dn = D(e, j - (j % c.k) + c.k)
      <3>1. j % c.k # 0
        <4> SUFFICES ASSUME j % c.k = 0 PROVE FALSE
          OBVIOUS
        <4>1. j - (j % c.k) + c.k = j + c.k
          BY <1>1
        <4> QED
          BY <1>5, <2>3, <4>1 DEF HeaderAt
      <3> QED
        BY <1>2, <2>1, <2>3, <3>1
    <2> QED
      BY <1>2, <2>1, <2>2, <2>3
  <1> QED
    BY <1>4, <1>5

----------------------------------------------------------------------------
(* Reading an entry from start to end.                                     *)

\* A posting is read.
LEMMA PostingRead ==
  ASSUME NEW e \in Entries, NEW h \in Headers, NEW lv \in {1, 2, 3}, NEW c, c = ParamsOf(e, h, lv),
         NEW codes, NEW place, Layout(codes, e, lv, c, place), NEW j \in 0 .. (Len(e.docs) - 1),
         NEW junk, NEW s, ReadTo(s, e, lv, c, place, junk, j)
  PROVE  ReadTo(ReadStep(codes, s, j, lv, Len(e.docs), c, junk), e, lv, c, place, junk, j + 1)
  <1> DEFINE P == Len(e.docs)
  <1>1. c.k \in Nat /\ P \in Nat \ {0} /\ j \in Nat /\ j + 1 \in 1 .. P
    BY EntryFacts, ParamFacts
  <1>2. PICK r, last, tt, n, u :
          /\ r = IF HeaderAt(j, P, c.k) THEN Headed(codes, s, c) ELSE s
          /\ last = LastOfBlock(j, P, c.k)
          /\ tt = GapCode(place, e, c, j)
          /\ n = j + 1
          /\ u = ReadStep(codes, s, j, lv, P, c, junk)
    OBVIOUS
  <1>3. /\ r \in Reading(junk) /\ r.t = tt + 1 /\ r.doc_num = D(e, j)
        /\ r.ii = s.ii /\ r.bits = s.bits
        /\ c.k > 0 /\ j - (j % c.k) + c.k < P => r.next_mjr_dn = D(e, j - (j % c.k) + c.k)
        /\ last => r.next_mjr_dn = D(e, n)
    BY <1>2, HeadRead
  <1>4. Indexed(codes, e, lv, c, place, j) /\ Laid(codes, e, lv, c, place, j)
    BY LayoutIndexed
  <1>5. u = ReadPosting(codes, r, lv, c, last, junk)
    <2>1. s.ok \in {TRUE} /\ r.ok \in {TRUE}
      BY <1>3, Zenon DEF ReadTo, Reading
    <2> QED
      BY <1>2, <2>1, Zenon DEF ReadStep
  <1>6. PICK gap, cnt, x : gap = Gap(e, n) /\ cnt = e.counts[n] /\ x = D(e, j)
    OBVIOUS
  <1>7. /\ gap \in Nat \ {0} /\ cnt \in Nat \ {0} /\ x \in Nat /\ D(e, n) = x + gap
        /\ D(e, n) \in Nat /\ D(e, n) = e.docs[n]
    <2>1. n \in 1 .. P /\ j \in 0 .. P /\ n - 1 = j /\ n \in 0 .. P
      BY <1>1, <1>2
    <2>2. /\ D(e, j) \in 0 .. num_of_docs /\ D(e, n) \in 0 .. num_of_docs /\ num_of_docs \in Nat
          /\ Gap(e, n) \in Nat \ {0} /\ D(e, n) = e.docs[n]
      BY <2>1, GapFacts
    <2>3. Gap(e, n) = D(e, n) - D(e, j)
      BY <2>1 DEF Gap
    <2>4. PICK y : y = D(e, n)
      OBVIOUS
    <2>5. cnt \in Nat \ {0}
      <3>1. e.counts[n] \in 1 .. (Shl(MaxLog) - 1) /\ Shl(MaxLog) \in Nat
        BY <2>1, EntryFacts, GapFacts
      <3> QED
        BY <1>6, <3>1
    <2>6. gap \in Nat \ {0} /\ x \in Nat /\ y \in Nat /\ gap = y - x
      BY <1>6, <2>2, <2>3, <2>4
    <2>7. y = x + gap
      BY ONLY <2>6
    <2> QED
      BY <2>2, <2>4, <2>5, <2>6, <2>7
  <1>8. PICK doc, count, t2 : /\ doc = IF last THEN r.next_mjr_dn ELSE r.doc_num + codes[r.t].x
                              /\ t2 = IF ~last THEN r.t + 1 ELSE r.t
                              /\ count = IF lv >= 2 THEN codes[t2].x ELSE 0
    OBVIOUS
  <1>9. /\ doc = D(e, n) /\ count = IF lv >= 2 THEN cnt ELSE 0
        /\ ~last => r.t \in DOMAIN codes /\ codes[r.t].b = c.blk
        /\ lv >= 2 => t2 \in DOMAIN codes /\ codes[t2].b = 0
        /\ place[n].t + 1 = IF lv >= 2 THEN t2 + 1 ELSE t2
        /\ t2 \in Nat
    <2>1. DOMAIN codes = 1 .. Len(codes) /\ tt \in Nat
      BY <1>2, <1>4, Zenon DEF Indexed
    <2>2. ASSUME ~last
          PROVE  r.t \in DOMAIN codes /\ codes[r.t].b = c.blk /\ codes[r.t].x = gap
      <3>1. tt + 1 \in 1 .. Len(codes)
        BY <1>2, <1>4, <2>2, Zenon DEF Indexed
      <3>2. codes[tt + 1] = [at |-> place[j].body, b |-> c.blk, x |-> Gap(e, j + 1)]
        BY <1>2, <1>4, <2>2, Zenon DEF Laid, GapCode
      <3>3. codes[tt + 1].b = c.blk /\ codes[tt + 1].x = gap
        BY <1>2, <1>6, <3>2
      <3> QED
        BY <1>3, <2>1, <3>1, <3>3
    <2>3. doc = D(e, n)
      <3>1. CASE last
        BY <1>3, <1>8, <3>1
      <3>2. CASE ~last
        <4>1. doc = x + gap
          BY <1>3, <1>6, <1>8, <2>2, <3>2
        <4> QED
          BY <1>7, <4>1
      <3> QED
        BY <3>1, <3>2
    <2>4. t2 = IF last THEN tt + 1 ELSE (tt + 1) + 1
      BY <1>3, <1>8
    <2>5. lv >= 2 => t2 = place[n].t /\ t2 \in 1 .. Len(codes)
      <3>1. CASE last
        BY <1>2, <1>4, <2>4, <3>1, Zenon DEF Indexed
      <3>2. CASE ~last
        BY <1>2, <1>4, <2>4, <3>2, Zenon DEF Indexed
      <3> QED
        BY <3>1, <3>2
    <2>6. ~(lv >= 2) => place[n].t + 1 = t2
      <3>1. CASE last
        BY <1>2, <1>4, <2>4, <3>1, Zenon DEF Indexed
      <3>2. CASE ~last
        BY <1>2, <1>4, <2>4, <3>2, Zenon DEF Indexed
      <3> QED
        BY <3>1, <3>2
    <2>7. lv >= 2 => codes[t2].b = 0 /\ codes[t2].x = cnt
      <3> SUFFICES ASSUME lv >= 2 PROVE codes[t2].b = 0 /\ codes[t2].x = cnt
        OBVIOUS
      <3>1. PICK y : y = place[j].body + (IF last THEN 0 ELSE BblockLength(Gap(e, j + 1), c.blk))
        OBVIOUS
      <3>2. codes[place[j + 1].t] = [at |-> y, b |-> 0, x |-> e.counts[j + 1]]
        BY <1>2, <1>4, <3>1, Zenon DEF Laid
      <3>3. codes[t2] = [at |-> y, b |-> 0, x |-> cnt]
        BY <1>2, <1>6, <2>5, <3>2
      <3> QED
        BY <3>3
    <2>8. t2 \in Nat
      BY <2>1, <2>4
    <2> QED
      BY <1>8, <2>1, <2>2, <2>3, <2>5, <2>6, <2>7, <2>8
  <1>10. PICK new, len, tf : /\ len = BblockLength(gap, c.blk) /\ tf = Tf(e, lv, n)
           /\ new = [doc_num |-> doc, count |-> count, bits_so_far |-> r.bits,
                     count_bits |-> IF lv >= 2 THEN tf ELSE junk]
    OBVIOUS
  <1>11. doc - r.doc_num = gap
    BY <1>3, <1>6, <1>7, <1>9
  <1>12. lv >= 2 => GammaLength(count) = tf
    BY <1>6, <1>9, <1>10, Zenon DEF Tf
  <1>13. ~(lv >= 2) => tf = 0
    BY <1>10, Zenon DEF Tf
  <1>14. len \in Nat /\ tf \in Nat /\ tf = (IF lv >= 2 THEN tf ELSE 0)
    <2>1. c.blk \in Operand
      BY ParamFacts
    <2>2. len \in Nat
      BY <1>7, <1>10, <2>1, LengthPositive
    <2>3. tf \in Nat
      BY <1>1, <1>2, <1>10, TfFacts
    <2> QED
      BY <1>13, <2>2, <2>3
  <1>15. u = [r EXCEPT !.t = IF lv >= 2 THEN t2 + 1 ELSE t2, !.doc_num = doc,
                       !.bits = r.bits + len + tf, !.ii = Append(r.ii, new)]
    <2>1. PICK cbits, isgap : /\ cbits = IF lv >= 2 THEN GammaLength(count) ELSE 0
                              /\ isgap = ~last
      OBVIOUS
    <2>2. cbits = tf
      BY <1>12, <1>13, <2>1
    <2>3. /\ isgap => r.t \in DOMAIN codes /\ codes[r.t].b = c.blk
          /\ lv >= 2 => t2 \in DOMAIN codes /\ codes[t2].b = 0
          /\ t2 = IF isgap THEN r.t + 1 ELSE r.t
      BY <1>8, <1>9, <2>1
    <2>4. BblockLength(doc - r.doc_num, c.blk) = len
      BY <1>10, <1>11
    <2>5. u = [r EXCEPT !.t = IF lv >= 2 THEN t2 + 1 ELSE t2, !.doc_num = doc,
                        !.bits = r.bits + BblockLength(doc - r.doc_num, c.blk)
                                 + (IF lv >= 2 THEN GammaLength(count) ELSE 0),
                        !.ii = Append(r.ii, [doc_num |-> doc, count |-> count,
                                  bits_so_far |-> r.bits,
                                  count_bits |-> IF lv >= 2
                                     THEN IF lv >= 2 THEN GammaLength(count) ELSE 0 ELSE junk])]
      BY ONLY <1>5, <1>8, <1>9, <2>3, Zenon DEF ReadPosting
    <2>6. (IF lv >= 2 THEN IF lv >= 2 THEN GammaLength(count) ELSE 0 ELSE junk) =
            IF lv >= 2 THEN tf ELSE junk
      BY <1>12
    <2>7. (IF lv >= 2 THEN GammaLength(count) ELSE 0) = tf
      BY <2>1, <2>2
    <2> QED
      BY ONLY <1>10, <2>4, <2>5, <2>6, <2>7, Zenon
  <1>16. new \in Item(junk)
    <2>1. r.bits \in Nat /\ doc \in Nat /\ count \in Nat
      BY <1>3, <1>7, <1>9 DEF Reading
    <2> QED
      BY <1>10, <1>14, <2>1 DEF Item
  <1>17. PICK is \in Seq(Item(junk)) : is = s.ii
    BY <1>3 DEF Reading
  <1>18. PICK js \in Seq(Item(junk)) : js = Append(is, new)
    BY <1>16, AppendProperties
  <1>19. /\ Len(is) = j /\ Len(js) = n
         /\ \A q \in 1 .. j : js[q] = is[q]
         /\ js[n] = new
    <2>1. Len(is) = j
      BY <1>17, Zenon DEF ReadTo
    <2>2. Len(js) = Len(is) + 1 /\ (\A q \in 1 .. Len(is) : js[q] = is[q]) /\ js[Len(is) + 1] = new
      BY <1>16, <1>18, AppendProperties
    <2> QED
      BY <1>2, <2>1, <2>2
  <1>20. PICK t3, bits : t3 = (IF lv >= 2 THEN t2 + 1 ELSE t2) /\ bits = r.bits + len + tf
    OBVIOUS
  <1>21. t3 = place[n].t + 1 /\ t3 \in Nat /\ bits \in Nat /\ bits = s.bits + (len + tf)
    <2>1. r.bits \in Nat
      BY <1>3 DEF Reading
    <2> QED
      BY <1>3, <1>9, <1>14, <1>20, <2>1
  <1>22. u = [r EXCEPT !.t = t3, !.doc_num = doc, !.bits = bits, !.ii = js]
    BY ONLY <1>3, <1>15, <1>17, <1>18, <1>20, Zenon
  <1>23. doc \in Nat
    BY <1>7, <1>9
  <1>24. /\ u.t = t3 /\ u.doc_num = doc /\ u.bits = bits /\ u.ii = js
         /\ u.next_mjr_dn = r.next_mjr_dn /\ u \in Reading(junk)
    <2>1. /\ u.t = t3 /\ u.doc_num = doc /\ u.bits = bits /\ u.ii = js
          /\ u.next_mjr_dn = r.next_mjr_dn
      BY <1>3, <1>22 DEF Reading
    <2>2. u \in Reading(junk)
      BY <1>3, <1>18, <1>21, <1>22, <1>23 DEF Reading
    <2> QED
      BY <2>1, <2>2
  <1>25. \A q \in 1 .. n : ItemRight(js[q], e, lv, q, junk)
    <2> TAKE q \in 1 .. n
    <2>1. CASE q = n
      <3>1. r.bits \in Nat
        BY <1>3 DEF Reading
      <3>2. new.doc_num = doc /\ new.count = count /\ new.bits_so_far = r.bits
            /\ new.count_bits = IF lv >= 2 THEN tf ELSE junk
        BY <1>10
      <3> QED
        BY <1>6, <1>7, <1>9, <1>10, <1>19, <2>1, <3>1, <3>2, Zenon DEF ItemRight
    <2>2. CASE q # n
      <3>1. q \in 1 .. j
        BY <1>2, <2>2
      <3>2. ItemRight(s.ii[q], e, lv, q, junk)
        BY <3>1, Zenon DEF ReadTo
      <3> QED
        BY <1>17, <1>19, <3>1, <3>2
    <2> QED
      BY <2>1, <2>2
  <1>26. Bits(e, lv, c, n) = len + tf /\ Bits(e, lv, c, n) \in Nat
    BY <1>6, <1>10, <1>14 DEF Bits
  <1>27. new.bits_so_far = s.bits
    BY <1>3, <1>10
  <1>28. \A q \in 1 .. (n - 1) : js[q + 1].bits_so_far = js[q].bits_so_far + Bits(e, lv, c, q)
    <2> TAKE q \in 1 .. (n - 1)
    <2>1. q \in 1 .. j /\ j > 0 /\ n - 1 = j
      BY <1>1, <1>2
    <2>2. CASE q = j
      <3>1. s.bits = s.ii[j].bits_so_far + Bits(e, lv, c, j)
        BY <2>1, Zenon DEF ReadTo
      <3>2. js[q + 1] = new /\ js[q] = s.ii[j]
        BY <1>2, <1>17, <1>19, <2>1, <2>2
      <3> QED
        BY <1>27, <2>2, <3>1, <3>2
    <2>3. CASE q # j
      <3>1. q \in 1 .. (j - 1) /\ q + 1 \in 1 .. j
        BY <1>1, <2>1, <2>3
      <3>2. s.ii[q + 1].bits_so_far = s.ii[q].bits_so_far + Bits(e, lv, c, q)
        BY <3>1, Zenon DEF ReadTo
      <3> QED
        BY <1>17, <1>19, <2>1, <3>1, <3>2
    <2> QED
      BY <2>2, <2>3
  <1>29. js[1].bits_so_far = 0 /\ u.bits = js[n].bits_so_far + Bits(e, lv, c, n)
    <2>1. js[1].bits_so_far = 0
      <3>1. CASE j = 0
        <4>1. s.bits = 0
          BY <3>1, Zenon DEF ReadTo
        <4>2. js[1] = new
          BY <1>2, <1>19, <3>1
        <4> QED
          BY <1>27, <4>1, <4>2
      <3>2. CASE j # 0
        <4>1. j > 0 /\ 1 \in 1 .. j
          BY <1>1, <3>2
        <4>2. s.ii[1].bits_so_far = 0
          BY <4>1, Zenon DEF ReadTo
        <4> QED
          BY <1>17, <1>19, <4>1, <4>2
      <3> QED
        BY <3>1, <3>2
    <2> QED
      BY <1>19, <1>21, <1>24, <1>26, <1>27, <2>1
  <1>30. ASSUME c.k > 0, n % c.k # 0, n - (n % c.k) + c.k < P
         PROVE  u.next_mjr_dn = D(e, n - (n % c.k) + c.k)
    <2>1. PICK k \in Nat \ {0} : k = c.k
      BY <1>1, <1>30
    <2>2. PICK m, z : m = j % k /\ z = j - (j % k)
      OBVIOUS
    <2>3. InBlock(k, j, m, z)
      BY <1>1, <2>2, BlockIs, Zenon
    <2>4. m # k - 1
      BY <1>2, <1>30, <2>1, <2>3, Zenon DEF InBlock
    <2>5. n % k = m + 1 /\ n - (m + 1) = z
      BY <1>2, <2>3, <2>4, Zenon DEF InBlock
    <2>6. n - (n % c.k) = z /\ j - (j % c.k) = z
      BY <2>1, <2>2, <2>5
    <2> QED
      BY <1>3, <1>24, <1>30, <2>6
  <1>31. u.t = place[n].t + 1 /\ u.doc_num = D(e, n) /\ Len(u.ii) = n /\ n > 0 /\ n # 0
    BY <1>1, <1>2, <1>9, <1>19, <1>21, <1>24
  <1>32. ReadTo(u, e, lv, c, place, junk, n)
    BY ONLY <1>24, <1>25, <1>28, <1>29, <1>30, <1>31, Zenon DEF ReadTo
  <1> QED
    BY <1>2, <1>32, Zenon

\* What is read is the entry.
Gives(s, e, lv) ==
  /\ s.ok
  /\ PostingsOf(s.ii) = [j \in DOMAIN e.docs |->
                            [doc |-> e.docs[j], tf |-> IF lv >= 2 THEN e.counts[j] ELSE 0]]

\* Reading an entry that is laid out gives its postings, whatever the skips.
LEMMA ReadGives ==
  ASSUME NEW e \in Entries, NEW h \in Headers, NEW lv \in {1, 2, 3}, NEW c, c = ParamsOf(e, h, lv),
         NEW codes, Laying(codes, e, lv, c), NEW junk,
         NEW s, s = ReadEntry(codes, lv, Len(e.docs), c, junk)
  PROVE  /\ Gives(s, e, lv)
         /\ lv >= 2 => \A hh \in Headers : Right(s.ii, e, lv, ParamsOf(e, hh, lv))
  <1> DEFINE P == Len(e.docs)
  <1>1. P \in Nat \ {0} /\ DOMAIN e.docs = 1 .. P
    BY EntryFacts
  <1>2. PICK place : Layout(codes, e, lv, c, place)
    BY Zenon DEF Laying
  <1>3. PICK f : /\ f[0] = Start
                 /\ \A j \in 1 .. P : f[j] = ReadStep(codes, f[j - 1], j - 1, lv, P, c, junk)
                 /\ s = f[P]
    <2>1. PICK n : n \in Nat /\ n = P
      BY <1>1
    <2>2. n \in Nat
      BY <2>1
    <2>3. PICK f : ReadRun(f, codes, lv, n, c, junk, n) /\ ReadEntry(codes, lv, n, c, junk) = f[n]
      <3>1. ReadRan(codes, lv, n, c, junk)
        BY ONLY <2>2, ReadIs
      <3> QED
        BY ONLY <3>1, Zenon DEF ReadRan
    <2> QED
      BY ONLY <2>1, <2>3, s = ReadEntry(codes, lv, P, c, junk), Zenon DEF ReadRun
  <1> DEFINE G == {j \in Nat : j <= P => ReadTo(f[j], e, lv, c, place, junk, j)}
  <1>4. 0 \in G
    <2>1. place[0].t = 0 /\ D(e, 0) = 0
      BY <1>2, Zenon DEF Layout, D
    <2>2. f[0] \in Reading(junk) /\ f[0].t = 1 /\ f[0].doc_num = 0 /\ f[0].bits = 0
          /\ f[0].ii = <<>>
      BY <1>3, EmptySeq DEF Start, Reading
    <2>3. Len(f[0].ii) = 0
      BY <2>2, EmptySeq
    <2>4. c.k > 0 => 0 % c.k = 0
      <3> SUFFICES ASSUME c.k > 0 PROVE 0 % c.k = 0
        OBVIOUS
      <3>1. c.k \in Nat \ {0}
        BY ParamFacts
      <3> QED
        BY <3>1, ModFacts
    <2>5. f[0].t = place[0].t + 1 /\ ~(0 > 0) /\ (\A n \in 1 .. 0 : FALSE) /\ (\A n \in 1 .. (0 - 1) : FALSE)
      BY <2>1, <2>2
    <2>6. ReadTo(f[0], e, lv, c, place, junk, 0)
      BY ONLY <2>1, <2>2, <2>3, <2>4, <2>5, Zenon DEF ReadTo
    <2> QED
      BY <2>6
  <1>5. ASSUME NEW j \in Nat, j \in G PROVE j + 1 \in G
    <2> SUFFICES ASSUME j + 1 <= P PROVE ReadTo(f[j + 1], e, lv, c, place, junk, j + 1)
      OBVIOUS
    <2>1. ReadTo(f[j], e, lv, c, place, junk, j)
      BY <1>1, <1>5
    <2>2. j \in 0 .. (P - 1) /\ j + 1 \in 1 .. P /\ (j + 1) - 1 = j
      BY <1>1
    <2>3. f[j + 1] = ReadStep(codes, f[j], j, lv, P, c, junk)
      BY <1>3, <2>2
    <2> HIDE DEF G
    <2>4. ReadTo(ReadStep(codes, f[j], j, lv, P, c, junk), e, lv, c, place, junk, j + 1)
      BY <1>2, <2>1, <2>2, PostingRead
    <2> QED
      BY <2>3, <2>4
  <1>6. ReadTo(s, e, lv, c, place, junk, P)
    <2>1. Nat \subseteq G
      <3> HIDE DEF G
      <3> QED
        BY <1>4, <1>5, NatInductionOnSet
    <2>2. P \in G
      BY <1>1, <2>1
    <2>3. ReadTo(f[P], e, lv, c, place, junk, P)
      BY <1>1, <2>2
    <2> QED
      BY <1>3, <2>3
  <1> HIDE DEF G
  <1>7. PICK is : is = s.ii
    OBVIOUS
  <1>8. /\ is \in Seq(Item(junk)) /\ Len(is) = P /\ DOMAIN is = 1 .. P
        /\ \A n \in 1 .. P : ItemRight(is[n], e, lv, n, junk)
        /\ \A n \in 1 .. (P - 1) : is[n + 1].bits_so_far = is[n].bits_so_far + Bits(e, lv, c, n)
        /\ is[1].bits_so_far = 0
        /\ s.ok \in {TRUE}
    <2>1. s \in Reading(junk)
      BY <1>6, Zenon DEF ReadTo
    <2>2. is \in Seq(Item(junk)) /\ s.ok \in {TRUE}
      BY <1>7, <2>1 DEF Reading
    <2>3. P > 0
      BY <1>1
    <2>4. /\ Len(is) = P
          /\ \A n \in 1 .. P : ItemRight(is[n], e, lv, n, junk)
          /\ \A n \in 1 .. (P - 1) : is[n + 1].bits_so_far = is[n].bits_so_far + Bits(e, lv, c, n)
          /\ is[1].bits_so_far = 0
      BY ONLY <1>6, <1>7, <2>3, Zenon DEF ReadTo
    <2>5. DOMAIN is = 1 .. Len(is)
      BY <2>2, LenProperties
    <2> QED
      BY <2>2, <2>4, <2>5
  <1>9. PostingsOf(is) = [j \in DOMAIN e.docs |->
                           [doc |-> e.docs[j], tf |-> IF lv >= 2 THEN e.counts[j] ELSE 0]]
    <2>1. \A j \in 1 .. P : /\ is[j].doc_num = e.docs[j]
                           /\ is[j].count = IF lv >= 2 THEN e.counts[j] ELSE 0
      BY <1>8, Zenon DEF ItemRight
    <2>2. [j \in 1 .. P |-> [doc |-> is[j].doc_num, tf |-> is[j].count]] =
            [j \in 1 .. P |-> [doc |-> e.docs[j], tf |-> IF lv >= 2 THEN e.counts[j] ELSE 0]]
      BY <2>1, Zenon
    <2> QED
      BY <1>1, <1>8, <2>2, Zenon DEF PostingsOf
  <1>10. ASSUME lv >= 2, NEW hh \in Headers PROVE Right(is, e, lv, ParamsOf(e, hh, lv))
    <2>1. PICK d : d = ParamsOf(e, hh, lv)
      OBVIOUS
    <2>2. d.blk = c.blk
      BY <2>1, ParamFacts
    <2>3. \A n \in 1 .. P : /\ is[n].doc_num = e.docs[n] /\ is[n].count = e.counts[n]
                           /\ is[n].bits_so_far \in Nat /\ is[n].count_bits = Tf(e, lv, n)
      BY <1>8, <1>10, Zenon DEF ItemRight
    <2>4. \A n \in 1 .. (P - 1) :
            is[n + 1].bits_so_far =
              is[n].bits_so_far + (BblockLength(Gap(e, n), d.blk) + Tf(e, lv, n))
      BY <1>8, <2>2, Zenon DEF Bits
    <2> QED
      BY ONLY <1>8, <2>1, <2>3, <2>4, Zenon DEF Right
  <1>11. Gives(s, e, lv)
    <2>1. s.ok \in {TRUE}
      BY <1>8
    <2>2. s.ok
      BY ONLY <2>1, Zenon
    <2> QED
      BY ONLY <1>7, <1>9, <2>2, Zenon DEF Gives
  <1> QED
    BY <1>7, <1>10, <1>11

----------------------------------------------------------------------------
(* The file.                                                               *)

\* There are counts, or mg_invf_rebuild is never run: at level 1 it measures the
\* blocks with memory that it never wrote.
HasCounts == Levels \subseteq {2, 3} \/ MaxRebuilds = 0

FileLaid(h, codes) ==
  /\ h \in Headers
  /\ level >= 2 \/ h = NoSkips
  /\ \A w \in Words : Laying(codes[w], lists[w], level, ParamsOf(lists[w], h, level))

FileOK ==
  /\ level \in Levels /\ lists \in [Words -> Entries] /\ rebuilds \in 0 .. MaxRebuilds
  /\ MaxRebuilds \in Nat
  /\ FileLaid(ifh, invf)
  /\ org = NoFile \/ FileLaid(org.ifh, org.invf)

\* What BooleanAssumption says of the bounds.
LEMMA LevelType == Levels \subseteq {1, 2, 3} /\ MaxRebuilds \in Nat /\ MaxOps \in Nat
  BY BooleanAssumption

\* The parameters of a word are those of its entry.
LEMMA ParametersAre ==
  ASSUME NEW h, NEW w
  PROVE  Parameters(h, w) = ParamsOf(lists[w], h, level) /\ Blks(w) = Parameters(ifh, w)
         /\ p(w) = Len(lists[w].docs)
  BY Zenon DEF Parameters, ParamsOf, p, CountOf, Blks

\* A file without skips has no blocks.
LEMMA NoSkipsIs ==
  ASSUME NEW n \in Nat
  PROVE  SkipSize(NoSkips, n) = 0 /\ NoSkips \in Headers
  BY DEF SkipSize, NoSkips, Headers

\* The file of the inversion.
LEMMA PlainLaid ==
  ASSUME NEW lv \in {1, 2, 3}, NEW ls, NEW w, ls[w] \in Entries
  PROVE  Laying(Plain(lv, ls, w), ls[w], lv, ParamsOf(ls[w], NoSkips, lv))
  <1>1. PICK e \in Entries : e = ls[w]
    OBVIOUS
  <1>2. PICK P : P = Len(e.docs)
    OBVIOUS
  <1>3. P \in Nat \ {0} /\ DOMAIN e.docs = 1 .. P /\ DOMAIN e.counts = 1 .. P
    BY <1>2, EntryFacts
  <1>4. PICK c : c = ParamsOf(e, NoSkips, lv)
    OBVIOUS
  <1>5. c.k = 0 /\ c = CalcBlks(NoSkips, lv, P, 0)
    <2>1. SkipSize(NoSkips, P) = 0
      BY <1>3, NoSkipsIs
    <2>2. \A x : CalcBlks(NoSkips, lv, P, x) =
                   [k |-> 0, blk |-> BblockInit(static_num_of_docs, P), dn_blk |-> 0, len_blk |-> 0]
      BY <2>1, Zenon DEF CalcBlks
    <2>3. c = CalcBlks(NoSkips, lv, P, Total(e.counts))
      BY <1>2, <1>4, Zenon DEF ParamsOf
    <2>4. c = [k |-> 0, blk |-> BblockInit(static_num_of_docs, P), dn_blk |-> 0, len_blk |-> 0]
      BY <2>2, <2>3, Zenon
    <2>5. c = CalcBlks(NoSkips, lv, P, 0)
      BY <2>2, <2>4, Zenon
    <2> QED
      BY <2>4, <2>5
  <1>6. PICK ii : ii = [j \in 1 .. P |-> [doc_num |-> e.docs[j], count |-> e.counts[j]]]
    OBVIOUS
  <1>7. Len(ii) = P
    BY <1>3, <1>6
  <1>8. Right(ii, e, lv, c)
    <2>1. \A j \in 1 .. P : ii[j].doc_num = e.docs[j] /\ ii[j].count = e.counts[j]
      BY <1>6
    <2>2. ~(c.k > 0)
      BY <1>5
    <2> QED
      BY <1>2, <1>7, <2>1, <2>2, Zenon DEF Right
  <1>9. Plain(lv, ls, w) = WriteEntry(ii, lv, c).codes
    <2>1. [j \in DOMAIN e.docs |-> [doc_num |-> e.docs[j], count |-> e.counts[j]]] = ii
      BY <1>3, <1>6, Zenon
    <2> QED
      BY <1>1, <1>2, <1>5, <2>1, Zenon DEF Plain
  <1>10. Laying(WriteEntry(ii, lv, c).codes, e, lv, c)
    BY <1>3, <1>4, <1>5, <1>8, NoSkipsIs, WriteLays, ZenonT(60)
  <1> QED
    BY <1>1, <1>4, <1>9, <1>10, Zenon

\* The first file is laid out right.
LEMMA FileInit ==
  ASSUME Init
  PROVE  FileOK
  <1>1. level \in Levels /\ level \in {1, 2, 3} /\ lists \in [Words -> Entries] /\ ifh = NoSkips
        /\ org = NoFile /\ rebuilds = 0 /\ invf = [w \in Words |-> Plain(level, lists, w)]
    BY LevelType DEF Init
  <1>2. ASSUME NEW w \in Words PROVE Laying(invf[w], lists[w], level, ParamsOf(lists[w], ifh, level))
    <2>1. lists[w] \in Entries /\ invf[w] = Plain(level, lists, w)
      BY <1>1
    <2>2. Laying(Plain(level, lists, w), lists[w], level, ParamsOf(lists[w], NoSkips, level))
      BY <1>1, <2>1, PlainLaid
    <2> QED
      BY <1>1, <2>1, <2>2, Zenon
  <1>3. NoSkips \in Headers /\ rebuilds \in 0 .. MaxRebuilds
    BY <1>1, LevelType DEF Headers
  <1> QED
    BY <1>1, <1>2, <1>3, LevelType, Zenon DEF FileOK, FileLaid

\* A rebuild gives every word an entry with the same postings.
LEMMA RebuildLays ==
  ASSUME HasCounts, FileOK, NEW h \in Skips, NEW junk, Rebuild(h, junk)
  PROVE  FileOK' /\ pc' = pc
  <1>1. PICK in : in = IF org = NoFile THEN [ifh |-> ifh, invf |-> invf] ELSE org
    OBVIOUS
  <1>2. FileLaid(in.ifh, in.invf)
    <2>1. CASE org = NoFile
      <3>1. in.ifh = ifh /\ in.invf = invf
        BY <1>1, <2>1
      <3> QED
        BY <3>1, Zenon DEF FileOK
    <2>2. CASE org # NoFile
      BY <1>1, <2>2, Zenon DEF FileOK
    <2> QED
      BY <2>1, <2>2
  <1>3. level \in {2, 3} /\ level \in {1, 2, 3} /\ level >= 2 /\ h \in Headers /\ lists \in [Words -> Entries]
    <2>1. MaxRebuilds # 0
      BY LevelType DEF Rebuild, FileOK
    <2>2. level \in Levels /\ Levels \subseteq {2, 3} /\ lists \in [Words -> Entries]
      BY <2>1 DEF FileOK, HasCounts
    <2> QED
      BY <2>2 DEF Headers
  <1> DEFINE ii(w) == ReadEntry(in.invf[w], level, p(w), Parameters(in.ifh, w), junk).ii
             out == [w \in Words |-> WriteEntry(ii(w), level, Parameters(h, w))]
  <1>4. ASSUME NEW w \in Words
        PROVE  out[w].ok /\ Laying(out[w].codes, lists[w], level, Parameters(h, w))
    <2>1. PICK e \in Entries : e = lists[w]
      BY <1>3
    <2>2. PICK c, s, d : /\ c = ParamsOf(e, in.ifh, level)
                         /\ s = ReadEntry(in.invf[w], level, Len(e.docs), c, junk)
                         /\ d = ParamsOf(e, h, level)
      OBVIOUS
    <2>3. in.ifh \in Headers /\ Laying(in.invf[w], e, level, c)
      BY <1>2, <2>1, <2>2, ParametersAre, Zenon DEF FileLaid
    <2>4. Right(s.ii, e, level, d)
      BY <1>3, <2>2, <2>3, ReadGives
    <2>5. WriteEntry(s.ii, level, d).ok /\ Laying(WriteEntry(s.ii, level, d).codes, e, level, d)
      BY <1>3, <2>2, <2>4, WriteLays
    <2>6. out[w] = WriteEntry(s.ii, level, d) /\ Parameters(h, w) = d
      BY <2>1, <2>2, ParametersAre, Zenon
    <2> QED
      BY <2>1, <2>5, <2>6, Zenon
  <1>5. /\ org' = in /\ ifh' = h /\ invf' = [w \in Words |-> out[w].codes] /\ pc' = pc
        /\ level' = level /\ lists' = lists /\ rebuilds' = rebuilds + 1 /\ rebuilds < MaxRebuilds
    <2>1. \A w \in Words : out[w].ok
      BY <1>4
    <2>2. /\ org' = in /\ ifh' = h /\ level' = level /\ lists' = lists
          /\ rebuilds' = rebuilds + 1 /\ rebuilds < MaxRebuilds
          /\ IF \A w \in Words : out[w].ok
             THEN invf' = [w \in Words |-> out[w].codes] /\ pc' = pc
             ELSE invf' = invf /\ pc' = "stopped"
      BY <1>1, Zenon DEF Rebuild
    <2> HIDE DEF out
    <2> QED
      BY <2>1, <2>2, Zenon
  <1> HIDE DEF ii, out
  <1>6. ASSUME NEW w \in Words PROVE Laying(invf'[w], lists'[w], level', ParamsOf(lists'[w], ifh', level'))
    <2>1. invf'[w] = out[w].codes
      BY <1>5, Zenon
    <2>2. Laying(out[w].codes, lists[w], level, ParamsOf(lists[w], h, level))
      BY <1>4, ParametersAre, Zenon
    <2> QED
      BY <1>5, <2>1, <2>2, Zenon
  <1>7. ASSUME NEW w \in Words
        PROVE  Laying((org'.invf)[w], lists'[w], level', ParamsOf(lists'[w], org'.ifh, level'))
    <2>1. Laying(in.invf[w], lists[w], level, ParamsOf(lists[w], in.ifh, level))
      BY <1>2, Zenon DEF FileLaid
    <2> QED
      BY <1>5, <2>1, Zenon
  <1>8. FileLaid(ifh, invf)'
    BY <1>3, <1>5, <1>6, Zenon DEF FileLaid
  <1>9. FileLaid(org.ifh, org.invf)'
    <2>1. org'.ifh \in Headers /\ level' >= 2
      BY <1>2, <1>3, <1>5, Zenon DEF FileLaid
    <2> QED
      BY <1>7, <2>1, Zenon DEF FileLaid
  <1>10. rebuilds' \in 0 .. MaxRebuilds /\ level' \in Levels /\ lists' \in [Words -> Entries]
    BY <1>5, LevelType DEF FileOK
  <1> QED
    BY <1>5, <1>8, <1>9, <1>10, LevelType, Zenon DEF FileOK

\* It stays so while nothing is written.
LEMMA FileKept ==
  ASSUME FileOK, UNCHANGED file
  PROVE  FileOK'
  BY Zenon DEF FileOK, FileLaid, file

\* mg_invf_rebuild keeps what is in the file.
LEMMA RebuildKept ==
  ASSUME FileOK
  PROVE  RebuildKeeps
  <1>1. ASSUME NEW w \in Words
        PROVE  Gives(ReadEntry(invf[w], level, p(w), Blks(w), 0), lists[w], level)
    <2>1. lists[w] \in Entries /\ ifh \in Headers /\ level \in {1, 2, 3}
          /\ Laying(invf[w], lists[w], level, ParamsOf(lists[w], ifh, level))
      BY LevelType DEF FileOK, FileLaid
    <2>2. Gives(ReadEntry(invf[w], level, Len(lists[w].docs), ParamsOf(lists[w], ifh, level), 0), lists[w], level)
      BY <2>1, ReadGives
    <2> QED
      BY <2>2, ParametersAre, Zenon
  <1> QED
    BY <1>1, Zenon DEF RebuildKeeps, Gives

----------------------------------------------------------------------------
(* GetDocsOp: where it is in the entry.                                    *)

\* A code of x with parameter b begins at bit at.
Found(at, b, x) == CodeAt(at, b) # {} /\ CodeOf(at, b).x = x

\* A code that is there is the one found at its place.
LEMMA CodeFound ==
  ASSUME NEW codes, codes = invf[word], DOMAIN codes = 1 .. Len(codes), Len(codes) \in Nat,
         \A m \in 1 .. Len(codes) : codes[m].at \in Nat,
         Ascending(codes), NEW n \in 1 .. Len(codes),
         NEW at, NEW b, NEW x, codes[n] = [at |-> at, b |-> b, x |-> x]
  PROVE  Found(at, b, x)
  <1>1. codes[n].at = at /\ codes[n].b = b /\ codes[n].x = x
    <2>1. codes[n] = [at |-> at, b |-> b, x |-> x]
      OBVIOUS
    <2>2. PICK d : d = codes[n]
      OBVIOUS
    <2>3. d = [at |-> at, b |-> b, x |-> x]
      BY ONLY <2>1, <2>2, Zenon
    <2>4. d.at = at /\ d.b = b /\ d.x = x
      BY ONLY <2>3
    <2> QED
      BY ONLY <2>2, <2>4, Zenon
  <1>2. codes[n] \in CodeAt(at, b)
    BY <1>1 DEF CodeAt, ToSet
  <1>3. ASSUME NEW d \in CodeAt(at, b) PROVE d = codes[n]
    <2>1. PICK m \in 1 .. Len(codes) : d = codes[m] /\ codes[m].at = at
      BY <1>3 DEF CodeAt, ToSet
    <2>2. ~(m < n) /\ ~(n < m)
      BY <1>1, <2>1, Zenon, SMT DEF Ascending
    <2> QED
      BY <2>1, <2>2
  <1>4. CodeOf(at, b) \in CodeAt(at, b)
    BY <1>2, Zenon DEF CodeOf
  <1> QED
    BY <1>1, <1>2, <1>3, <1>4, Zenon DEF Found

\* The posting, from 0, that GetDocsOp knows the document of before it has read
\* up to there: the end of a block.
Boundary(k) == IF i % k = 0 /\ pc # "posting" THEN i ELSE i - (i % k) + k

\* GetDocsOp before posting i, or before its header, or behind that.
At(e, c, place) ==
  LET b == Boundary(c.k)
  IN /\ pc \in {"loop", "header", "posting"}
     /\ i \in 0 .. Len(e.docs) /\ CurrDoc = D(e, i)
     /\ pc # "loop" => i < Len(e.docs)
     /\ pc = "header" => c.k > 0 /\ i % c.k = 0
     /\ pos = IF pc = "posting" THEN place[i].body ELSE place[i].at
     /\ block_counter = IF c.k = 0 THEN -1 ELSE c.k - 1 - (i % c.k)
     /\ c.k = 0 => next_doc_num = 0
     /\ c.k > 0 /\ b < Len(e.docs) =>
          next_i = b /\ next_start = place[b].at /\ next_doc_num = D(e, b)
     /\ c.k > 0 /\ ~(b < Len(e.docs)) => next_doc_num = -1

\* What GetDocsOp works on.
Given(e, h, c, codes, place) ==
  /\ level \in {1, 2, 3} /\ word \in Words /\ e \in Entries /\ h \in Headers
  /\ e = lists[word] /\ c = ParamsOf(e, h, level) /\ c = Blks(word)
  /\ codes = invf[word] /\ Layout(codes, e, level, c, place)

\* What a given entry and its layout are made of.
LEMMA GivenFacts ==
  ASSUME NEW e, NEW h, NEW c, NEW codes, NEW place, Given(e, h, c, codes, place)
  PROVE  /\ c.k \in Nat /\ p(word) = Len(e.docs) /\ Len(e.docs) \in Nat \ {0}
         /\ DOMAIN codes = 1 .. Len(codes) /\ Len(codes) \in Nat
         /\ \A m \in 1 .. Len(codes) : codes[m].at \in Nat
         /\ Ascending(codes) /\ place[0].at = 0
         /\ \A j \in 0 .. Len(e.docs) : place[j].at \in Nat /\ place[j].body \in Nat
         /\ \A j \in 0 .. Len(e.docs) : D(e, j) \in 0 .. num_of_docs
         /\ \A m, n \in 0 .. Len(e.docs) : m < n => D(e, m) < D(e, n)
         /\ num_of_docs \in Nat
  <1>1. /\ level \in {1, 2, 3} /\ word \in Words /\ e \in Entries /\ h \in Headers
        /\ e = lists[word] /\ c = ParamsOf(e, h, level) /\ c = Blks(word)
        /\ codes = invf[word] /\ codes \in Seq(Code) /\ Ascending(codes)
        /\ place \in Places(Len(e.docs), codes) /\ place[0].at = 0
    BY Zenon DEF Given, Layout
  <1>2. c.k \in Nat
    BY <1>1, ParamFacts
  <1>3. Len(e.docs) \in Nat \ {0}
    BY <1>1, EntryFacts
  <1>4. p(word) = Len(e.docs)
    BY <1>1, ParametersAre, Zenon
  <1>5. DOMAIN codes = 1 .. Len(codes) /\ Len(codes) \in Nat
        /\ \A m \in 1 .. Len(codes) : codes[m].at \in Nat
    <2>1. codes \in Seq(Code)
      BY <1>1
    <2>2. DOMAIN codes = 1 .. Len(codes) /\ Len(codes) \in Nat
          /\ \A m \in 1 .. Len(codes) : codes[m] \in Code
      BY ONLY <2>1
    <2>3. \A d \in Code : d.at \in Nat
      BY ONLY DEF Code
    <2> QED
      BY <2>2, <2>3, Zenon
  <1>6. \A j \in 0 .. Len(e.docs) : place[j].at \in Nat /\ place[j].body \in Nat
    BY <1>1, <1>3 DEF Places
  <1> QED
    BY <1>1, <1>2, <1>3, <1>4, <1>5, <1>6, GapFacts

----------------------------------------------------------------------------
(* GetDocsOp: a jump.                                                      *)

\* The boundary, for skips of k.
LEMMA BoundaryIs ==
  ASSUME NEW k \in Nat \ {0}, i \in Nat, NEW b, b = Boundary(k)
  PROVE  /\ b \in Nat /\ b % k = 0 /\ b >= i /\ b <= i + k
         /\ b = i => pc # "posting" /\ i % k = 0
         /\ ~(i % k = 0 /\ pc # "posting") => b = i - (i % k) + k
  <1>1. PICK r, z : r = i % k /\ z = i - r
    OBVIOUS
  <1>2. InBlock(k, i, r, z)
    BY <1>1, BlockIs
  <1>3. z \in Nat /\ z % k = 0 /\ z <= i /\ i < z + k /\ r \in 0 .. (k - 1) /\ z + r = i
    BY <1>2 DEF InBlock
  <1>4. (z + k) % k = 0
    BY <1>3, ModFacts
  <1>5. CASE i % k = 0 /\ pc # "posting"
    <2>1. b = i
      BY <1>5 DEF Boundary
    <2> QED
      BY <1>5, <2>1
  <1>6. CASE ~(i % k = 0 /\ pc # "posting")
    <2>1. b = i - (i % k) + k
      BY <1>6, Zenon DEF Boundary
    <2>2. b = z + k
      BY <1>1, <1>3, <2>1
    <2>3. b \in Nat /\ b >= i /\ b <= i + k /\ b # i
      BY <1>3, <2>2
    <2> QED
      BY <1>4, <1>6, <2>1, <2>2, <2>3
  <1> QED
    BY <1>5, <1>6

\* A jump to the next block.
Ahead(e, k) ==
  /\ i' \in i .. Len(e.docs) /\ i' % k = 0
  /\ i' = i => pc = "loop" /\ pos' = pos
  /\ CurrDoc' = D(e, i') /\ L[src + 1].doc > D(e, i')

\* A jump ends at the start of a later block.
LEMMA HopAt ==
  ASSUME NEW e, NEW h, NEW c, NEW codes, NEW place, Given(e, h, c, codes, place),
         At(e, c, place), Hop
  PROVE  At(e, c, place)' /\ Ahead(e, c.k)
  <1> DEFINE P == Len(e.docs)
             k == c.k
  <1>1. /\ k \in Nat /\ p(word) = P /\ P \in Nat \ {0}
        /\ \A j \in 0 .. P : place[j].at \in Nat /\ place[j].body \in Nat
        /\ \A j \in 0 .. P : D(e, j) \in 0 .. num_of_docs
    BY GivenFacts
  <1>2. c = Blks(word)
    BY Zenon DEF Given
  <1>3. /\ k > 0 /\ i + k < P /\ L[src + 1].doc > next_doc_num
        /\ i' = next_i /\ pos' = next_start /\ CurrDoc' = next_doc_num /\ block_counter' = k - 1
        /\ pc' = "header" /\ pc \in {"loop", "posting"}
        /\ next_i' = next_i /\ next_start' = next_start /\ next_doc_num' = next_doc_num
    BY <1>1, <1>2 DEF Hop, MaySkip, BehindBlock
  <1>4. i \in 0 .. P
    BY DEF At
  <1>5. k \in Nat \ {0} /\ i \in Nat
    BY <1>1, <1>3, <1>4
  <1>6. PICK b : b = Boundary(k)
    OBVIOUS
  <1>7. b \in Nat /\ b % k = 0 /\ b >= i /\ b <= i + k /\ (b = i => pc # "posting" /\ i % k = 0)
    BY <1>5, <1>6, BoundaryIs
  <1>8. b < P /\ b \in 0 .. P
    BY <1>1, <1>3, <1>5, <1>7
  <1>9. next_i = b /\ next_start = place[b].at /\ next_doc_num = D(e, b)
    BY <1>3, <1>6, <1>8, Zenon DEF At
  <1>10. Ahead(e, k)
    <2>1. i' \in i .. P /\ i' % k = 0 /\ CurrDoc' = D(e, i') /\ L[src + 1].doc > D(e, i')
      BY <1>1, <1>3, <1>5, <1>7, <1>8, <1>9
    <2>2. ASSUME i' = i PROVE pc = "loop" /\ pos' = pos
      <3>1. b = i /\ pc = "loop"
        BY <1>3, <1>7, <1>9, <2>2
      <3>2. pos = place[i].at
        BY <3>1, Zenon DEF At
      <3> QED
        BY <1>3, <1>9, <3>1, <3>2
    <2> QED
      BY <2>1, <2>2, Zenon DEF Ahead
  <1>11. Boundary(k)' = b
    <2>1. i' = b /\ i' % k = 0 /\ pc' # "posting"
      BY <1>3, <1>7, <1>9
    <2> QED
      BY <2>1, Zenon DEF Boundary
  <1>12. At(e, c, place)'
    <2>1. /\ pc' \in {"loop", "header", "posting"} /\ i' \in 0 .. P /\ CurrDoc' = D(e, i') /\ i' < P
          /\ i' % k = 0 /\ pc' = "header" /\ pos' = place[i'].at
          /\ block_counter' = k - 1 - (i' % k) /\ k # 0 /\ b < P /\ k > 0
          /\ next_i' = b /\ next_start' = place[b].at /\ next_doc_num' = D(e, b)
      BY <1>3, <1>5, <1>7, <1>8, <1>9
    <2>2. pc' # "posting"
      BY <2>1
    <2> QED
      BY <1>11, <2>1, <2>2, Zenon DEF At
  <1> QED
    BY <1>10, <1>12

----------------------------------------------------------------------------
(* GetDocsOp: the header of a block.                                       *)

\* What Header does, for the parameters of the word.
HeaderDone(c, here, headed, at2, at3, x, y) ==
  /\ UNCHANGED <<file, query, op, word, L, i, block_counter, CurrDoc, src, dest>>
  /\ headed /\ CodeAt(pos, c.dn_blk) # {} /\ CodeAt(at2, c.len_blk) # {} =>
       /\ next_doc_num' = next_doc_num + x /\ next_i' = next_i + c.k
       /\ next_start' = at3 + y /\ pos' = at3 /\ pc' = "posting"
  /\ ~headed =>
       /\ next_doc_num' = IF here THEN -1 ELSE next_doc_num
       /\ next_i' = next_i /\ next_start' = next_start /\ pos' = pos /\ pc' = "posting"

\* A header step, read field by field.
LEMMA HeaderDoes ==
  ASSUME Header, NEW c, c = Blks(word), NEW x, x = CodeOf(pos, c.dn_blk).x,
         NEW at2, at2 = pos + BblockLength(x, c.dn_blk),
         NEW y, y = CodeOf(at2, c.len_blk).x,
         NEW at3, at3 = at2 + BblockLength(y, c.len_blk),
         NEW here \in BOOLEAN, here <=> c.k > 0 /\ block_counter = c.k - 1,
         NEW headed \in BOOLEAN, headed <=> here /\ i + c.k < p(word)
  PROVE  HeaderDone(c, here, headed, at2, at3, x, y)
  BY Zenon DEF Header, HeaderDone, NextBlock

\* It is before a posting.
LEMMA HeaderBefore ==
  ASSUME NEW e, NEW h, NEW c, NEW codes, NEW place, Given(e, h, c, codes, place),
         At(e, c, place), Header
  PROVE  /\ i \in 0 .. (Len(e.docs) - 1) /\ pc # "posting" /\ pos = place[i].at
         /\ c.k > 0 => block_counter = c.k - 1 - (i % c.k)
         /\ i' = i /\ CurrDoc' = CurrDoc /\ block_counter' = block_counter /\ word' = word
         /\ UNCHANGED <<file, op, L, src, dest>>
  <1>1. c.k \in Nat /\ p(word) = Len(e.docs) /\ Len(e.docs) \in Nat \ {0}
    BY GivenFacts
  <1>2. pc = "header" \/ (pc = "loop" /\ ~Done)
    BY Zenon DEF Header
  <1>3. i' = i /\ CurrDoc' = CurrDoc /\ block_counter' = block_counter /\ word' = word
        /\ UNCHANGED <<file, op, L, src, dest>>
    BY DEF Header
  <1>4. /\ i \in 0 .. Len(e.docs) /\ (pc # "loop" => i < Len(e.docs))
        /\ pos = (IF pc = "posting" THEN place[i].body ELSE place[i].at)
        /\ block_counter = (IF c.k = 0 THEN -1 ELSE c.k - 1 - (i % c.k))
    BY Zenon DEF At
  <1>5. pc = "loop" => i < Len(e.docs)
    BY <1>1, <1>2, <1>4 DEF Done
  <1>6. pc # "posting" /\ i < Len(e.docs)
    BY <1>2, <1>4, <1>5
  <1>7. i \in 0 .. (Len(e.docs) - 1)
    BY <1>1, <1>4, <1>6
  <1>8. c.k > 0 => c.k # 0
    BY <1>1
  <1> QED
    BY <1>3, <1>4, <1>6, <1>7, <1>8, Zenon

\* A header step stays in the layout.
LEMMA HeaderAtStep ==
  ASSUME NEW e, NEW h, NEW c, NEW codes, NEW place, Given(e, h, c, codes, place),
         At(e, c, place), Header
  PROVE  At(e, c, place)' /\ UNCHANGED <<file, op, L, src, dest>> /\ i' = i /\ CurrDoc' = CurrDoc
  <1> DEFINE P == Len(e.docs)
             k == c.k
  <1>1. /\ k \in Nat /\ p(word) = P /\ P \in Nat \ {0}
        /\ \A j \in 0 .. P : place[j].at \in Nat /\ place[j].body \in Nat
        /\ \A j \in 0 .. P : D(e, j) \in 0 .. num_of_docs
        /\ num_of_docs \in Nat
    BY GivenFacts
  <1>2. /\ i \in 0 .. (P - 1) /\ pc # "posting" /\ pos = place[i].at
        /\ k > 0 => block_counter = k - 1 - (i % k)
        /\ i' = i /\ CurrDoc' = CurrDoc /\ block_counter' = block_counter
        /\ UNCHANGED <<file, op, L, src, dest>>
    BY HeaderBefore
  <1>3. c = Blks(word)
    BY Zenon DEF Given
  <1>4. PICK x, at2 : x = CodeOf(pos, c.dn_blk).x /\ at2 = pos + BblockLength(x, c.dn_blk)
    OBVIOUS
  <1>5. PICK y, at3 : y = CodeOf(at2, c.len_blk).x /\ at3 = at2 + BblockLength(y, c.len_blk)
    OBVIOUS
  <1>6. PICK here \in BOOLEAN : here <=> k > 0 /\ block_counter = k - 1
    BY Zenon
  <1>7. PICK headed \in BOOLEAN : headed <=> here /\ i + k < P
    BY Zenon
  <1>8. HeaderDone(c, here, headed, at2, at3, x, y)
    BY <1>1, <1>3, <1>4, <1>5, <1>6, <1>7, HeaderDoes
  <1>9. here <=> k > 0 /\ i % k = 0
    <2>1. CASE k = 0
      BY <1>6, <2>1
    <2>2. CASE k > 0
      <3>1. k \in Nat \ {0} /\ i \in Nat
        BY <1>1, <1>2, <2>2
      <3>2. i % k \in 0 .. (k - 1)
        BY <3>1, ModFacts
      <3>3. block_counter = k - 1 <=> i % k = 0
        BY <1>1, <1>2, <2>2, <3>2
      <3> QED
        BY <1>6, <2>2, <3>3, Zenon
    <2> QED
      BY <1>1, <2>1, <2>2
  <1>10. headed <=> HeaderAt(i, P, k)
    BY <1>7, <1>9, Zenon DEF HeaderAt
  <1>11. /\ i' \in 0 .. P /\ i' < P /\ CurrDoc' = D(e, i')
         /\ block_counter' = (IF k = 0 THEN -1 ELSE k - 1 - (i' % k))
    <2>1. CurrDoc = D(e, i) /\ block_counter = (IF k = 0 THEN -1 ELSE k - 1 - (i % k))
      BY Zenon DEF At
    <2> QED
      BY <1>1, <1>2, <2>1
  <1>12. CASE headed
    <2>1. k > 0 /\ i % k = 0 /\ i + k < P /\ HeaderAt(i, P, k) /\ i + k \in 0 .. P
      BY <1>1, <1>2, <1>7, <1>9, <1>10, <1>12
    <2>2. PICK b, g, left : /\ b = i + k /\ g = HeaderGap(e, c, i)
                            /\ left = place[b].at - place[i].body
      OBVIOUS
    <2>3. Found(pos, c.dn_blk, g) /\ Found(pos + BblockLength(g, c.dn_blk), c.len_blk, left)
          /\ place[i].body = pos + BblockLength(g, c.dn_blk) + BblockLength(left, c.len_blk)
      <3>1. Indexed(codes, e, level, c, place, i) /\ Laid(codes, e, level, c, place, i)
        BY <1>2, LayoutIndexed, Zenon DEF Given
      <3>2. /\ codes[place[i].t + 1] = [at |-> place[i].at, b |-> c.dn_blk, x |-> g]
            /\ codes[place[i].t + 2] = [at |-> place[i].at + BblockLength(g, c.dn_blk), b |-> c.len_blk, x |-> left]
            /\ place[i].body = place[i].at + BblockLength(g, c.dn_blk) + BblockLength(left, c.len_blk)
        BY <2>1, <2>2, <3>1, Zenon DEF Laid
      <3>3. place[i].t + 1 \in 1 .. Len(codes) /\ place[i].t + 2 \in 1 .. Len(codes)
        BY <2>1, <3>1, Zenon DEF Indexed
      <3>4. /\ codes = invf[word] /\ DOMAIN codes = 1 .. Len(codes) /\ Len(codes) \in Nat
            /\ \A m \in 1 .. Len(codes) : codes[m].at \in Nat
            /\ Ascending(codes)
        BY GivenFacts, Zenon DEF Given
      <3>5. Found(place[i].at, c.dn_blk, g)
        BY ONLY <3>2, <3>3, <3>4, CodeFound
      <3>6. Found(place[i].at + BblockLength(g, c.dn_blk), c.len_blk, left)
        BY ONLY <3>2, <3>3, <3>4, CodeFound
      <3> QED
        BY ONLY <1>2, <3>2, <3>5, <3>6, Zenon
    <2>4. x = g /\ CodeAt(pos, c.dn_blk) # {}
      BY ONLY <1>4, <2>3, Zenon DEF Found
    <2>5. y = left /\ CodeAt(at2, c.len_blk) # {} /\ at3 = place[i].body
      BY ONLY <1>4, <1>5, <2>3, <2>4, Zenon DEF Found
    <2>6. next_doc_num' = next_doc_num + g /\ next_i' = next_i + k
          /\ next_start' = at3 + left /\ pos' = at3 /\ pc' = "posting"
      BY ONLY <1>8, <1>12, <2>4, <2>5, Zenon DEF HeaderDone
    <2>7. next_i = i /\ next_doc_num = D(e, i)
      <3>1. Boundary(k) = i
        BY <1>2, <2>1, Zenon DEF Boundary
      <3>2. i < P
        BY <1>1, <1>2
      <3> QED
        BY <2>1, <3>1, <3>2, Zenon DEF At
    <2>8. next_i' = b /\ next_start' = place[b].at /\ next_doc_num' = D(e, b)
      <3>1. D(e, i) \in Nat /\ D(e, b) \in Nat /\ place[b].at \in Nat /\ place[i].body \in Nat /\ g = D(e, b) - D(e, i)
        <4>1. i \in 0 .. P /\ b \in 0 .. P /\ g = D(e, b) - D(e, i)
          BY <1>1, <1>2, <2>1, <2>2 DEF HeaderGap
        <4>2. D(e, i) \in 0 .. num_of_docs /\ D(e, b) \in 0 .. num_of_docs
              /\ place[b].at \in Nat /\ place[i].body \in Nat
          BY <1>1, <4>1
        <4> QED
          BY <1>1, <4>1, <4>2
      <3>2. next_i' = i + k /\ next_start' = place[i].body + left /\ next_doc_num' = D(e, i) + g
        BY <2>5, <2>6, <2>7
      <3> QED
        BY <2>2, <3>1, <3>2
    <2>9. Boundary(k)' = b /\ b < P
      <3>1. pc' = "posting" /\ i' % k = 0 /\ i' = i
        BY <1>2, <2>1, <2>6
      <3>2. Boundary(k)' = i' - (i' % k) + k
        BY <3>1, Zenon DEF Boundary
      <3> QED
        BY <1>1, <1>2, <2>1, <2>2, <3>1, <3>2
    <2>10. pc' = "posting" /\ pc' # "loop" /\ pc' # "header" /\ pos' = place[i'].body /\ k # 0
           /\ pc' \in {"loop", "header", "posting"}
      BY <1>2, <2>1, <2>5, <2>6
    <2> QED
      BY <1>2, <1>11, <2>8, <2>9, <2>10, Zenon DEF At
  <1>13. CASE ~headed
    <2>1. next_doc_num' = (IF here THEN -1 ELSE next_doc_num)
          /\ next_i' = next_i /\ next_start' = next_start /\ pos' = pos /\ pc' = "posting"
      BY <1>8, <1>13, Zenon DEF HeaderDone
    <2>2. place[i].body = place[i].at
      <3>1. Laid(codes, e, level, c, place, i)
        BY <1>2, LayoutIndexed, Zenon DEF Given
      <3> QED
        BY <1>10, <1>13, <3>1, Zenon DEF Laid
    <2>3. pc' = "posting" /\ pc' # "loop" /\ pc' # "header" /\ pos' = place[i'].body
          /\ pc' \in {"loop", "header", "posting"}
      BY <1>2, <2>1, <2>2
    <2>4. k = 0 => next_doc_num' = 0
      <3>1. k = 0 => next_doc_num = 0
        BY Zenon DEF At
      <3>2. k = 0 => ~here
        BY <1>9
      <3> QED
        BY <2>1, <3>1, <3>2, Zenon
    <2>5. ASSUME k > 0
          PROVE  /\ Boundary(k)' < P => next_i' = Boundary(k)' /\ next_start' = place[Boundary(k)'].at
                                        /\ next_doc_num' = D(e, Boundary(k)')
                 /\ ~(Boundary(k)' < P) => next_doc_num' = -1
      <3>1. Boundary(k)' = i - (i % k) + k
        BY <1>2, <2>3, Zenon DEF Boundary
      <3>2. CASE here
        <4>1. i % k = 0 /\ ~(i + k < P)
          BY <1>7, <1>9, <1>13, <3>2
        <4>2. Boundary(k)' = i + k
          BY <1>1, <1>2, <2>5, <3>1, <4>1
        <4> QED
          BY <2>1, <3>2, <4>1, <4>2
      <3>3. CASE ~here
        <4>1. ~(i % k = 0)
          BY <1>9, <2>5, <3>3
        <4>2. Boundary(k) = i - (i % k) + k
          BY <4>1, Zenon DEF Boundary
        <4>3. Boundary(k)' = Boundary(k)
          BY <3>1, <4>2, Zenon
        <4>4. /\ Boundary(k) < P => next_i = Boundary(k) /\ next_start = place[Boundary(k)].at
                                    /\ next_doc_num = D(e, Boundary(k))
              /\ ~(Boundary(k) < P) => next_doc_num = -1
          BY <2>5, Zenon DEF At
        <4>5. next_doc_num' = next_doc_num
          BY <2>1, <3>3
        <4> QED
          BY <2>1, <4>3, <4>4, <4>5, Zenon
      <3> QED
        BY <3>2, <3>3
    <2> QED
      BY <1>2, <1>11, <2>3, <2>4, <2>5, Zenon DEF At
  <1> QED
    BY <1>2, <1>12, <1>13

----------------------------------------------------------------------------
(* GetDocsOp: a posting.                                                   *)

\* What Posting does when it finds its codes.
PostingDone(c, at2, doc, n) ==
  /\ pc = "posting"
  /\ CurrDoc' = doc /\ pos' = (IF level >= 2 THEN at2 + GammaLength(n) ELSE at2)
  /\ i' = i + 1 /\ block_counter' = Within(block_counter - 1, c.k) /\ Match(doc) /\ pc' = "loop"
  /\ UNCHANGED <<file, query, op, word, next_start, next_doc_num, next_i>>

\* A posting step, read field by field.
LEMMA PostingDoes ==
  ASSUME Posting, NEW c, c = Blks(word),
         NEW last \in BOOLEAN, last <=> c.k > 0 /\ block_counter = 0 /\ i # p(word) - 1,
         NEW gap, gap = CodeOf(pos, c.blk).x,
         NEW at2, at2 = IF last THEN pos ELSE pos + BblockLength(gap, c.blk),
         NEW doc, doc = IF last THEN next_doc_num ELSE CurrDoc + gap,
         NEW n, n = CodeOf(at2, 0).x,
         ~last => CodeAt(pos, c.blk) # {}, level >= 2 => CodeAt(at2, 0) # {}
  PROVE  PostingDone(c, at2, doc, n)
  BY Zenon DEF Posting, PostingDone

\* In a block, the last posting but for the last block.
LEMMA LastIs ==
  ASSUME NEW e, NEW h, NEW c, NEW codes, NEW place, Given(e, h, c, codes, place),
         At(e, c, place), pc = "posting",
         NEW last \in BOOLEAN, last <=> c.k > 0 /\ block_counter = 0 /\ i # p(word) - 1,
         NEW j, j = i + 1
  PROVE  /\ i \in 0 .. (Len(e.docs) - 1)
         /\ last <=> LastOfBlock(i, Len(e.docs), c.k)
         /\ last => next_doc_num = D(e, j)
         /\ Within(block_counter - 1, c.k) =
              IF c.k = 0 THEN -1 ELSE c.k - 1 - (j % c.k)
         /\ c.k > 0 => Boundary(c.k) = IF j % c.k = 0 THEN j ELSE j - (j % c.k) + c.k
  <1> DEFINE P == Len(e.docs)
             k == c.k
  <1>1. k \in Nat /\ p(word) = P /\ P \in Nat \ {0}
    BY GivenFacts
  <1>2. /\ i \in 0 .. P /\ i < P /\ block_counter = (IF k = 0 THEN -1 ELSE k - 1 - (i % k))
        /\ k > 0 /\ Boundary(k) < P => next_doc_num = D(e, Boundary(k))
    BY Zenon DEF At
  <1>3. i \in 0 .. (P - 1) /\ i \in Nat
    BY <1>1, <1>2
  <1>4. CASE k = 0
    <2>1. ~last /\ ~LastOfBlock(i, P, k)
      BY <1>4 DEF LastOfBlock
    <2>2. Within(block_counter - 1, k) = -1
      BY <1>2, <1>4 DEF Within
    <2> QED
      BY <1>3, <1>4, <2>1, <2>2
  <1>5. CASE k > 0
    <2>1. k \in Nat \ {0}
      BY <1>1, <1>5
    <2>2. PICK r, r2 : r = i % k /\ r2 = j % k
      OBVIOUS
    <2>3. r \in 0 .. (k - 1) /\ r2 = IF r = k - 1 THEN 0 ELSE r + 1
      BY <1>3, <2>1, <2>2, ModFacts
    <2>4. block_counter = k - 1 - r
      BY <1>2, <1>5, <2>2
    <2>5. Boundary(k) = i - r + k
      BY <2>2, Zenon DEF Boundary
    <2>6. last <=> LastOfBlock(i, P, k)
      <3>1. block_counter = 0 <=> r = k - 1
        BY <2>1, <2>3, <2>4
      <3> QED
        BY <1>1, <2>2, <3>1, Zenon DEF LastOfBlock
    <2>7. last => next_doc_num = D(e, j)
      <3> SUFFICES ASSUME last PROVE next_doc_num = D(e, j)
        OBVIOUS
      <3>1. r = k - 1 /\ i # P - 1
        BY <2>2, <2>6, Zenon DEF LastOfBlock
      <3>2. Boundary(k) = i + 1 /\ i + 1 < P
        BY <1>1, <1>3, <2>1, <2>5, <3>1
      <3> QED
        BY <1>2, <1>5, <3>2
    <2>8. Within(block_counter - 1, k) = k - 1 - r2
      BY <2>1, <2>3, <2>4 DEF Within
    <2>9. Boundary(k) = IF r2 = 0 THEN j ELSE j - r2 + k
      BY <1>3, <2>1, <2>3, <2>5
    <2> QED
      BY <1>3, <1>5, <2>1, <2>2, <2>6, <2>7, <2>8, <2>9
  <1> QED
    BY <1>1, <1>4, <1>5

\* A step over a posting.
Passed(e) == /\ pc = "posting" /\ pc' = "loop" /\ i \in 0 .. (Len(e.docs) - 1) /\ i' = i + 1
             /\ CurrDoc' = D(e, i + 1) /\ Match(D(e, i + 1))
             /\ UNCHANGED <<file, query, op, word>>

\* A posting step reaches the next document of the entry.
LEMMA PostingAtStep ==
  ASSUME NEW e, NEW h, NEW c, NEW codes, NEW place, Given(e, h, c, codes, place),
         At(e, c, place), Posting
  PROVE  At(e, c, place)' /\ Passed(e)
  <1> DEFINE P == Len(e.docs)
             k == c.k
  <1>1. /\ k \in Nat /\ p(word) = P /\ P \in Nat \ {0}
        /\ \A j \in 0 .. P : place[j].at \in Nat /\ place[j].body \in Nat
        /\ \A j \in 0 .. P : D(e, j) \in 0 .. num_of_docs
        /\ num_of_docs \in Nat /\ c = Blks(word)
    BY GivenFacts, Zenon DEF Given
  <1>2. pc = "posting"
    BY DEF Posting
  <1>3. PICK last \in BOOLEAN : last <=> k > 0 /\ block_counter = 0 /\ i # p(word) - 1
    BY Zenon
  <1>12. PICK j : j = i + 1
    OBVIOUS
  <1>4. /\ i \in 0 .. (P - 1)
        /\ last <=> LastOfBlock(i, P, k)
        /\ last => next_doc_num = D(e, j)
        /\ Within(block_counter - 1, k) = IF k = 0 THEN -1 ELSE k - 1 - (j % k)
        /\ k > 0 => Boundary(k) = IF j % k = 0 THEN j ELSE j - (j % k) + k
    BY <1>2, <1>3, <1>12, LastIs
  <1>5. CurrDoc = D(e, i) /\ pos = place[i].body
    BY <1>2, Zenon DEF At
  <1>6. Indexed(codes, e, level, c, place, i) /\ Laid(codes, e, level, c, place, i)
    BY <1>4, LayoutIndexed, Zenon DEF Given
  <1>7. /\ codes = invf[word] /\ DOMAIN codes = 1 .. Len(codes) /\ Len(codes) \in Nat
        /\ \A m \in 1 .. Len(codes) : codes[m].at \in Nat
        /\ Ascending(codes)
    BY GivenFacts, Zenon DEF Given
  <1>8. PICK gap : gap = CodeOf(pos, c.blk).x
    OBVIOUS
  <1>9. PICK at2 : at2 = IF last THEN pos ELSE pos + BblockLength(gap, c.blk)
    OBVIOUS
  <1>10. PICK doc : doc = IF last THEN next_doc_num ELSE CurrDoc + gap
    OBVIOUS
  <1>11. PICK n : n = CodeOf(at2, 0).x
    OBVIOUS
  <1>13. j \in 1 .. P /\ j \in 0 .. P /\ i \in 0 .. P
    BY <1>1, <1>4, <1>12
  <1>14. ~last => CodeAt(pos, c.blk) # {} /\ gap = Gap(e, j)
    <2> SUFFICES ASSUME ~last PROVE CodeAt(pos, c.blk) # {} /\ gap = Gap(e, j)
      OBVIOUS
    <2>1. PICK t : t = GapCode(place, e, c, i) + 1
      OBVIOUS
    <2>2. codes[t] = [at |-> place[i].body, b |-> c.blk, x |-> Gap(e, j)] /\ t \in 1 .. Len(codes)
      BY ONLY <1>4, <1>6, <1>12, <2>1, ~last, Zenon DEF Laid, Indexed, GapCode
    <2>3. Found(place[i].body, c.blk, Gap(e, j))
      BY ONLY <1>7, <2>2, CodeFound
    <2> QED
      BY ONLY <1>5, <1>8, <2>3, Zenon DEF Found
  <1>15. PICK w : w = IF last THEN 0 ELSE BblockLength(Gap(e, j), c.blk)
    OBVIOUS
  <1>16. at2 = place[i].body + w
    <2>1. CASE last
      BY <1>1, <1>5, <1>9, <1>13, <1>15, <2>1
    <2>2. CASE ~last
      BY ONLY <1>5, <1>9, <1>14, <1>15, <2>2, Zenon
    <2> QED
      BY <2>1, <2>2
  <1>17. level >= 2 => CodeAt(at2, 0) # {} /\ n = e.counts[j]
    <2> SUFFICES ASSUME level >= 2 PROVE CodeAt(at2, 0) # {} /\ n = e.counts[j]
      OBVIOUS
    <2>1. PICK t : t = place[j].t
      OBVIOUS
    <2>2. codes[t] = [at |-> place[i].body + w, b |-> 0, x |-> e.counts[j]] /\ t \in 1 .. Len(codes)
      BY ONLY <1>4, <1>6, <1>12, <1>15, <2>1, level >= 2, Zenon DEF Laid, Indexed
    <2>3. Found(place[i].body + w, 0, e.counts[j])
      BY ONLY <1>7, <2>2, CodeFound
    <2> QED
      BY ONLY <1>11, <1>16, <2>3, Zenon DEF Found
  <1>18. PostingDone(c, at2, doc, n)
    BY ONLY <1>1, <1>3, <1>8, <1>9, <1>10, <1>11, <1>14, <1>17, Posting, PostingDoes
  <1>19. doc = D(e, j)
    <2>1. CASE last
      BY <1>4, <1>10, <1>12, <2>1
    <2>2. CASE ~last
      <3>1. j - 1 = i
        BY <1>12, <1>13
      <3>2. doc = D(e, i) + (D(e, j) - D(e, i))
        BY ONLY <1>5, <1>10, <1>14, <2>2, <3>1, Zenon DEF Gap
      <3>3. D(e, i) \in 0 .. num_of_docs /\ D(e, j) \in 0 .. num_of_docs
        BY <1>1, <1>13
      <3> QED
        BY <1>1, <3>2, <3>3
    <2> QED
      BY <2>1, <2>2
  <1>20. pos' = place[j].at
    <2>1. place[j].at = place[i].body + (w + Tf(e, level, j))
      BY ONLY <1>4, <1>6, <1>12, <1>15, Zenon DEF Laid
    <2>2. CASE level >= 2
      <3>1. pos' = place[i].body + w + GammaLength(e.counts[j])
        BY ONLY <1>16, <1>17, <1>18, <2>2, Zenon DEF PostingDone
      <3>2. Tf(e, level, j) = GammaLength(e.counts[j])
        BY ONLY <2>2, Zenon DEF Tf
      <3>3. w \in Int /\ GammaLength(e.counts[j]) \in Int /\ place[i].body \in Int
        <4>1. e \in Entries /\ level \in {1, 2, 3} /\ c = ParamsOf(e, h, level) /\ h \in Headers
          BY Zenon DEF Given
        <4>2. c.blk \in Operand
          BY <4>1, ParamFacts
        <4>3. Gap(e, j) \in Nat \ {0} /\ e.counts[j] \in 1 .. (Shl(MaxLog) - 1)
          BY <1>13, <4>1, GapFacts, EntryFacts
        <4>4. BblockLength(Gap(e, j), c.blk) \in Nat /\ GammaLength(e.counts[j]) \in Nat
          BY <4>2, <4>3, LengthPositive, GammaPositive
        <4> QED
          BY <1>1, <1>13, <1>15, <4>4
      <3> QED
        BY ONLY <2>1, <3>1, <3>2, <3>3
    <2>3. CASE ~(level >= 2)
      <3>1. pos' = place[i].body + w
        BY ONLY <1>16, <1>18, <2>3, Zenon DEF PostingDone
      <3>2. Tf(e, level, j) = 0
        BY ONLY <2>3, Zenon DEF Tf
      <3>3. place[j].at \in Nat /\ place[i].body \in Nat
        BY <1>1, <1>13
      <3>4. w \in Int
        <4>1. e \in Entries /\ level \in {1, 2, 3} /\ c = ParamsOf(e, h, level) /\ h \in Headers
          BY Zenon DEF Given
        <4>2. c.blk \in Operand
          BY <4>1, ParamFacts
        <4>3. Gap(e, j) \in Nat \ {0}
          BY <1>13, <4>1, GapFacts
        <4>4. BblockLength(Gap(e, j), c.blk) \in Nat
          BY <4>2, <4>3, LengthPositive
        <4> QED
          BY <1>15, <4>4
      <3> QED
        BY ONLY <2>1, <3>1, <3>2, <3>3, <3>4
    <2> QED
      BY <2>2, <2>3
  <1>21. Passed(e)
    BY <1>4, <1>12, <1>18, <1>19, Zenon DEF Passed, PostingDone
  <1>22. At(e, c, place)'
    <2>1. /\ pc' = "loop" /\ i' = j /\ CurrDoc' = D(e, j) /\ pos' = place[j].at
          /\ block_counter' = (IF k = 0 THEN -1 ELSE k - 1 - (j % k))
          /\ next_i' = next_i /\ next_start' = next_start /\ next_doc_num' = next_doc_num
      BY ONLY <1>4, <1>12, <1>18, <1>19, <1>20, Zenon DEF PostingDone
    <2>2. k > 0 => Boundary(k)' = Boundary(k)
      <3> SUFFICES ASSUME k > 0 PROVE Boundary(k)' = Boundary(k)
        OBVIOUS
      <3>1. pc' # "posting"
        BY <2>1
      <3>2. Boundary(k)' = IF j % k = 0 THEN j ELSE j - (j % k) + k
        BY ONLY <2>1, <3>1, Zenon DEF Boundary
      <3>3. PICK b : b = IF j % k = 0 THEN j ELSE j - (j % k) + k
        OBVIOUS
      <3>4. Boundary(k) = b
        BY ONLY <1>4, <3>3, k > 0, Zenon
      <3>5. Boundary(k)' = b
        BY ONLY <3>2, <3>3, Zenon
      <3> QED
        BY ONLY <3>4, <3>5, Zenon
    <2>3. pc' # "posting" /\ pc' # "header" /\ pc' \in {"loop", "header", "posting"} /\ i' \in 0 .. P
      BY <1>13, <2>1
    <2>4. /\ k = 0 => next_doc_num = 0
          /\ k > 0 /\ Boundary(k) < P => next_i = Boundary(k) /\ next_start = place[Boundary(k)].at
                                         /\ next_doc_num = D(e, Boundary(k))
          /\ k > 0 /\ ~(Boundary(k) < P) => next_doc_num = -1
      BY Zenon DEF At
    <2>5. /\ k = 0 => next_doc_num' = 0
          /\ k > 0 /\ Boundary(k)' < P => next_i' = Boundary(k)' /\ next_start' = place[Boundary(k)'].at
                                         /\ next_doc_num' = D(e, Boundary(k)')
          /\ k > 0 /\ ~(Boundary(k)' < P) => next_doc_num' = -1
      BY ONLY <2>1, <2>2, <2>4, Zenon
    <2> QED
      BY ONLY <2>1, <2>3, <2>5, Zenon DEF At
  <1> QED
    BY <1>21, <1>22

----------------------------------------------------------------------------
(* Lists of documents.                                                     *)

ListItem == [doc : 1 .. num_of_docs, or_included : BOOLEAN]
Lists == Seq(ListItem)

\* An entry of a list is marked.
Mk(x) == x.or_included = TRUE

\* A list in order that holds the documents of set, and of them marked those in marks.
RightList(list, set, marks) ==
  /\ list \in Lists /\ Increasing(list) /\ DocNums(list) = set
  /\ \A n \in 1 .. Len(list) : Mk(list[n]) <=> list[n].doc \in marks

\* The documents of the first n entries.
Docs(list, n) == {list[m].doc : m \in 1 .. n}

\* What a list is made of.
LEMMA ListType ==
  ASSUME NEW list \in Lists
  PROVE  /\ Len(list) \in Nat /\ DOMAIN list = 1 .. Len(list)
         /\ \A n \in 1 .. Len(list) : list[n] \in ListItem /\ list[n].doc \in 1 .. num_of_docs
                                      /\ list[n].doc \in Nat
  <1>1. list \in Seq(ListItem)
    BY Zenon DEF Lists
  <1>2. Len(list) \in Nat /\ DOMAIN list = 1 .. Len(list) /\ \A n \in 1 .. Len(list) : list[n] \in ListItem
    BY ONLY <1>1
  <1>3. \A x \in ListItem : x.doc \in 1 .. num_of_docs /\ x.doc \in Nat
    BY DEF ListItem
  <1> QED
    BY <1>2, <1>3, Zenon

\* A right list ascends and holds each document once.
LEMMA RightListFacts ==
  ASSUME NEW list, NEW set, NEW marks, RightList(list, set, marks)
  PROVE  /\ list \in Lists /\ Len(list) \in Nat /\ DOMAIN list = 1 .. Len(list)
         /\ \A n \in 1 .. Len(list) : list[n] \in ListItem /\ list[n].doc \in 1 .. num_of_docs
                                      /\ list[n].doc \in Nat
         /\ \A m, n \in 1 .. Len(list) : m < n => list[m].doc < list[n].doc
         /\ \A m, n \in 1 .. Len(list) : list[m].doc < list[n].doc => m < n
         /\ set = Docs(list, Len(list)) /\ set \subseteq 1 .. num_of_docs
         /\ \A x \in set : \E n \in 1 .. Len(list) : x = list[n].doc
         /\ \A n \in 1 .. Len(list) : list[n].doc \in set
         /\ \A n \in 1 .. Len(list) : Mk(list[n]) <=> list[n].doc \in marks
  <1>1. list \in Lists /\ Increasing(list) /\ DocNums(list) = set
        /\ \A n \in 1 .. Len(list) : Mk(list[n]) <=> list[n].doc \in marks
    BY DEF RightList
  <1>2. /\ Len(list) \in Nat /\ DOMAIN list = 1 .. Len(list)
        /\ \A n \in 1 .. Len(list) : list[n] \in ListItem /\ list[n].doc \in 1 .. num_of_docs
                                     /\ list[n].doc \in Nat
    BY <1>1, ListType
  <1>3. \A m, n \in 1 .. Len(list) : m < n => list[m].doc < list[n].doc
    BY <1>1, <1>2, Zenon DEF Increasing
  <1>4. set = {list[n].doc : n \in 1 .. Len(list)}
    BY <1>1, <1>2, Zenon DEF DocNums
  <1>5. set = Docs(list, Len(list))
    BY <1>4, Zenon DEF Docs
  <1>6. /\ \A x \in set : \E n \in 1 .. Len(list) : x = list[n].doc
        /\ \A n \in 1 .. Len(list) : list[n].doc \in set
    BY <1>4, Zenon
  <1>7. set \subseteq 1 .. num_of_docs
    BY <1>2, <1>6
  <1>8. \A m, n \in 1 .. Len(list) : list[m].doc < list[n].doc => m < n
    <2> TAKE m, n \in 1 .. Len(list)
    <2>1. list[m].doc \in Nat /\ list[n].doc \in Nat
      BY <1>2
    <2>2. n < m => list[n].doc < list[m].doc
      BY <1>3
    <2>3. n = m => list[n].doc = list[m].doc
      OBVIOUS
    <2> QED
      BY <1>2, <2>1, <2>2, <2>3
  <1> QED
    BY ONLY <1>1, <1>2, <1>3, <1>5, <1>6, <1>7, <1>8, Zenon

\* What makes a list right.
LEMMA RightListIs ==
  ASSUME NEW list \in Lists, NEW set, NEW marks,
         \A m, n \in 1 .. Len(list) : m < n => list[m].doc < list[n].doc,
         \A x \in set : \E n \in 1 .. Len(list) : x = list[n].doc,
         \A n \in 1 .. Len(list) : list[n].doc \in set,
         \A n \in 1 .. Len(list) : Mk(list[n]) <=> list[n].doc \in marks
  PROVE  RightList(list, set, marks)
  <1>1. DOMAIN list = 1 .. Len(list)
    BY ListType
  <1>2. Increasing(list)
    BY <1>1, Zenon DEF Increasing
  <1>3. DocNums(list) = set
    BY <1>1, Zenon DEF DocNums
  <1> QED
    BY <1>2, <1>3, Zenon DEF RightList

\* The empty list stands for no document.
LEMMA EmptyRight == RightList(<<>>, {}, {})
  <1>1. <<>> \in Lists /\ Len(<<>>) = 0
    BY EmptySeq DEF Lists
  <1>2. \A n \in 1 .. 0 : FALSE
    OBVIOUS
  <1>3. \A n \in 1 .. Len(<<>>) : FALSE
    BY <1>1, <1>2
  <1> QED
    BY ONLY <1>1, <1>3, RightListIs

\* One list behind the other.
LEMMA ConcatRight ==
  ASSUME NEW l1, NEW l2, NEW A, NEW B, RightList(l1, A, {}), RightList(l2, B, {}),
         \A x \in A, y \in B : x < y
  PROVE  RightList(l1 \o l2, A \cup B, {})
  <1>1. PICK n1, n2 : n1 = Len(l1) /\ n2 = Len(l2)
    OBVIOUS
  <1>2. /\ l1 \in Lists /\ n1 \in Nat
        /\ \A m, n \in 1 .. n1 : m < n => l1[m].doc < l1[n].doc
        /\ \A x \in A : \E n \in 1 .. n1 : x = l1[n].doc
        /\ \A n \in 1 .. n1 : l1[n].doc \in A
        /\ \A n \in 1 .. n1 : ~Mk(l1[n])
    <2>1. RightList(l1, A, {}) /\ \A x : ~(x \in {})
      OBVIOUS
    <2>2. /\ l1 \in Lists /\ Len(l1) \in Nat
          /\ \A m, n \in 1 .. Len(l1) : m < n => l1[m].doc < l1[n].doc
          /\ \A x \in A : \E n \in 1 .. Len(l1) : x = l1[n].doc
          /\ \A n \in 1 .. Len(l1) : l1[n].doc \in A
          /\ \A n \in 1 .. Len(l1) : ~Mk(l1[n])
      BY ONLY <2>1, RightListFacts
    <2> QED
      BY ONLY <1>1, <2>2, Zenon
  <1>3. /\ l2 \in Lists /\ n2 \in Nat
        /\ \A m, n \in 1 .. n2 : m < n => l2[m].doc < l2[n].doc
        /\ \A x \in B : \E n \in 1 .. n2 : x = l2[n].doc
        /\ \A n \in 1 .. n2 : l2[n].doc \in B
        /\ \A n \in 1 .. n2 : ~Mk(l2[n])
    <2>1. RightList(l2, B, {}) /\ \A x : ~(x \in {})
      OBVIOUS
    <2>2. /\ l2 \in Lists /\ Len(l2) \in Nat
          /\ \A m, n \in 1 .. Len(l2) : m < n => l2[m].doc < l2[n].doc
          /\ \A x \in B : \E n \in 1 .. Len(l2) : x = l2[n].doc
          /\ \A n \in 1 .. Len(l2) : l2[n].doc \in B
          /\ \A n \in 1 .. Len(l2) : ~Mk(l2[n])
      BY ONLY <2>1, RightListFacts
    <2> QED
      BY ONLY <1>1, <2>2, Zenon
  <1>4. PICK l : l = l1 \o l2
    OBVIOUS
  <1>5. l \in Lists /\ Len(l) = n1 + n2
        /\ \A n \in 1 .. n1 + n2 : l[n] = IF n <= n1 THEN l1[n] ELSE l2[n - n1]
    BY <1>1, <1>2, <1>3, <1>4, ConcatProperties DEF Lists
  <1>6. \A n \in 1 .. n1 : n \in 1 .. n1 + n2 /\ l[n] = l1[n]
    BY <1>2, <1>3, <1>5
  <1>7. \A n \in 1 .. n2 : n + n1 \in 1 .. n1 + n2 /\ l[n + n1] = l2[n]
    <2> TAKE n \in 1 .. n2
    <2>1. n + n1 \in 1 .. n1 + n2 /\ ~(n + n1 <= n1) /\ (n + n1) - n1 = n
      BY <1>2, <1>3
    <2> QED
      BY <1>5, <2>1
  <1>8. ASSUME NEW n \in 1 .. n1 + n2
        PROVE  \/ n \in 1 .. n1 /\ l[n] = l1[n]
               \/ ~(n <= n1) /\ n - n1 \in 1 .. n2 /\ l[n] = l2[n - n1]
    BY <1>2, <1>3, <1>5
  <1>9. ASSUME NEW m \in 1 .. n1 + n2, NEW n \in 1 .. n1 + n2, m < n PROVE l[m].doc < l[n].doc
    <2>1. CASE n <= n1
      <3>1. m \in 1 .. n1 /\ n \in 1 .. n1
        BY <1>2, <1>9, <2>1
      <3> QED
        BY <1>2, <1>6, <1>9, <3>1
    <2>2. CASE ~(n <= n1) /\ m <= n1
      <3>1. m \in 1 .. n1 /\ n - n1 \in 1 .. n2
        BY <1>2, <1>3, <1>9, <2>2
      <3> QED
        BY <1>2, <1>3, <1>5, <2>2, <3>1
    <2>3. CASE ~(n <= n1) /\ ~(m <= n1)
      <3>1. m - n1 \in 1 .. n2 /\ n - n1 \in 1 .. n2 /\ m - n1 < n - n1
        BY <1>2, <1>3, <1>9, <2>3
      <3> QED
        BY <1>3, <1>5, <2>3, <3>1
    <2> QED
      BY <2>1, <2>2, <2>3
  <1>10. \A x \in A \cup B : \E n \in 1 .. n1 + n2 : x = l[n].doc
    BY <1>2, <1>3, <1>6, <1>7
  <1>11. \A n \in 1 .. n1 + n2 : l[n].doc \in A \cup B /\ ~Mk(l[n])
    BY <1>2, <1>3, <1>8
  <1>12. RightList(l, A \cup B, {})
    BY ONLY <1>5, <1>9, <1>10, <1>11, RightListIs
  <1> QED
    BY <1>4, <1>12

\* One entry.
LEMMA SingleRight ==
  ASSUME NEW x \in ListItem, ~Mk(x)
  PROVE  RightList(<<x>>, {x.doc}, {})
  <1>1. PICK l : l = <<x>>
    OBVIOUS
  <1>2. l \in Lists /\ Len(l) = 1 /\ l[1] = x
    BY <1>1 DEF Lists
  <1>3. \A n \in 1 .. 1 : n = 1
    OBVIOUS
  <1>4. \A n \in 1 .. Len(l) : n = 1
    BY <1>2, <1>3
  <1>5. 1 \in 1 .. Len(l)
    BY <1>2
  <1>6. RightList(l, {x.doc}, {})
    BY ONLY <1>2, <1>4, <1>5, ~Mk(x), RightListIs
  <1> QED
    BY <1>1, <1>6

\* A later document at the end.
LEMMA AppendRight ==
  ASSUME NEW list, NEW A, RightList(list, A, {}), NEW x \in ListItem, ~Mk(x), \A y \in A : y < x.doc
  PROVE  RightList(Append(list, x), A \cup {x.doc}, {})
  <1>1. list \in Lists
    BY DEF RightList
  <1>2. Append(list, x) = list \o <<x>>
    BY <1>1, AppendIsConcat DEF Lists
  <1>3. RightList(<<x>>, {x.doc}, {})
    BY SingleRight
  <1> QED
    BY ONLY RightList(list, A, {}), <1>2, <1>3, \A y \in A : y < x.doc, ConcatRight

\* Part of a list.
LEMMA SegmentRight ==
  ASSUME NEW list, NEW A, NEW g, RightList(list, A, g), NEW a \in Nat, NEW b \in a .. Len(list),
         \A n \in (a + 1) .. b : ~Mk(list[n])
  PROVE  RightList(SubSeq(list, a + 1, b), {list[n].doc : n \in (a + 1) .. b}, {})
  <1>1. PICK N : N = Len(list)
    OBVIOUS
  <1>2. /\ list \in Lists /\ N \in Nat
        /\ \A n \in 1 .. N : list[n] \in ListItem
        /\ \A m, n \in 1 .. N : m < n => list[m].doc < list[n].doc
    BY <1>1, RightListFacts
  <1>3. b \in a .. N /\ b \in Nat
    BY <1>1, <1>2
  <1>4. PICK l : l = SubSeq(list, a + 1, b)
    OBVIOUS
  <1>5. l \in Lists /\ Len(l) = b - a /\ \A n \in 1 .. b - a : l[n] = list[a + n]
    <2>1. \A n \in (a + 1) .. b : list[n] \in ListItem
      BY <1>2, <1>3
    <2>2. a + 1 \in Int /\ b \in Int
      BY <1>3
    <2>3. /\ l \in Seq(ListItem)
          /\ Len(l) = (IF a + 1 <= b THEN b - (a + 1) + 1 ELSE 0)
          /\ \A n \in 1 .. (b - (a + 1) + 1) : l[n] = list[(a + 1) + n - 1]
      BY ONLY <1>4, <2>1, <2>2, SubSeqProperties
    <2>4. b - (a + 1) + 1 = b - a /\ Len(l) = b - a
      BY <1>3, <2>3
    <2>5. \A n \in 1 .. b - a : (a + 1) + n - 1 = a + n
      BY <1>3
    <2> QED
      BY <2>3, <2>4, <2>5 DEF Lists
  <1>6. \A n \in 1 .. b - a : a + n \in (a + 1) .. b /\ a + n \in 1 .. N
    BY <1>2, <1>3
  <1>7. \A n \in (a + 1) .. b : n - a \in 1 .. b - a /\ a + (n - a) = n
    BY <1>3
  <1>8. PICK S : S = {list[n].doc : n \in (a + 1) .. b}
    OBVIOUS
  <1>9. \A m, n \in 1 .. Len(l) : m < n => l[m].doc < l[n].doc
    <2> SUFFICES ASSUME NEW m \in 1 .. b - a, NEW n \in 1 .. b - a, m < n PROVE l[m].doc < l[n].doc
      BY <1>5
    <2>1. a + m < a + n /\ a + m \in 1 .. N /\ a + n \in 1 .. N
      BY <1>3, <1>6
    <2> QED
      BY <1>2, <1>5, <2>1
  <1>10. \A x \in S : \E n \in 1 .. Len(l) : x = l[n].doc
    BY <1>5, <1>7, <1>8
  <1>11. \A n \in 1 .. Len(l) : l[n].doc \in S /\ ~Mk(l[n])
    BY <1>5, <1>6, <1>8
  <1>12. RightList(l, S, {})
    BY ONLY <1>5, <1>9, <1>10, <1>11, RightListIs
  <1> QED
    BY <1>4, <1>8, <1>12

\* The least of a set of numbers.
LEMMA MinIs ==
  ASSUME NEW S \in SUBSET Nat, S # {}
  PROVE  Min(S) \in S /\ \A x \in S : Min(S) <= x
  <1>1. PICK m \in S : \A x \in S : m <= x
    BY LeastNat
  <1> QED
    BY <1>1, Zenon DEF Min

\* The first candidate from s on that is not before doc.
LEMMA CandidateIs ==
  ASSUME NEW N, N = Len(L), N \in Nat, src \in 0 .. N, NEW doc, NEW s, s = Candidate(doc),
         \A n \in 1 .. N : L[n].doc \in Nat, doc \in Nat
  PROVE  /\ s \in src .. N /\ s \in Nat
         /\ \A n \in (src + 1) .. s : L[n].doc < doc
         /\ s < N => L[s + 1].doc >= doc
  <1>1. PICK S : S = {t \in src .. N : t = N \/ L[t + 1].doc >= doc}
    OBVIOUS
  <1>2. s = Min(S)
    BY <1>1, Zenon DEF Candidate
  <1>3. S \in SUBSET Nat /\ N \in S
    BY <1>1
  <1>4. s \in S /\ \A x \in S : s <= x
    BY <1>2, <1>3, MinIs
  <1>5. s \in src .. N /\ s \in Nat /\ (s < N => L[s + 1].doc >= doc)
    BY <1>1, <1>4
  <1>6. ASSUME NEW n \in (src + 1) .. s PROVE L[n].doc < doc
    <2>1. PICK t : t = n - 1
      OBVIOUS
    <2>2. t \in src .. N /\ ~(s <= t) /\ t + 1 = n /\ n \in 1 .. N
      BY <1>5, <2>1
    <2>3. ~(L[t + 1].doc >= doc)
      BY <1>1, <1>4, <2>2
    <2> QED
      BY <2>2, <2>3
  <1> QED
    BY <1>5, <1>6

\* Where a list, from place s on, first has a document not before doc.
LEMMA FromIs ==
  ASSUME NEW list \in Lists, NEW s \in 1 .. (Len(list) + 1), NEW doc \in Nat, NEW t, t = From(list, s, doc)
  PROVE  /\ t \in s .. (Len(list) + 1) /\ t \in Nat
         /\ \A n \in s .. (t - 1) : list[n].doc < doc
         /\ t <= Len(list) => list[t].doc >= doc
  <1>0. PICK N : N = Len(list)
    OBVIOUS
  <1>1. PICK S : S = {u \in s .. (N + 1) : u > N \/ list[u].doc >= doc}
    OBVIOUS
  <1>2. t = Min(S)
    BY <1>0, <1>1, Zenon DEF From
  <1>3. N \in Nat /\ \A n \in 1 .. N : list[n].doc \in Nat
    BY <1>0, ListType
  <1>4. S \in SUBSET Nat /\ N + 1 \in S
    BY <1>0, <1>1, <1>3
  <1>5. t \in S /\ \A x \in S : t <= x
    BY <1>2, <1>4, MinIs
  <1>6. t \in s .. (N + 1) /\ t \in Nat /\ (t <= N => list[t].doc >= doc)
    BY <1>0, <1>1, <1>3, <1>5
  <1>7. ASSUME NEW n \in s .. (t - 1) PROVE list[n].doc < doc
    <2>1. n \in s .. (N + 1) /\ ~(t <= n) /\ n \in 1 .. N
      BY <1>0, <1>3, <1>6
    <2>2. ~(list[n].doc >= doc)
      BY <1>1, <1>5, <2>1
    <2> QED
      BY <1>3, <2>1, <2>2
  <1> QED
    BY <1>0, <1>6, <1>7

----------------------------------------------------------------------------
(* GetDocsOp: what it makes of the list.                                   *)

\* Of the first s entries of l0, l keeps those with documents in keep as its
\* first d; the others are still there.
Kept(l, l0, d, s, keep) ==
  /\ l \in Lists /\ Len(l) = Len(l0) /\ d \in 0 .. s /\ s \in 0 .. Len(l0)
  /\ RightList(SubSeq(l, 1, d), Docs(l0, s) \cap keep, {})
  /\ \A n \in (s + 1) .. Len(l0) : l[n] = l0[n]

\* Of the first s entries of l0, l has those with documents in dd marked too.
Marked(l, l0, s, dd) ==
  /\ l \in Lists /\ Len(l) = Len(l0) /\ s \in 0 .. Len(l0)
  /\ \A n \in 1 .. s : l[n].doc = l0[n].doc /\ (Mk(l[n]) <=> Mk(l0[n]) \/ l0[n].doc \in dd)
  /\ \A n \in (s + 1) .. Len(l0) : l[n] = l0[n]

\* s entries of l0 are up to document doc, the others behind it.
Behind(l0, s, doc) == \A n \in 1 .. s : l0[n].doc <= doc
Before(l0, s, doc) == \A n \in (s + 1) .. Len(l0) : l0[n].doc > doc

\* From l, entries a + 1 to b of l0 are kept too, of those up to s2.
KeepsMore(l0, l, d, s, keep, a, b, s2, l2, d2) ==
  /\ a \in Nat /\ b \in Nat /\ s2 \in Nat /\ s <= a /\ a <= b /\ b <= s2 /\ s2 <= Len(l0)
  /\ \A n \in (s + 1) .. s2 : l0[n].doc \in keep <=> n \in (a + 1) .. b
  /\ l2 \in Lists /\ Len(l2) = Len(l0) /\ d2 \in Nat /\ d2 - d = b - a
  /\ \A m \in 1 .. d : l2[m] = l[m]
  /\ \A m \in (d + 1) .. d2 : l2[m] = l0[m - d + a]
  /\ \A n \in (s2 + 1) .. Len(l0) : l2[n] = l0[n]

\* One candidate more has been decided.
LEMMA KeptMore ==
  ASSUME NEW l0, NEW A, RightList(l0, A, {}), NEW l, NEW d, NEW s, NEW keep, Kept(l, l0, d, s, keep),
         NEW a, NEW b, NEW s2, NEW l2, NEW d2, KeepsMore(l0, l, d, s, keep, a, b, s2, l2, d2)
  PROVE  Kept(l2, l0, d2, s2, keep)
  <1> USE DEF KeepsMore
  <1>1. PICK N : N = Len(l0)
    OBVIOUS
  <1>2. /\ l0 \in Lists /\ N \in Nat
        /\ \A n \in 1 .. N : l0[n] \in ListItem /\ l0[n].doc \in Nat
        /\ \A m, n \in 1 .. N : m < n => l0[m].doc < l0[n].doc
        /\ \A n \in 1 .. N : ~Mk(l0[n])
    <2>1. \A n \in 1 .. N : Mk(l0[n]) <=> l0[n].doc \in {}
      BY <1>1, RightListFacts
    <2> QED
      BY <1>1, <2>1, RightListFacts
  <1>3. /\ l \in Lists /\ Len(l) = N /\ d \in 0 .. s /\ s \in 0 .. N
        /\ RightList(SubSeq(l, 1, d), Docs(l0, s) \cap keep, {})
    BY <1>1, Zenon DEF Kept
  <1>4. PICK S : S = {l0[n].doc : n \in (a + 1) .. b}
    OBVIOUS
  <1>5. b \in a .. N /\ a \in 0 .. N /\ s2 \in 0 .. N
    BY <1>1, <1>2
  <1>6. RightList(SubSeq(l0, a + 1, b), S, {})
    <2>1. \A n \in (a + 1) .. b : ~Mk(l0[n])
      BY <1>2, <1>5
    <2> QED
      BY <1>1, <1>4, <1>5, <2>1, SegmentRight
  <1>7. Docs(l0, s2) \cap keep = (Docs(l0, s) \cap keep) \cup S
    <2>1. ASSUME NEW x \in Docs(l0, s2) \cap keep PROVE x \in (Docs(l0, s) \cap keep) \cup S
      <3>1. PICK n \in 1 .. s2 : x = l0[n].doc
        BY DEF Docs
      <3>2. CASE n <= s
        <4>1. n \in 1 .. s
          BY <1>3, <1>5, <3>2
        <4> QED
          BY <3>1, <4>1, Zenon DEF Docs
      <3>3. CASE ~(n <= s)
        <4>1. n \in (s + 1) .. s2
          BY <1>3, <1>5, <3>3
        <4>2. n \in (a + 1) .. b
          BY <3>1, <4>1
        <4> QED
          BY <1>4, <3>1, <4>2
      <3> QED
        BY <3>2, <3>3
    <2>2. Docs(l0, s) \subseteq Docs(l0, s2)
      <3>1. \A n \in 1 .. s : n \in 1 .. s2
        BY <1>3, <1>5
      <3> QED
        BY <3>1, Zenon DEF Docs
    <2>3. ASSUME NEW x \in S PROVE x \in Docs(l0, s2) \cap keep
      <3>1. PICK n \in (a + 1) .. b : x = l0[n].doc
        BY <1>4
      <3>2. n \in (s + 1) .. s2 /\ n \in 1 .. s2
        BY <1>3, <1>5
      <3> QED
        BY <3>1, <3>2, Zenon DEF Docs
    <2> QED
      BY <2>1, <2>2, <2>3
  <1>8. \A x \in Docs(l0, s) \cap keep, y \in S : x < y
    <2> SUFFICES ASSUME NEW m \in 1 .. s, NEW n \in (a + 1) .. b PROVE l0[m].doc < l0[n].doc
      BY <1>4, Zenon DEF Docs
    <2>1. m \in 1 .. N /\ n \in 1 .. N /\ m < n
      BY <1>3, <1>5
    <2> QED
      BY <1>2, <2>1
  <1>9. SubSeq(l2, 1, d2) = SubSeq(l, 1, d) \o SubSeq(l0, a + 1, b)
    <2>1. PICK u, v, w : u = SubSeq(l2, 1, d2) /\ v = SubSeq(l, 1, d) /\ w = SubSeq(l0, a + 1, b)
      OBVIOUS
    <2>2. /\ Len(l2) = N /\ \A n \in 1 .. N : l[n] \in ListItem /\ l2[n] \in ListItem
      BY <1>1, <1>3, ListType
    <2>3. d \in Nat /\ d2 = d + (b - a) /\ d2 \in 0 .. N /\ d \in 0 .. N
      BY <1>2, <1>3, <1>5
    <2>4. u \in Seq(ListItem) /\ Len(u) = d2 /\ \A n \in 1 .. d2 : u[n] = l2[n]
      <3>1. \A n \in 1 .. d2 : l2[n] \in ListItem
        BY <1>2, <2>2, <2>3
      <3>2. /\ u \in Seq(ListItem) /\ Len(u) = (IF 1 <= d2 THEN d2 - 1 + 1 ELSE 0)
            /\ \A n \in 1 .. (d2 - 1 + 1) : u[n] = l2[1 + n - 1]
        BY ONLY <2>1, <2>3, <3>1, SubSeqProperties
      <3> QED
        BY ONLY <2>3, <3>2
    <2>5. v \in Seq(ListItem) /\ Len(v) = d /\ \A n \in 1 .. d : v[n] = l[n]
      <3>1. \A n \in 1 .. d : l[n] \in ListItem
        BY <1>2, <2>2, <2>3
      <3>2. /\ v \in Seq(ListItem) /\ Len(v) = (IF 1 <= d THEN d - 1 + 1 ELSE 0)
            /\ \A n \in 1 .. (d - 1 + 1) : v[n] = l[1 + n - 1]
        BY ONLY <2>1, <2>3, <3>1, SubSeqProperties
      <3> QED
        BY ONLY <2>3, <3>2
    <2>6. w \in Seq(ListItem) /\ Len(w) = b - a /\ \A n \in 1 .. b - a : w[n] = l0[a + n]
      <3>1. \A n \in (a + 1) .. b : l0[n] \in ListItem
        BY <1>2, <1>5
      <3>2. /\ w \in Seq(ListItem) /\ Len(w) = (IF a + 1 <= b THEN b - (a + 1) + 1 ELSE 0)
            /\ \A n \in 1 .. (b - (a + 1) + 1) : w[n] = l0[(a + 1) + n - 1]
        <4>1. a + 1 \in Int /\ b \in Int
          BY <1>5
        <4> QED
          BY ONLY <2>1, <3>1, <4>1, SubSeqProperties
      <3>3. b - (a + 1) + 1 = b - a /\ (a + 1 <= b => Len(w) = b - a) /\ (~(a + 1 <= b) => b - a = 0)
            /\ \A n \in 1 .. b - a : (a + 1) + n - 1 = a + n
        BY <1>5, <3>2
      <3> QED
        BY ONLY <3>2, <3>3
    <2>7. /\ v \o w \in Seq(ListItem) /\ Len(v \o w) = d2
          /\ \A n \in 1 .. d2 : (v \o w)[n] = IF n <= d THEN l[n] ELSE l0[a + (n - d)]
      <3>1. /\ v \o w \in Seq(ListItem) /\ Len(v \o w) = Len(v) + Len(w)
            /\ \A n \in 1 .. Len(v) + Len(w) : (v \o w)[n] = IF n <= Len(v) THEN v[n] ELSE w[n - Len(v)]
        BY ONLY <2>5, <2>6, ConcatProperties
      <3>2. Len(v) + Len(w) = d2
        BY ONLY <2>3, <2>5, <2>6
      <3>3. ASSUME NEW n \in 1 .. d2 PROVE (v \o w)[n] = IF n <= d THEN l[n] ELSE l0[a + (n - d)]
        <4>1. (v \o w)[n] = IF n <= d THEN v[n] ELSE w[n - d]
          BY ONLY <2>5, <3>1, <3>2, n \in 1 .. d2
        <4>2. (n <= d => n \in 1 .. d) /\ (~(n <= d) => n - d \in 1 .. b - a)
          BY ONLY <2>3, n \in 1 .. d2, a \in Nat, b \in Nat
        <4> QED
          BY ONLY <2>5, <2>6, <4>1, <4>2
      <3> QED
        BY ONLY <3>1, <3>2, <3>3
    <2>8. ASSUME NEW n \in 1 .. d2 PROVE u[n] = (v \o w)[n]
      <3>1. CASE n <= d
        <4>1. n \in 1 .. d
          BY <2>3, <3>1
        <4> QED
          BY <2>4, <2>7, <3>1, <4>1
      <3>2. CASE ~(n <= d)
        <4>1. n \in (d + 1) .. d2 /\ n - d + a = a + (n - d)
          BY <2>3, <3>2
        <4>2. u[n] = l0[n - d + a]
          BY <2>4, <4>1
        <4>3. (v \o w)[n] = l0[a + (n - d)]
          BY ONLY <2>7, <3>2, n \in 1 .. d2
        <4> QED
          BY ONLY <4>1, <4>2, <4>3
      <3> QED
        BY <3>1, <3>2
    <2>9. u = v \o w
      <3>1. PICK z : z = v \o w
        OBVIOUS
      <3>2. z \in Seq(ListItem) /\ Len(u) = Len(z) /\ (\A n \in 1 .. Len(u) : u[n] = z[n]) /\ u \in Seq(ListItem)
        BY <2>4, <2>7, <2>8, <3>1
      <3>3. u = z
        BY ONLY <3>2, SeqEqual
      <3> QED
        BY <3>1, <3>3
    <2> QED
      BY <2>1, <2>9
  <1>10. RightList(SubSeq(l2, 1, d2), Docs(l0, s2) \cap keep, {})
    <2>1. PICK v, w, B : v = SubSeq(l, 1, d) /\ w = SubSeq(l0, a + 1, b) /\ B = Docs(l0, s) \cap keep
      OBVIOUS
    <2>2. RightList(v, B, {}) /\ RightList(w, S, {}) /\ \A x \in B, y \in S : x < y
      BY ONLY <1>3, <1>6, <1>8, <2>1, Zenon
    <2>3. RightList(v \o w, B \cup S, {})
      BY ONLY <2>2, ConcatRight
    <2> QED
      BY ONLY <1>7, <1>9, <2>1, <2>3, Zenon
  <1>11. d2 \in 0 .. s2
    BY <1>3, <1>5
  <1> QED
    BY <1>1, <1>5, <1>10, <1>11, Zenon DEF Kept

----------------------------------------------------------------------------
(* GetDocsOp: a posting met by the list.                                   *)

\* What document doc does to the list.
Changed(doc, s, hit, s2) ==
  /\ op = "term" => /\ L' = Append(L, [doc |-> doc, or_included |-> FALSE])
                    /\ src' = src /\ dest' = dest
  /\ op = "and" => /\ L' = (IF hit THEN [L EXCEPT ![dest + 1] = L[s + 1]] ELSE L)
                   /\ dest' = (IF hit THEN dest + 1 ELSE dest)
                   /\ src' = s2
  /\ op = "and_or" => /\ L' = (IF hit THEN [L EXCEPT ![s + 1].or_included = TRUE] ELSE L)
                      /\ src' = Min({t \in s2 .. Len(L) : t = Len(L) \/ ~L[t + 1].or_included})
                      /\ dest' = dest
  /\ op = "diff" => /\ L' = [n \in DOMAIN L |-> IF n \in (dest + 1) .. (dest + s - src)
                                                THEN L[n - dest + src] ELSE L[n]]
                    /\ dest' = dest + s - src
                    /\ src' = s2

\* Match, field by field.
LEMMA MatchDoes ==
  ASSUME NEW doc, Match(doc), NEW s, s = Candidate(doc),
         NEW hit \in BOOLEAN, hit <=> s < Len(L) /\ L[s + 1].doc = doc,
         NEW s2, s2 = IF hit THEN s + 1 ELSE s
  PROVE  Changed(doc, s, hit, s2)
  BY Zenon DEF Match, Changed

\* The candidates before doc, and doc if it is one.
Matched(l0, dd, doc, s, hit, s2) ==
  /\ s \in src .. Len(l0) /\ s \in Nat /\ s2 \in s .. Len(l0) /\ s2 \in Nat
  /\ hit => s2 = s + 1 /\ s + 1 \in 1 .. Len(l0) /\ s + 1 \in (src + 1) .. Len(l0) /\ l0[s + 1].doc = doc
  /\ ~hit => s2 = s
  /\ \A n \in (src + 1) .. s : l0[n].doc < doc /\ l0[n].doc \notin dd
  /\ Before(l0, s2, doc)

\* The candidate a document meets is the one of the same number, if any.
LEMMA MatchedIs ==
  ASSUME NEW l0, NEW A, NEW g, RightList(l0, A, g), L \in Lists, Len(L) = Len(l0), src \in 0 .. Len(l0),
         \A n \in (src + 1) .. Len(l0) : L[n] = l0[n], Before(l0, src, CurrDoc),
         NEW dd, NEW doc \in Nat, \A x \in dd : x > CurrDoc => x >= doc,
         NEW s, s = Candidate(doc),
         NEW hit \in BOOLEAN, hit <=> s < Len(L) /\ L[s + 1].doc = doc,
         NEW s2, s2 = IF hit THEN s + 1 ELSE s
  PROVE  Matched(l0, dd, doc, s, hit, s2)
  <1>1. PICK N : N = Len(l0)
    OBVIOUS
  <1>2. /\ N \in Nat /\ Len(L) = N /\ src \in 0 .. N
        /\ \A n \in 1 .. N : l0[n].doc \in Nat
        /\ \A m, n \in 1 .. N : m < n => l0[m].doc < l0[n].doc
        /\ \A n \in (src + 1) .. N : L[n] = l0[n]
        /\ \A n \in (src + 1) .. N : l0[n].doc > CurrDoc
    BY <1>1, RightListFacts DEF Before
  <1>3. \A n \in 1 .. N : L[n].doc \in Nat
    BY <1>2, ListType
  <1>4. /\ s \in src .. N /\ s \in Nat
        /\ \A n \in (src + 1) .. s : L[n].doc < doc
        /\ s < N => L[s + 1].doc >= doc
    <2>1. N = Len(L)
      BY <1>2
    <2> QED
      BY ONLY <1>2, <1>3, <2>1, doc \in Nat, s = Candidate(doc), CandidateIs
  <1>5. \A n \in (src + 1) .. s : n \in (src + 1) .. N
    BY <1>2, <1>4
  <1>6. \A n \in (src + 1) .. s : l0[n].doc < doc
    BY <1>2, <1>4, <1>5
  <1>7. \A n \in (src + 1) .. s : l0[n].doc \notin dd
    <2> SUFFICES ASSUME NEW n \in (src + 1) .. s, l0[n].doc \in dd PROVE FALSE
      OBVIOUS
    <2>1. l0[n].doc > CurrDoc /\ l0[n].doc < doc /\ l0[n].doc \in Nat
      BY <1>2, <1>5, <1>6
    <2> QED
      BY <2>1
  <1>8. s < N => s + 1 \in (src + 1) .. N /\ s + 1 \in 1 .. N
    BY <1>2, <1>4
  <1>9. s < N => L[s + 1] = l0[s + 1] /\ l0[s + 1].doc >= doc
    BY <1>2, <1>4, <1>8
  <1>10. hit <=> s < N /\ l0[s + 1].doc = doc
    BY <1>2, <1>9
  <1>11. s2 \in s .. N /\ s2 \in Nat
    BY <1>2, <1>4, <1>10
  <1>12. \A n \in (s2 + 1) .. N : l0[n].doc > doc
    <2> SUFFICES ASSUME NEW n \in (s2 + 1) .. N PROVE l0[n].doc > doc
      OBVIOUS
    <2>1. s < N /\ n \in 1 .. N /\ s + 1 \in 1 .. N /\ n >= s + 1
      BY <1>2, <1>4, <1>8, <1>11
    <2>2. l0[n].doc \in Nat /\ l0[s + 1].doc \in Nat /\ l0[s + 1].doc >= doc
      BY <1>2, <1>9, <2>1
    <2>3. CASE hit
      <3>1. s + 1 < n
        BY <1>4, <2>1, <2>3
      <3>2. l0[s + 1].doc < l0[n].doc
        BY <1>2, <2>1, <3>1
      <3> QED
        BY <2>2, <3>2
    <2>4. CASE ~hit
      <3>1. l0[s + 1].doc # doc
        BY <1>10, <2>1, <2>4
      <3>2. l0[n].doc >= l0[s + 1].doc
        <4>1. CASE n = s + 1
          BY <2>2, <4>1
        <4>2. CASE s + 1 < n
          BY <1>2, <2>1, <2>2, <4>2
        <4> QED
          BY <2>1, <1>4, <4>1, <4>2
      <3> QED
        BY <2>2, <3>1, <3>2
    <2> QED
      BY <2>3, <2>4
  <1>13. hit => s2 = s + 1 /\ s + 1 \in 1 .. N /\ s + 1 \in (src + 1) .. N /\ l0[s + 1].doc = doc
    BY <1>8, <1>10
  <1> QED
    BY <1>1, <1>4, <1>6, <1>7, <1>11, <1>12, <1>13, Zenon DEF Matched, Before

\* An AND keeps the candidate that is met.
LEMMA MatchAnd ==
  ASSUME NEW l0, NEW A, RightList(l0, A, {}), NEW dd, Kept(L, l0, dest, src, dd),
         Behind(l0, src, CurrDoc), Before(l0, src, CurrDoc), op = "and",
         CurrDoc \in Nat, NEW doc \in Nat, CurrDoc < doc, doc \in dd,
         \A x \in dd : x > CurrDoc => x >= doc, Match(doc), CurrDoc' = doc
  PROVE  Kept(L, l0, dest, src, dd)' /\ Behind(l0, src, CurrDoc)' /\ Before(l0, src, CurrDoc)'
  <1>1. PICK N : N = Len(l0)
    OBVIOUS
  <1>2. PICK s : s = Candidate(doc)
    OBVIOUS
  <1>3. PICK hit \in BOOLEAN : hit <=> s < Len(L) /\ L[s + 1].doc = doc
    BY Zenon
  <1>4. PICK s2 : s2 = IF hit THEN s + 1 ELSE s
    OBVIOUS
  <1>5. /\ L \in Lists /\ Len(L) = N /\ dest \in 0 .. src /\ src \in 0 .. N
        /\ \A n \in (src + 1) .. N : L[n] = l0[n]
    BY <1>1, Zenon DEF Kept
  <1>6. Matched(l0, dd, doc, s, hit, s2)
    BY ONLY RightList(l0, A, {}), <1>1, <1>2, <1>3, <1>4, <1>5, Before(l0, src, CurrDoc), doc \in Nat,
       \A x \in dd : x > CurrDoc => x >= doc, MatchedIs
  <1>7. /\ s \in src .. N /\ s \in Nat /\ s2 \in s .. N /\ s2 \in Nat
        /\ hit => s2 = s + 1 /\ s + 1 \in 1 .. N /\ s + 1 \in (src + 1) .. N /\ l0[s + 1].doc = doc
        /\ ~hit => s2 = s
        /\ \A n \in (src + 1) .. s : l0[n].doc < doc /\ l0[n].doc \notin dd
        /\ Before(l0, s2, doc)
    BY ONLY <1>1, <1>6, Zenon DEF Matched
  <1>8. /\ L' = IF hit THEN [L EXCEPT ![dest + 1] = L[s + 1]] ELSE L
        /\ dest' = IF hit THEN dest + 1 ELSE dest
        /\ src' = s2
    <2>1. Changed(doc, s, hit, s2)
      BY ONLY <1>2, <1>3, <1>4, Match(doc), MatchDoes
    <2> QED
      BY ONLY <2>1, op = "and", Zenon DEF Changed
  <1>9. PICK l2, d2 : l2 = L' /\ d2 = dest'
    OBVIOUS
  <1>10. N \in Nat /\ src \in Nat /\ dest \in Nat /\ dest <= src
    BY <1>1, <1>5, ListType
  <1>11. Kept(l2, l0, d2, s2, dd)
    <2>1. \A n \in 1 .. N : L[n] \in ListItem
      BY <1>5, ListType
    <2>2. CASE hit
      <3>1. l2 = [L EXCEPT ![dest + 1] = L[s + 1]] /\ d2 = dest + 1 /\ s2 = s + 1 /\ L[s + 1] = l0[s + 1]
        BY <1>5, <1>7, <1>8, <1>9, <2>2
      <3>2. dest + 1 \in 1 .. N /\ L[s + 1] \in ListItem /\ dest + 1 <= s + 1
        BY <1>7, <1>10, <2>1, <2>2
      <3>3. /\ l2 \in Lists /\ Len(l2) = N
            /\ \A n \in 1 .. N : l2[n] = IF n = dest + 1 THEN L[s + 1] ELSE L[n]
        <4>1. PICK y, x : y = dest + 1 /\ x = L[s + 1]
          OBVIOUS
        <4>2. y \in 1 .. Len(L) /\ x \in ListItem /\ L \in Seq(ListItem) /\ l2 = [L EXCEPT ![y] = x]
          BY <1>5, <3>1, <3>2, <4>1 DEF Lists
        <4>3. /\ l2 \in Seq(ListItem) /\ Len(l2) = Len(L)
              /\ \A n \in 1 .. Len(L) : l2[n] = IF n = y THEN x ELSE L[n]
          BY ONLY <4>2, ExceptSeq
        <4> QED
          BY <1>5, <4>1, <4>3 DEF Lists
      <3>4. \A n \in (src + 1) .. s2 : l0[n].doc \in dd <=> n \in (s + 1) .. (s + 1)
        <4> SUFFICES ASSUME NEW n \in (src + 1) .. s2 PROVE l0[n].doc \in dd <=> n = s + 1
          BY <1>7
        <4>1. n \in (src + 1) .. s \/ n = s + 1
          BY <1>7, <1>10, <3>1
        <4>2. n \in (src + 1) .. s => n # s + 1
          BY <1>7, <1>10
        <4> QED
          BY <1>7, <2>2, <4>1, <4>2
      <3>5. \A m \in 1 .. dest : l2[m] = L[m]
        BY <1>10, <3>3, <1>5
      <3>6. \A m \in (dest + 1) .. d2 : l2[m] = l0[m - dest + s]
        <4> SUFFICES ASSUME NEW m \in (dest + 1) .. d2 PROVE l2[m] = l0[m - dest + s]
          OBVIOUS
        <4>1. m = dest + 1 /\ m - dest + s = s + 1
          BY <1>7, <1>10, <3>1
        <4>2. l2[m] = L[s + 1]
          BY <3>2, <3>3, <4>1
        <4> QED
          BY <3>1, <4>1, <4>2
      <3>7. \A n \in (s2 + 1) .. N : l2[n] = l0[n]
        <4> SUFFICES ASSUME NEW n \in (s2 + 1) .. N PROVE l2[n] = l0[n]
          OBVIOUS
        <4>1. n # dest + 1 /\ n \in 1 .. N /\ n \in (src + 1) .. N
          BY <1>7, <1>10, <3>1
        <4> QED
          BY <1>5, <3>3, <4>1
      <3>8. src <= s /\ s <= s + 1 /\ s + 1 <= s2 /\ s2 <= N /\ s + 1 \in Nat /\ d2 \in Nat /\ d2 - dest = (s + 1) - s
        BY <1>7, <1>10, <3>1
      <3> HIDE <1>9
      <3>9. PICK d, t, b : d = dest /\ t = src /\ b = s + 1
        OBVIOUS
      <3>10. PICK l : l = L
        OBVIOUS
      <3>11. KeepsMore(l0, l, d, t, dd, s, b, s2, l2, d2)
        BY ONLY <1>1, <1>7, <3>3, <3>4, <3>5, <3>6, <3>7, <3>8, <3>9, <3>10, Zenon DEF KeepsMore
      <3>12. Kept(l, l0, d, t, dd)
        BY ONLY <3>9, <3>10, Kept(L, l0, dest, src, dd), Zenon
      <3> QED
        BY ONLY RightList(l0, A, {}), <3>11, <3>12, KeptMore
    <2>3. CASE ~hit
      <3>1. l2 = L /\ d2 = dest /\ s2 = s
        BY <1>7, <1>8, <1>9, <2>3
      <3>2. \A n \in (src + 1) .. s2 : l0[n].doc \in dd <=> n \in (s + 1) .. s
        BY <1>7, <3>1
      <3>3. \A m \in (dest + 1) .. dest : l2[m] = l0[m - dest + s]
        BY <1>10
      <3>4. \A n \in (s2 + 1) .. N : l2[n] = l0[n]
        <4>1. \A n \in (s2 + 1) .. N : n \in (src + 1) .. N
          BY <1>7, <1>10
        <4> QED
          BY <1>5, <3>1, <4>1
      <3>5. src <= s /\ s <= s /\ s <= s2 /\ s2 <= N /\ dest - dest = s - s /\ d2 \in Nat
        BY <1>7, <1>10, <3>1
      <3> HIDE <1>9
      <3>6. PICK d, t : d = dest /\ t = src
        OBVIOUS
      <3>7. PICK l : l = L
        OBVIOUS
      <3>8. KeepsMore(l0, l, d, t, dd, s, s, s2, l2, d2)
        <4>1. d2 - d = s - s
          BY ONLY <1>7, <1>10, <3>1, <3>6
        <4>2. \A m \in (d + 1) .. d2 : l2[m] = l0[m - d + s]
          BY ONLY <1>7, <1>10, <3>1, <3>3, <3>6
        <4>3. l2 \in Lists /\ Len(l2) = N /\ \A m \in 1 .. d : l2[m] = l[m]
          BY ONLY <1>5, <3>1, <3>6, <3>7, Zenon
        <4> QED
          BY ONLY <1>1, <1>7, <3>2, <3>4, <3>5, <3>6, <4>1, <4>2, <4>3, Zenon DEF KeepsMore
      <3>9. Kept(l, l0, d, t, dd)
        BY ONLY <3>6, <3>7, Kept(L, l0, dest, src, dd), Zenon
      <3> QED
        BY ONLY RightList(l0, A, {}), <3>8, <3>9, KeptMore
    <2> QED
      BY <2>2, <2>3
  <1>12. Behind(l0, s2, doc)
    <2> SUFFICES ASSUME NEW n \in 1 .. s2 PROVE l0[n].doc <= doc
      BY Zenon DEF Behind
    <2>1. \A m \in 1 .. N : l0[m].doc \in Nat
      BY <1>1, RightListFacts
    <2>2. n \in 1 .. N
      BY <1>7, <1>10
    <2>3. n \in 1 .. src \/ n \in (src + 1) .. s \/ (hit /\ n = s + 1)
      BY <1>7, <1>10
    <2>4. n \in 1 .. src => l0[n].doc <= CurrDoc
      BY DEF Behind
    <2> QED
      BY <1>7, <2>1, <2>2, <2>3, <2>4
  <1> QED
    BY ONLY <1>7, <1>8, <1>9, <1>11, <1>12, CurrDoc' = doc, Zenon

\* A difference keeps those that are not.
LEMMA MatchDiff ==
  ASSUME NEW l0, NEW A, RightList(l0, A, {}), NEW dd,
         NEW keep, keep = (1 .. num_of_docs) \ dd, Kept(L, l0, dest, src, keep),
         Behind(l0, src, CurrDoc), Before(l0, src, CurrDoc), op = "diff",
         CurrDoc \in Nat, NEW doc \in Nat, CurrDoc < doc, doc \in dd,
         \A x \in dd : x > CurrDoc => x >= doc, Match(doc), CurrDoc' = doc
  PROVE  Kept(L, l0, dest, src, keep)' /\ Behind(l0, src, CurrDoc)' /\ Before(l0, src, CurrDoc)'
  <1>1. PICK N : N = Len(l0)
    OBVIOUS
  <1>2. PICK s : s = Candidate(doc)
    OBVIOUS
  <1>3. PICK hit \in BOOLEAN : hit <=> s < Len(L) /\ L[s + 1].doc = doc
    BY Zenon
  <1>4. PICK s2 : s2 = IF hit THEN s + 1 ELSE s
    OBVIOUS
  <1>5. /\ L \in Lists /\ Len(L) = N /\ dest \in 0 .. src /\ src \in 0 .. N
        /\ \A n \in (src + 1) .. N : L[n] = l0[n]
    BY <1>1, Zenon DEF Kept
  <1>6. Matched(l0, dd, doc, s, hit, s2)
    BY ONLY RightList(l0, A, {}), <1>1, <1>2, <1>3, <1>4, <1>5, Before(l0, src, CurrDoc), doc \in Nat,
       \A x \in dd : x > CurrDoc => x >= doc, MatchedIs
  <1>7. /\ s \in src .. N /\ s \in Nat /\ s2 \in s .. N /\ s2 \in Nat
        /\ hit => s2 = s + 1 /\ s + 1 \in 1 .. N /\ s + 1 \in (src + 1) .. N /\ l0[s + 1].doc = doc
        /\ ~hit => s2 = s
        /\ \A n \in (src + 1) .. s : l0[n].doc < doc /\ l0[n].doc \notin dd
        /\ Before(l0, s2, doc)
    BY ONLY <1>1, <1>6, Zenon DEF Matched
  <1>8. /\ L' = [n \in DOMAIN L |-> IF n \in (dest + 1) .. (dest + s - src) THEN L[n - dest + src] ELSE L[n]]
        /\ dest' = dest + s - src
        /\ src' = s2
    <2>1. Changed(doc, s, hit, s2)
      BY ONLY <1>2, <1>3, <1>4, Match(doc), MatchDoes
    <2> QED
      BY ONLY <2>1, op = "diff", Zenon DEF Changed
  <1>9. PICK l, l2, d, d2, t : l = L /\ l2 = L' /\ d = dest /\ d2 = dest' /\ t = src
    OBVIOUS
  <1>10. N \in Nat /\ t \in Nat /\ d \in Nat /\ d <= t /\ t <= s /\ d2 = d + (s - t) /\ d2 \in d .. s /\ d2 \in Nat
    <2>1. N \in Nat
      BY <1>1, <1>5, ListType
    <2> QED
      BY <1>5, <1>7, <1>8, <1>9, <2>1
  <1>11. DOMAIN l = 1 .. N /\ \A n \in 1 .. N : l[n] \in ListItem /\ l0[n].doc \in 1 .. num_of_docs /\ l0[n].doc \in Nat
    <2>1. \A n \in 1 .. N : l0[n].doc \in 1 .. num_of_docs /\ l0[n].doc \in Nat
      BY <1>1, RightListFacts
    <2> QED
      BY <1>5, <1>9, <2>1, ListType
  <1>12. \A n \in 1 .. N : l2[n] = IF n \in (d + 1) .. d2 THEN l[n - d + t] ELSE l[n]
    BY <1>8, <1>9, <1>11, Zenon
  <1>13. \A n \in (t + 1) .. N : l[n] = l0[n]
    BY <1>5, <1>9, Zenon
  <1>14. \A n \in (d + 1) .. d2 : n - d + t \in (t + 1) .. s /\ n - d + t \in 1 .. N /\ n \in 1 .. N
    BY <1>7, <1>10
  <1>15. l2 \in Lists /\ Len(l2) = N
    <2>1. l2 = [n \in 1 .. N |-> IF n \in (d + 1) .. d2 THEN l[n - d + t] ELSE l[n]]
      BY <1>8, <1>9, <1>11, Zenon
    <2>2. \A n \in 1 .. N : (IF n \in (d + 1) .. d2 THEN l[n - d + t] ELSE l[n]) \in ListItem
      BY <1>11, <1>14
    <2>3. l2 \in Seq(ListItem) /\ Len(l2) = N
      BY ONLY <1>10, <2>1, <2>2
    <2> QED
      BY <2>3 DEF Lists
  <1>16. KeepsMore(l0, l, d, t, keep, t, s, s2, l2, d2)
    <2>1. \A n \in (t + 1) .. s2 : l0[n].doc \in keep <=> n \in (t + 1) .. s
      <3> SUFFICES ASSUME NEW n \in (t + 1) .. s2 PROVE l0[n].doc \in keep <=> n \in (t + 1) .. s
        OBVIOUS
      <3>1. n \in 1 .. N
        BY <1>7, <1>10
      <3>2. n \in (t + 1) .. s \/ (hit /\ n = s + 1 /\ ~(n \in (t + 1) .. s))
        BY <1>7, <1>10
      <3>3. n \in (t + 1) .. s => l0[n].doc \in keep
        BY <1>7, <1>9, <1>11, <3>1
      <3>4. hit /\ n = s + 1 => l0[n].doc \notin keep
        BY <1>7
      <3> QED
        BY <3>2, <3>3, <3>4
    <2>2. t <= t /\ t <= s /\ s <= s2 /\ s2 <= N /\ d2 - d = s - t
      BY <1>7, <1>10
    <2>3. \A m \in 1 .. d : l2[m] = l[m]
      <3>1. \A m \in 1 .. d : m \in 1 .. N /\ ~(m \in (d + 1) .. d2)
        BY <1>7, <1>10
      <3> QED
        BY <1>12, <3>1
    <2>4. \A m \in (d + 1) .. d2 : l2[m] = l0[m - d + t]
      <3> SUFFICES ASSUME NEW m \in (d + 1) .. d2 PROVE l2[m] = l0[m - d + t]
        OBVIOUS
      <3>1. m - d + t \in (t + 1) .. N /\ m \in 1 .. N
        BY <1>7, <1>10
      <3>2. l2[m] = l[m - d + t]
        BY <1>12, <3>1
      <3> QED
        BY <1>13, <3>1, <3>2
    <2>5. \A n \in (s2 + 1) .. N : l2[n] = l0[n]
      <3> SUFFICES ASSUME NEW n \in (s2 + 1) .. N PROVE l2[n] = l0[n]
        OBVIOUS
      <3>1. n \in 1 .. N /\ ~(n \in (d + 1) .. d2) /\ n \in (t + 1) .. N
        BY <1>7, <1>10
      <3> QED
        BY <1>12, <1>13, <3>1
    <2> QED
      BY ONLY <1>1, <1>7, <1>10, <1>15, <2>1, <2>2, <2>3, <2>4, <2>5, Zenon DEF KeepsMore
  <1>17. Kept(l2, l0, d2, s2, keep)
    <2>1. Kept(l, l0, d, t, keep)
      BY ONLY <1>9, Kept(L, l0, dest, src, keep), Zenon
    <2> QED
      BY ONLY RightList(l0, A, {}), <1>16, <2>1, KeptMore
  <1>18. Behind(l0, s2, doc)
    <2> SUFFICES ASSUME NEW n \in 1 .. s2 PROVE l0[n].doc <= doc
      BY Zenon DEF Behind
    <2>1. n \in 1 .. N
      BY <1>7, <1>10
    <2>2. n \in 1 .. src \/ n \in (src + 1) .. s \/ (hit /\ n = s + 1)
      BY <1>7, <1>9, <1>10
    <2>3. n \in 1 .. src => l0[n].doc <= CurrDoc
      BY DEF Behind
    <2> QED
      BY <1>7, <1>11, <2>1, <2>2, <2>3
  <1> QED
    BY ONLY <1>7, <1>8, <1>9, <1>17, <1>18, CurrDoc' = doc, Zenon

\* A mark is or_included.
LEMMA MkIs ==
  ASSUME NEW x \in ListItem
  PROVE  (x.or_included <=> Mk(x)) /\ x.or_included \in BOOLEAN
  <1>1. x.or_included \in BOOLEAN
    BY DEF ListItem
  <1> QED
    BY ONLY <1>1, Zenon DEF Mk

\* An OR inside an AND marks the candidate that is met.
LEMMA MatchAndOr ==
  ASSUME NEW l0, NEW A, NEW g, RightList(l0, A, g), NEW dd, Marked(L, l0, src, dd),
         Before(l0, src, CurrDoc), op = "and_or",
         CurrDoc \in Nat, NEW doc \in Nat, CurrDoc < doc, doc \in dd,
         \A x \in dd : x > CurrDoc => x >= doc, Match(doc), CurrDoc' = doc
  PROVE  Marked(L, l0, src, dd)' /\ Before(l0, src, CurrDoc)' /\ dest' = dest
  <1>1. PICK N : N = Len(l0)
    OBVIOUS
  <1>2. PICK s : s = Candidate(doc)
    OBVIOUS
  <1>3. PICK hit \in BOOLEAN : hit <=> s < Len(L) /\ L[s + 1].doc = doc
    BY Zenon
  <1>4. PICK s2 : s2 = IF hit THEN s + 1 ELSE s
    OBVIOUS
  <1>5. /\ L \in Lists /\ Len(L) = N /\ src \in 0 .. N
        /\ \A n \in 1 .. src : L[n].doc = l0[n].doc /\ (Mk(L[n]) <=> Mk(l0[n]) \/ l0[n].doc \in dd)
        /\ \A n \in (src + 1) .. N : L[n] = l0[n]
    BY <1>1, Zenon DEF Marked
  <1>6. Matched(l0, dd, doc, s, hit, s2)
    BY ONLY RightList(l0, A, g), <1>1, <1>2, <1>3, <1>4, <1>5, Before(l0, src, CurrDoc), doc \in Nat,
       \A x \in dd : x > CurrDoc => x >= doc, MatchedIs
  <1>7. /\ s \in src .. N /\ s \in Nat /\ s2 \in s .. N /\ s2 \in Nat
        /\ hit => s2 = s + 1 /\ s + 1 \in 1 .. N /\ s + 1 \in (src + 1) .. N /\ l0[s + 1].doc = doc
        /\ ~hit => s2 = s
        /\ \A n \in (src + 1) .. s : l0[n].doc < doc /\ l0[n].doc \notin dd
        /\ Before(l0, s2, doc)
    BY ONLY <1>1, <1>6, Zenon DEF Matched
  <1>8. /\ L' = (IF hit THEN [L EXCEPT ![s + 1].or_included = TRUE] ELSE L)
        /\ src' = Min({t \in s2 .. Len(L) : t = Len(L) \/ ~L[t + 1].or_included})
        /\ dest' = dest
    <2>1. Changed(doc, s, hit, s2)
      BY ONLY <1>2, <1>3, <1>4, Match(doc), MatchDoes
    <2> QED
      BY ONLY <2>1, op = "and_or", Zenon DEF Changed
  <1>9. N \in Nat /\ src \in Nat /\ DOMAIN L = 1 .. N /\ \A n \in 1 .. N : L[n] \in ListItem
    BY <1>1, <1>5, ListType
  <1>10. PICK l2, u : l2 = L' /\ u = src'
    OBVIOUS
  <1>11. /\ u \in s2 .. N /\ u \in Nat
         /\ \A n \in (s2 + 1) .. u : Mk(L[n])
    <2>1. PICK S : S = {t \in s2 .. N : t = N \/ ~L[t + 1].or_included}
      OBVIOUS
    <2>2. u = Min(S)
      BY ONLY <1>5, <1>8, <1>10, <2>1, Zenon
    <2>3. S \in SUBSET Nat /\ N \in S
      BY <1>7, <1>9, <2>1
    <2>4. u \in S /\ \A x \in S : u <= x
      BY <2>2, <2>3, MinIs
    <2>5. u \in s2 .. N /\ u \in Nat
      BY <2>1, <2>3, <2>4
    <2>6. ASSUME NEW n \in (s2 + 1) .. u PROVE Mk(L[n])
      <3>1. PICK t : t = n - 1
        OBVIOUS
      <3>2. t \in s2 .. N /\ t # N /\ ~(u <= t) /\ t + 1 = n /\ n \in 1 .. N
        BY <1>7, <1>9, <2>5, <3>1
      <3>3. t \notin S
        BY <2>4, <3>2
      <3>4. L[t + 1].or_included
        BY ONLY <2>1, <3>2, <3>3, Zenon
      <3>5. L[n] \in ListItem /\ L[n].or_included
        BY ONLY <1>9, <3>2, <3>4, Zenon
      <3> QED
        BY ONLY <3>5, MkIs, Zenon
    <2> QED
      BY <2>5, <2>6
  <1>12. /\ l2 \in Lists /\ Len(l2) = N
         /\ \A n \in 1 .. N : ~(hit /\ n = s + 1) => l2[n] = L[n]
         /\ hit => l2[s + 1].doc = L[s + 1].doc /\ Mk(l2[s + 1])
    <2>1. CASE ~hit
      BY <1>5, <1>8, <1>10, <2>1
    <2>2. CASE hit
      <3>1. PICK y, r : y = s + 1 /\ r = [L[y] EXCEPT !.or_included = TRUE]
        OBVIOUS
      <3>2. y \in 1 .. N /\ L[y] \in ListItem
        BY <1>7, <1>9, <2>2, <3>1
      <3>3. r \in ListItem /\ r.doc = L[y].doc /\ r.or_included = TRUE
        BY <3>1, <3>2 DEF ListItem
      <3>4. l2 = [L EXCEPT ![y] = r]
        <4>1. l2 = [L EXCEPT ![s + 1].or_included = TRUE]
          BY <1>8, <1>10, <2>2
        <4>2. [L EXCEPT ![s + 1].or_included = TRUE] = [L EXCEPT ![s + 1] = [L[s + 1] EXCEPT !.or_included = TRUE]]
          OBVIOUS
        <4> QED
          BY ONLY <3>1, <4>1, <4>2, Zenon
      <3>5. L \in Seq(ListItem) /\ y \in 1 .. Len(L) /\ r \in ListItem
        BY <1>5, <3>2, <3>3 DEF Lists
      <3>6. /\ l2 \in Seq(ListItem) /\ Len(l2) = Len(L)
            /\ \A n \in 1 .. Len(L) : l2[n] = IF n = y THEN r ELSE L[n]
        BY ONLY <3>4, <3>5, ExceptSeq
      <3>7. Mk(r)
        BY <3>3 DEF Mk
      <3>8. l2 \in Lists /\ Len(l2) = N /\ \A n \in 1 .. N : l2[n] = IF n = y THEN r ELSE L[n]
        BY ONLY <1>5, <3>6, Zenon DEF Lists
      <3> QED
        BY ONLY <2>2, <3>1, <3>2, <3>3, <3>7, <3>8, Zenon
    <2> QED
      BY <2>1, <2>2
  <1>13. ASSUME NEW n \in 1 .. u
         PROVE  l2[n].doc = l0[n].doc /\ (Mk(l2[n]) <=> Mk(l0[n]) \/ l0[n].doc \in dd)
    <2>1. n \in 1 .. N
      BY <1>7, <1>9, <1>11
    <2>2. \/ n \in 1 .. src /\ ~(hit /\ n = s + 1)
          \/ n \in (src + 1) .. s /\ n \in (src + 1) .. N /\ ~(hit /\ n = s + 1)
          \/ hit /\ n = s + 1 /\ n \in (src + 1) .. N
          \/ n \in (s2 + 1) .. u /\ n \in (src + 1) .. N /\ ~(hit /\ n = s + 1)
      BY <1>7, <1>9, <1>11
    <2>3. CASE n \in 1 .. src /\ ~(hit /\ n = s + 1)
      BY <1>5, <1>12, <2>1, <2>3, Zenon
    <2>4. CASE n \in (src + 1) .. s /\ n \in (src + 1) .. N /\ ~(hit /\ n = s + 1)
      BY <1>5, <1>7, <1>12, <2>1, <2>4, Zenon
    <2>5. CASE hit /\ n = s + 1 /\ n \in (src + 1) .. N
      <3>1. l0[s + 1].doc = doc /\ L[s + 1] = l0[s + 1] /\ l2[s + 1].doc = L[s + 1].doc /\ Mk(l2[s + 1])
        BY <1>5, <1>7, <1>12, <2>5
      <3>2. l2[n].doc = l0[n].doc /\ l0[n].doc = doc /\ Mk(l2[n])
        BY ONLY <2>5, <3>1
      <3> QED
        BY <3>2, doc \in dd, Zenon
    <2>6. CASE n \in (s2 + 1) .. u /\ n \in (src + 1) .. N /\ ~(hit /\ n = s + 1)
      <3>1. l2[n] = L[n] /\ L[n] = l0[n] /\ Mk(L[n])
        BY <1>5, <1>11, <1>12, <2>1, <2>6, Zenon
      <3> QED
        BY <3>1, Zenon
    <2> QED
      BY <2>2, <2>3, <2>4, <2>5, <2>6
  <1>14. ASSUME NEW n \in (u + 1) .. N PROVE l2[n] = l0[n] /\ l0[n].doc > doc
    <2>1. n \in 1 .. N /\ n \in (src + 1) .. N /\ ~(hit /\ n = s + 1) /\ n \in (s2 + 1) .. N
      BY <1>7, <1>9, <1>11
    <2>2. l0[n].doc > doc
      BY <1>1, <1>7, <2>1, Zenon DEF Before
    <2> QED
      BY <1>5, <1>12, <2>1, <2>2, Zenon
  <1>15. u \in 0 .. N
    BY <1>7, <1>11
  <1>16. Marked(l2, l0, u, dd) /\ Before(l0, u, doc)
    BY ONLY <1>1, <1>12, <1>13, <1>14, <1>15, Zenon DEF Marked, Before
  <1> QED
    BY ONLY <1>8, <1>10, <1>16, CurrDoc' = doc, Zenon

----------------------------------------------------------------------------
(* GetDocsOp: the list in the end.                                         *)

\* The lists that GetDocsOp returns.  What is left of the list is in no document
\* of the word.
LEMMA ResultAnd ==
  ASSUME NEW l0, NEW A, RightList(l0, A, {}), NEW dd, Kept(L, l0, dest, src, dd), op = "and",
         \A n \in (src + 1) .. Len(l0) : l0[n].doc \notin dd
  PROVE  RightList(Result, A \cap dd, {})
  <1>1. /\ src \in 0 .. Len(l0)
        /\ RightList(SubSeq(L, 1, dest), Docs(l0, src) \cap dd, {})
    BY Zenon DEF Kept
  <1>2. Len(l0) \in Nat /\ A = Docs(l0, Len(l0))
    BY RightListFacts
  <1>3. Docs(l0, src) \cap dd = A \cap dd
    <2>1. ASSUME NEW x \in A \cap dd PROVE x \in Docs(l0, src)
      <3>1. PICK n \in 1 .. Len(l0) : x = l0[n].doc
        BY <1>2 DEF Docs
      <3>2. ~(n \in (src + 1) .. Len(l0))
        BY <3>1, Zenon
      <3>3. n \in 1 .. src
        BY <1>1, <1>2, <3>2
      <3> QED
        BY <3>1, <3>3, Zenon DEF Docs
    <2>2. ASSUME NEW x \in Docs(l0, src) PROVE x \in A
      <3>1. PICK n \in 1 .. src : x = l0[n].doc
        BY DEF Docs
      <3>2. n \in 1 .. Len(l0)
        BY <1>1, <1>2
      <3> QED
        BY <1>2, <3>1, <3>2, Zenon DEF Docs
    <2> QED
      BY <2>1, <2>2
  <1>4. Result = SubSeq(L, 1, dest)
    BY DEF Result
  <1> QED
    BY ONLY <1>1, <1>3, <1>4, Zenon

\* In the end a difference has what the word does not.
LEMMA ResultDiff ==
  ASSUME NEW l0, NEW A, RightList(l0, A, {}), NEW dd,
         NEW keep, keep = (1 .. num_of_docs) \ dd, Kept(L, l0, dest, src, keep), op = "diff",
         \A n \in (src + 1) .. Len(l0) : l0[n].doc \notin dd
  PROVE  RightList(Result, A \ dd, {})
  <1>1. PICK N, s : N = Len(l0) /\ s = src
    OBVIOUS
  <1>2. /\ L \in Lists /\ Len(L) = N /\ s \in 0 .. N
        /\ RightList(SubSeq(L, 1, dest), Docs(l0, s) \cap keep, {})
        /\ \A n \in (s + 1) .. N : L[n] = l0[n]
    BY <1>1, Zenon DEF Kept
  <1>3. /\ N \in Nat /\ A = Docs(l0, N) /\ A \subseteq 1 .. num_of_docs
        /\ \A n \in 1 .. N : l0[n] \in ListItem
        /\ \A m, n \in 1 .. N : m < n => l0[m].doc < l0[n].doc
        /\ \A n \in 1 .. N : ~Mk(l0[n])
    <2>1. \A n \in 1 .. N : Mk(l0[n]) <=> l0[n].doc \in {}
      BY <1>1, RightListFacts
    <2> QED
      BY <1>1, <2>1, RightListFacts
  <1>4. PICK u, v, w : u = SubSeq(L, 1, dest) /\ v = SubSeq(L, s + 1, N) /\ w = SubSeq(l0, s + 1, N)
    OBVIOUS
  <1>5. v = w
    <2>1. \A n \in (s + 1) .. N : L[n] \in ListItem /\ l0[n] \in ListItem
      BY <1>2, <1>3
    <2>2. s + 1 \in Int /\ N \in Int
      BY <1>2, <1>3
    <2>3. /\ v \in Seq(ListItem) /\ Len(v) = (IF s + 1 <= N THEN N - (s + 1) + 1 ELSE 0)
          /\ \A n \in 1 .. (N - (s + 1) + 1) : v[n] = L[(s + 1) + n - 1]
      BY ONLY <1>4, <2>1, <2>2, SubSeqProperties
    <2>4. /\ w \in Seq(ListItem) /\ Len(w) = (IF s + 1 <= N THEN N - (s + 1) + 1 ELSE 0)
          /\ \A n \in 1 .. (N - (s + 1) + 1) : w[n] = l0[(s + 1) + n - 1]
      BY ONLY <1>4, <2>1, <2>2, SubSeqProperties
    <2>5. Len(v) = N - s /\ Len(w) = N - s /\ N - (s + 1) + 1 = N - s
      BY <1>2, <1>3, <2>3, <2>4
    <2>6. \A n \in 1 .. N - s : (s + 1) + n - 1 \in (s + 1) .. N
      BY <1>2, <1>3
    <2>7. \A n \in 1 .. Len(v) : v[n] = w[n]
      <3> SUFFICES ASSUME NEW n \in 1 .. N - s PROVE v[n] = w[n]
        BY <2>5
      <3>1. PICK k : k = (s + 1) + n - 1
        OBVIOUS
      <3>2. k \in (s + 1) .. N /\ v[n] = L[k] /\ w[n] = l0[k]
        BY <2>3, <2>4, <2>5, <2>6, <3>1
      <3> QED
        BY <1>2, <3>2
    <2> QED
      BY ONLY <2>3, <2>4, <2>5, <2>7, SeqEqual
  <1>6. PICK S : S = {l0[n].doc : n \in (s + 1) .. N}
    OBVIOUS
  <1>7. RightList(w, S, {})
    <2>1. \A n \in (s + 1) .. N : ~Mk(l0[n])
      BY <1>2, <1>3
    <2>2. s \in Nat /\ N \in s .. Len(l0)
      BY <1>1, <1>2, <1>3
    <2> QED
      BY <1>4, <1>6, <2>1, <2>2, SegmentRight
  <1>8. \A x \in Docs(l0, s) \cap keep, y \in S : x < y
    <2> SUFFICES ASSUME NEW m \in 1 .. s, NEW n \in (s + 1) .. N PROVE l0[m].doc < l0[n].doc
      BY <1>6, Zenon DEF Docs
    <2>1. m \in 1 .. N /\ n \in 1 .. N /\ m < n
      BY <1>2, <1>3
    <2> QED
      BY <1>3, <2>1
  <1>9. (Docs(l0, s) \cap keep) \cup S = A \ dd
    <2>1. \A n \in (s + 1) .. N : l0[n].doc \notin dd /\ n \in 1 .. N
      BY <1>1, <1>2, <1>3
    <2>2. \A n \in 1 .. s : n \in 1 .. N
      BY <1>2, <1>3
    <2>3. \A n \in 1 .. N : n \in 1 .. s \/ n \in (s + 1) .. N
      BY <1>2, <1>3
    <2>4. ASSUME NEW x \in A \ dd PROVE x \in (Docs(l0, s) \cap keep) \cup S
      <3>1. x \in keep
        BY <1>3
      <3>2. PICK n \in 1 .. N : x = l0[n].doc
        BY <1>3 DEF Docs
      <3>3. n \in 1 .. s => x \in Docs(l0, s)
        BY <3>2, Zenon DEF Docs
      <3>4. n \in (s + 1) .. N => x \in S
        BY <1>6, <3>2
      <3> QED
        BY <2>3, <3>1, <3>3, <3>4
    <2>5. Docs(l0, s) \subseteq A /\ S \subseteq A \ dd
      <3>1. S \subseteq A \ dd
        BY <1>3, <1>6, <2>1, Zenon DEF Docs
      <3>2. Docs(l0, s) \subseteq A
        BY <1>3, <2>2, Zenon DEF Docs
      <3> QED
        BY <3>1, <3>2
    <2> QED
      BY <2>4, <2>5
  <1>10. Result = u \o v
    BY <1>1, <1>2, <1>4 DEF Result
  <1>11. PICK B : B = Docs(l0, s) \cap keep
    OBVIOUS
  <1>12. RightList(u \o w, B \cup S, {})
    <2>1. RightList(u, B, {}) /\ RightList(w, S, {}) /\ \A x \in B, y \in S : x < y
      BY ONLY <1>2, <1>4, <1>7, <1>8, <1>11, Zenon
    <2> QED
      BY ONLY <2>1, ConcatRight
  <1> QED
    BY ONLY <1>5, <1>9, <1>10, <1>11, <1>12, Zenon

\* In the end an OR has marked what the word has.
LEMMA ResultAndOr ==
  ASSUME NEW l0, NEW A, NEW g, RightList(l0, A, g), NEW dd, Marked(L, l0, src, dd), op = "and_or",
         \A n \in (src + 1) .. Len(l0) : l0[n].doc \notin dd
  PROVE  RightList(Result, A, g \cup dd)
  <1>1. PICK N, l : N = Len(l0) /\ l = L
    OBVIOUS
  <1>2. /\ l \in Lists /\ Len(l) = N /\ src \in 0 .. N
        /\ \A n \in 1 .. src : l[n].doc = l0[n].doc /\ (Mk(l[n]) <=> Mk(l0[n]) \/ l0[n].doc \in dd)
        /\ \A n \in (src + 1) .. N : l[n] = l0[n]
    BY <1>1, Zenon DEF Marked
  <1>3. /\ N \in Nat
        /\ \A m, n \in 1 .. N : m < n => l0[m].doc < l0[n].doc
        /\ \A x \in A : \E n \in 1 .. N : x = l0[n].doc
        /\ \A n \in 1 .. N : l0[n].doc \in A
        /\ \A n \in 1 .. N : Mk(l0[n]) <=> l0[n].doc \in g
    BY <1>1, RightListFacts
  <1>4. ASSUME NEW n \in 1 .. N PROVE l[n].doc = l0[n].doc /\ (Mk(l[n]) <=> l0[n].doc \in g \cup dd)
    <2>1. n \in 1 .. src \/ n \in (src + 1) .. N
      BY <1>2, <1>3
    <2>2. CASE n \in 1 .. src
      BY <1>2, <1>3, <2>2
    <2>3. CASE n \in (src + 1) .. N
      <3>1. l[n] = l0[n] /\ l0[n].doc \notin dd
        BY <1>1, <1>2, <2>3
      <3> QED
        BY <1>3, <3>1
    <2> QED
      BY <2>1, <2>2, <2>3
  <1>5. PICK G : G = g \cup dd
    OBVIOUS
  <1>6. RightList(l, A, G)
    <2>1. \A m, n \in 1 .. Len(l) : m < n => l[m].doc < l[n].doc
      BY <1>2, <1>3, <1>4
    <2>2. \A x \in A : \E n \in 1 .. Len(l) : x = l[n].doc
      BY <1>2, <1>3, <1>4
    <2>3. \A n \in 1 .. Len(l) : l[n].doc \in A
      BY <1>2, <1>3, <1>4
    <2>4. \A n \in 1 .. Len(l) : Mk(l[n]) <=> l[n].doc \in G
      BY <1>2, <1>4, <1>5
    <2>5. l \in Lists
      BY <1>2
    <2> QED
      BY ONLY <2>1, <2>2, <2>3, <2>4, <2>5, RightListIs
  <1>7. Result = l
    BY <1>1 DEF Result
  <1> QED
    BY <1>5, <1>6, <1>7

\* The documents of an entry.
LEMMA DocsOfIs ==
  ASSUME NEW e \in Entries, NEW w, e = lists[w]
  PROVE  /\ DocsOf(w) \subseteq 1 .. num_of_docs /\ DocsOf(w) # {}
         /\ \A x \in DocsOf(w) : \E j \in 1 .. Len(e.docs) : x = D(e, j)
         /\ \A j \in 1 .. Len(e.docs) : D(e, j) \in DocsOf(w)
  <1>1. /\ Len(e.docs) \in Nat \ {0} /\ DOMAIN e.docs = 1 .. Len(e.docs)
        /\ \A j \in 1 .. Len(e.docs) : e.docs[j] \in 1 .. num_of_docs /\ D(e, j) = e.docs[j]
    BY EntryFacts, GapFacts
  <1>2. DocsOf(w) = {e.docs[j] : j \in 1 .. Len(e.docs)}
    BY <1>1, Zenon DEF DocsOf, ToSet
  <1>3. 1 \in 1 .. Len(e.docs)
    BY <1>1
  <1> QED
    BY <1>1, <1>2, <1>3

\* In the end a term is the documents of its word.
LEMMA ResultTerm ==
  ASSUME NEW e \in Entries, NEW w, e = lists[w], op = "term", L \in Lists, Len(L) = Len(e.docs),
         \A n \in 1 .. Len(L) : L[n] = [doc |-> D(e, n), or_included |-> FALSE]
  PROVE  RightList(Result, DocsOf(w), {})
  <1>1. PICK l, P : l = L /\ P = Len(e.docs)
    OBVIOUS
  <1>2. l \in Lists /\ Len(l) = P
    BY <1>1
  <1>3. \A n \in 1 .. P : l[n].doc = D(e, n) /\ ~Mk(l[n])
    <2> SUFFICES ASSUME NEW n \in 1 .. P PROVE l[n].doc = D(e, n) /\ ~Mk(l[n])
      OBVIOUS
    <2>1. l[n] = [doc |-> D(e, n), or_included |-> FALSE]
      BY <1>1
    <2>2. l[n].doc = D(e, n) /\ l[n].or_included = FALSE
      BY <2>1
    <2> QED
      BY <2>2 DEF Mk
  <1>4. P \in Nat /\ \A m, n \in 1 .. P : m < n => D(e, m) < D(e, n)
    BY <1>1, EntryFacts, GapFacts
  <1>5. PICK S : S = DocsOf(w)
    OBVIOUS
  <1>6. /\ \A x \in S : \E j \in 1 .. P : x = D(e, j)
        /\ \A j \in 1 .. P : D(e, j) \in S
    BY <1>1, <1>5, DocsOfIs
  <1>7. RightList(l, S, {})
    <2>1. \A m, n \in 1 .. Len(l) : m < n => l[m].doc < l[n].doc
      BY <1>2, <1>3, <1>4
    <2>2. \A x \in S : \E n \in 1 .. Len(l) : x = l[n].doc
      BY <1>2, <1>3, <1>6
    <2>3. \A n \in 1 .. Len(l) : l[n].doc \in S
      BY <1>2, <1>3, <1>6
    <2>4. \A n \in 1 .. Len(l) : Mk(l[n]) <=> l[n].doc \in {}
      BY <1>2, <1>3
    <2> QED
      BY ONLY <1>2, <2>1, <2>2, <2>3, <2>4, RightListIs
  <1>8. Result = l
    BY <1>1 DEF Result
  <1> QED
    BY <1>5, <1>7, <1>8

----------------------------------------------------------------------------
(* The list operations.                                                    *)

\* A list with one more document.
LEMMA DocsNext ==
  ASSUME NEW list, NEW n \in Nat
  PROVE  Docs(list, n + 1) = Docs(list, n) \cup {list[n + 1].doc} /\ Docs(list, 0) = {}
  <1>1. \A m \in 1 .. (n + 1) : m \in 1 .. n \/ m = n + 1
    OBVIOUS
  <1>2. \A m \in 1 .. n : m \in 1 .. (n + 1)
    OBVIOUS
  <1>3. n + 1 \in 1 .. (n + 1) /\ \A m \in 1 .. 0 : FALSE
    OBVIOUS
  <1> QED
    BY <1>1, <1>2, <1>3 DEF Docs

\* ReduceList leaves the marked entries, unmarked.
LEMMA ReducedIs ==
  ASSUME NEW list, NEW A, NEW g, RightList(list, A, g)
  PROVE  RightList(Reduced(list), A \cap g, {})
  <1>1. PICK N : N = Len(list)
    OBVIOUS
  <1>2. /\ N \in Nat /\ A = Docs(list, N)
        /\ \A n \in 1 .. N : list[n] \in ListItem /\ list[n].doc \in Nat
        /\ \A m, n \in 1 .. N : m < n => list[m].doc < list[n].doc
        /\ \A n \in 1 .. N : Mk(list[n]) <=> list[n].doc \in g
    BY <1>1, RightListFacts
  <1>3. PICK f : /\ f[0] = <<>>
                 /\ \A j \in 1 .. N : f[j] = IF list[j].or_included THEN Append(f[j - 1], Unmark(list[j]))
                                             ELSE f[j - 1]
                 /\ Reduced(list) = f[N]
    <2>1. N \in Nat /\ N = Len(list)
      BY <1>1, <1>2
    <2>2. ReduceRan(list)
      BY ONLY <2>1, ReduceIs
    <2>3. PICK f : ReduceRun(f, list, N) /\ Reduced(list) = f[N]
      BY ONLY <2>1, <2>2, Zenon DEF ReduceRan
    <2> QED
      BY ONLY <2>3, Zenon DEF ReduceRun
  <1> DEFINE Good(j) == RightList(f[j], Docs(list, j) \cap g, {})
             G == {j \in Nat : j <= N => Good(j)}
  <1>4. 0 \in G
    <2>1. Docs(list, 0) = {}
      BY DocsNext
    <2>2. Good(0)
      BY <1>3, <2>1, EmptyRight
    <2> QED
      BY <2>2
  <1>5. ASSUME NEW j \in Nat, j \in G PROVE j + 1 \in G
    <2> SUFFICES ASSUME j + 1 <= N PROVE Good(j + 1)
      OBVIOUS
    <2>1. RightList(f[j], Docs(list, j) \cap g, {})
      BY <1>2, <1>5
    <2> HIDE DEF G, Good
    <2>2. PICK k : k = j + 1
      OBVIOUS
    <2>3. k \in 1 .. N /\ k - 1 = j
      BY <1>2, <2>2
    <2>4. f[k] = IF list[k].or_included THEN Append(f[j], Unmark(list[k])) ELSE f[j]
      BY ONLY <1>3, <2>3, Zenon
    <2>5. Docs(list, k) = Docs(list, j) \cup {list[k].doc}
      BY <2>2, DocsNext
    <2>6. list[k] \in ListItem
      BY <1>2, <2>3
    <2>7. list[k].or_included <=> list[k].doc \in g
      BY <1>2, <2>3, <2>6, MkIs, Zenon
    <2>8. CASE list[k].or_included
      <3>1. PICK x : x = Unmark(list[k])
        OBVIOUS
      <3>2. x = [list[k] EXCEPT !.or_included = FALSE]
        BY <3>1, Zenon DEF Unmark
      <3>3. x \in ListItem /\ x.doc = list[k].doc /\ x.or_included = FALSE
        BY <2>6, <3>2 DEF ListItem
      <3>4. ~Mk(x)
        BY <3>3 DEF Mk
      <3>5. \A y \in Docs(list, j) \cap g : y < x.doc
        <4> SUFFICES ASSUME NEW m \in 1 .. j PROVE list[m].doc < list[k].doc
          BY <3>3, Zenon DEF Docs
        <4>1. m \in 1 .. N /\ m < k
          BY <1>2, <2>3
        <4> QED
          BY <1>2, <2>3, <4>1
      <3>6. PICK B : B = Docs(list, j) \cap g
        OBVIOUS
      <3>7. RightList(Append(f[j], x), B \cup {x.doc}, {})
        BY ONLY <2>1, <3>3, <3>4, <3>5, <3>6, AppendRight
      <3>8. Docs(list, k) \cap g = B \cup {x.doc}
        BY <2>5, <2>7, <2>8, <3>3, <3>6
      <3>9. f[k] = Append(f[j], x)
        BY ONLY <2>4, <2>8, <3>1, Zenon
      <3>10. RightList(f[k], Docs(list, k) \cap g, {})
        BY ONLY <3>7, <3>8, <3>9, Zenon
      <3> QED
        BY <2>2, <3>10 DEF Good
    <2>9. CASE ~list[k].or_included
      <3>1. Docs(list, k) \cap g = Docs(list, j) \cap g
        BY <2>5, <2>7, <2>9
      <3>2. f[k] = f[j]
        BY ONLY <2>4, <2>9, Zenon
      <3>3. RightList(f[k], Docs(list, k) \cap g, {})
        BY ONLY <2>1, <3>1, <3>2, Zenon
      <3> QED
        BY <2>2, <3>3 DEF Good
    <2> QED
      BY <2>8, <2>9
  <1>6. Good(N)
    <2>1. Nat \subseteq G
      <3> HIDE DEF G
      <3> QED
        BY <1>4, <1>5, NatInductionOnSet
    <2> QED
      BY <1>2, <2>1
  <1> QED
    BY <1>2, <1>3, <1>6

\* What the rounds need of a list.
Sorted(list, N) ==
  /\ list \in Lists /\ N = Len(list) /\ N \in Nat
  /\ \A m \in 1 .. N : list[m] \in ListItem /\ list[m].doc \in Nat /\ ~Mk(list[m])
  /\ \A m, n \in 1 .. N : m < n => list[m].doc < list[n].doc
  /\ \A m, n \in 1 .. N : m <= n => list[m].doc <= list[n].doc

\* A right list is sorted, and its documents are its set.
LEMMA SortedIs ==
  ASSUME NEW list, NEW A, RightList(list, A, {})
  PROVE  Sorted(list, Len(list)) /\ A = Docs(list, Len(list))
  <1>1. PICK N : N = Len(list)
    OBVIOUS
  <1>2. /\ list \in Lists /\ N \in Nat
        /\ \A m \in 1 .. N : list[m] \in ListItem /\ list[m].doc \in Nat
        /\ \A m, n \in 1 .. N : m < n => list[m].doc < list[n].doc
        /\ A = Docs(list, N)
    BY <1>1, RightListFacts
  <1>3. \A m \in 1 .. N : ~Mk(list[m])
    <2>1. \A m \in 1 .. N : Mk(list[m]) <=> list[m].doc \in {}
      BY <1>1, RightListFacts
    <2> QED
      BY <2>1
  <1>4. ASSUME NEW m \in 1 .. N, NEW n \in 1 .. N, m <= n PROVE list[m].doc <= list[n].doc
    <2>1. m = n \/ m < n
      BY <1>2, <1>4
    <2>2. m = n => list[m].doc = list[n].doc
      OBVIOUS
    <2> QED
      BY <1>2, <2>1, <2>2
  <1> QED
    BY <1>1, <1>2, <1>3, <1>4, Zenon DEF Sorted

\* IntersectLists before round n.
Intersecting(l1, l2, B, s, n) ==
  /\ s.s1 \in 1 .. (Len(l1) + 1) /\ s.s2 \in 1 .. (Len(l2) + 1)
  /\ RightList(s.out, Docs(l1, s.s1 - 1) \cap B, {})
  /\ s.s1 <= Len(l1) => \A m \in 1 .. (s.s2 - 1) : l2[m].doc < l1[s.s1].doc
  /\ s.s1 > Len(l1) \/ s.s2 > Len(l2) \/ s.s1 + s.s2 >= n + 2

\* The places after a round.
IntersectTo(l1, l2, a, b, after, t1, t2) ==
  /\ after \in a .. (Len(l1) + 1) /\ after <= a + 1
  /\ t1 \in after .. (Len(l1) + 1) /\ t2 \in b .. (Len(l2) + 1)
  /\ after > Len(l1) => t2 = b /\ t1 = after
  /\ after <= Len(l1) => \A m \in b .. (t2 - 1) : l2[m].doc < l1[after].doc
  /\ after <= Len(l1) /\ t2 <= Len(l2) => l2[t2].doc >= l1[after].doc
  /\ t2 > Len(l2) => t1 = after
  /\ t2 <= Len(l2) => \A m \in after .. (t1 - 1) : l1[m].doc < l2[t2].doc
  /\ t2 <= Len(l2) /\ t1 <= Len(l1) => l1[t1].doc >= l2[t2].doc

\* Where a round of IntersectLists leaves the two places.
LEMMA IntersectPlaces ==
  ASSUME NEW l1, NEW l2, Sorted(l1, Len(l1)), Sorted(l2, Len(l2)),
         NEW a \in 1 .. Len(l1), NEW b \in 1 .. Len(l2),
         NEW after \in {a, a + 1},
         NEW t2, t2 = IF after > Len(l1) THEN b ELSE From(l2, b, l1[after].doc),
         NEW t1, t1 = IF t2 > Len(l2) THEN after ELSE From(l1, after, l2[t2].doc)
  PROVE  IntersectTo(l1, l2, a, b, after, t1, t2)
  <1>1. PICK N1, N2 : N1 = Len(l1) /\ N2 = Len(l2)
    OBVIOUS
  <1>2. /\ l1 \in Lists /\ N1 \in Nat /\ \A m \in 1 .. N1 : l1[m].doc \in Nat
        /\ l2 \in Lists /\ N2 \in Nat /\ \A m \in 1 .. N2 : l2[m].doc \in Nat
    BY <1>1, Zenon DEF Sorted
  <1>3. a \in 1 .. N1 /\ b \in 1 .. N2 /\ after \in a .. (N1 + 1) /\ after \in 1 .. (N1 + 1)
        /\ b \in 1 .. (N2 + 1) /\ after <= a + 1 /\ b \in b .. (N2 + 1)
    BY <1>1, <1>2
  <1>4. CASE after > N1
    <2>1. t2 = b /\ ~(t2 > N2) /\ t2 \in 1 .. N2 /\ ~(after <= N1)
      BY <1>1, <1>2, <1>3, <1>4
    <2>2. l2[t2].doc \in Nat
      BY <1>2, <2>1
    <2>3. t1 = From(l1, after, l2[t2].doc)
      BY <1>1, <2>1
    <2>4. t1 \in after .. (N1 + 1) /\ (\A m \in after .. (t1 - 1) : l1[m].doc < l2[t2].doc)
          /\ (t1 <= N1 => l1[t1].doc >= l2[t2].doc)
      BY ONLY <1>1, <1>2, <1>3, <2>2, <2>3, FromIs
    <2>5. t1 = after
      BY <1>2, <1>3, <1>4, <2>4
    <2> QED
      BY ONLY <1>1, <1>3, <1>4, <2>1, <2>4, <2>5, Zenon DEF IntersectTo
  <1>5. CASE ~(after > N1)
    <2>1. after \in 1 .. N1 /\ t2 = From(l2, b, l1[after].doc)
      BY <1>1, <1>2, <1>3, <1>5
    <2>2. l1[after].doc \in Nat
      BY <1>2, <2>1
    <2>3. t2 \in b .. (N2 + 1) /\ (\A m \in b .. (t2 - 1) : l2[m].doc < l1[after].doc)
          /\ (t2 <= N2 => l2[t2].doc >= l1[after].doc)
      BY ONLY <1>1, <1>2, <1>3, <2>1, <2>2, FromIs
    <2>4. CASE t2 > N2
      <3>1. t1 = after /\ ~(t2 <= N2) /\ t1 \in after .. (N1 + 1)
        BY <1>1, <1>2, <1>3, <2>3, <2>4
      <3> QED
        BY ONLY <1>1, <1>3, <1>5, <2>3, <2>4, <3>1, Zenon DEF IntersectTo
    <2>5. CASE ~(t2 > N2)
      <3>1. t2 \in 1 .. N2 /\ t1 = From(l1, after, l2[t2].doc)
        BY <1>1, <1>2, <1>3, <2>3, <2>5
      <3>2. l2[t2].doc \in Nat
        BY <1>2, <3>1
      <3>3. t1 \in after .. (N1 + 1) /\ (\A m \in after .. (t1 - 1) : l1[m].doc < l2[t2].doc)
            /\ (t1 <= N1 => l1[t1].doc >= l2[t2].doc)
        BY ONLY <1>1, <1>2, <1>3, <3>1, <3>2, FromIs
      <3> QED
        BY ONLY <1>1, <1>3, <1>5, <2>3, <2>5, <3>3, Zenon DEF IntersectTo
    <2> QED
      BY <2>4, <2>5
  <1> QED
    BY <1>4, <1>5

\* What the round adds.
IntersectMore(l1, l2, B, a, b, t1, t2, S) ==
  /\ Docs(l1, t1 - 1) \cap B = (Docs(l1, a - 1) \cap B) \cup S
  /\ t1 <= Len(l1) => \A m \in 1 .. (t2 - 1) : l2[m].doc < l1[t1].doc
  /\ t1 > Len(l1) \/ t2 > Len(l2) \/ t1 + t2 >= (a + b) + 1

\* What a round of IntersectLists has still to look at.
LEMMA IntersectDocs ==
  ASSUME NEW l1, NEW l2, NEW B, Sorted(l1, Len(l1)), Sorted(l2, Len(l2)), B = Docs(l2, Len(l2)),
         NEW a \in 1 .. Len(l1), NEW b \in 1 .. Len(l2),
         \A m \in 1 .. (b - 1) : l2[m].doc < l1[a].doc,
         NEW hit \in BOOLEAN, hit <=> l1[a].doc = l2[b].doc,
         NEW after, after = IF hit THEN a + 1 ELSE a, NEW t1, NEW t2,
         IntersectTo(l1, l2, a, b, after, t1, t2),
         NEW S, S = IF hit THEN {l1[a].doc} ELSE {}
  PROVE  IntersectMore(l1, l2, B, a, b, t1, t2, S)
  <1>1. PICK N1, N2 : N1 = Len(l1) /\ N2 = Len(l2)
    OBVIOUS
  <1>2. /\ N1 \in Nat /\ \A m \in 1 .. N1 : l1[m].doc \in Nat
        /\ N2 \in Nat /\ \A m \in 1 .. N2 : l2[m].doc \in Nat
        /\ \A m, n \in 1 .. N1 : m <= n => l1[m].doc <= l1[n].doc
        /\ \A m, n \in 1 .. N2 : m <= n => l2[m].doc <= l2[n].doc
    BY <1>1, Zenon DEF Sorted
  <1>3. a \in 1 .. N1 /\ b \in 1 .. N2 /\ B = Docs(l2, N2)
    BY <1>1
  <1>4. /\ after \in a .. (N1 + 1) /\ after <= a + 1
        /\ t1 \in after .. (N1 + 1) /\ t2 \in b .. (N2 + 1)
        /\ after > N1 => t2 = b /\ t1 = after
        /\ after <= N1 => \A m \in b .. (t2 - 1) : l2[m].doc < l1[after].doc
        /\ after <= N1 /\ t2 <= N2 => l2[t2].doc >= l1[after].doc
        /\ t2 > N2 => t1 = after
        /\ t2 <= N2 => \A m \in after .. (t1 - 1) : l1[m].doc < l2[t2].doc
        /\ t2 <= N2 /\ t1 <= N1 => l1[t1].doc >= l2[t2].doc
    BY ONLY <1>1, IntersectTo(l1, l2, a, b, after, t1, t2), Zenon DEF IntersectTo
  <1>5. ASSUME NEW n \in after .. N1, NEW m \in 1 .. (t2 - 1) PROVE l2[m].doc < l1[n].doc
    <2>1. n \in 1 .. N1 /\ after \in 1 .. N1 /\ after <= N1 /\ m \in 1 .. N2 /\ after <= n /\ a <= n
      BY <1>2, <1>3, <1>4
    <2>2. l1[after].doc <= l1[n].doc /\ l1[a].doc <= l1[n].doc
      BY <1>2, <1>3, <2>1
    <2>3. l1[after].doc \in Nat /\ l1[a].doc \in Nat /\ l1[n].doc \in Nat /\ l2[m].doc \in Nat
      BY <1>2, <1>3, <2>1
    <2>4. m \in 1 .. (b - 1) \/ m \in b .. (t2 - 1)
      BY <1>3, <1>4
    <2>5. l2[m].doc < l1[a].doc \/ l2[m].doc < l1[after].doc
      BY <1>4, <2>1, <2>4
    <2> QED
      BY <2>2, <2>3, <2>5, SMTT(60)
  <1>6. ASSUME NEW n \in after .. (t1 - 1) PROVE l1[n].doc \notin B
    <2> SUFFICES ASSUME NEW m \in 1 .. N2, l1[n].doc = l2[m].doc PROVE FALSE
      BY <1>3 DEF Docs
    <2>1. n \in after .. N1 /\ n \in 1 .. N1
      BY <1>2, <1>3, <1>4
    <2>2. l1[n].doc \in Nat /\ l2[m].doc \in Nat
      BY <1>2, <2>1
    <2>3. CASE m \in 1 .. (t2 - 1)
      BY <1>5, <2>1, <2>2, <2>3
    <2>4. CASE ~(m \in 1 .. (t2 - 1))
      <3>1. t2 <= N2 /\ t2 <= m /\ t2 \in 1 .. N2
        BY <1>2, <1>3, <1>4, <2>4
      <3>2. l1[n].doc < l2[t2].doc /\ l2[t2].doc <= l2[m].doc /\ l2[t2].doc \in Nat
        BY <1>2, <1>4, <3>1
      <3> QED
        BY <2>2, <3>2
    <2> QED
      BY <2>3, <2>4
  <1>7. Docs(l1, t1 - 1) \cap B = (Docs(l1, a - 1) \cap B) \cup S
    <2>1. ASSUME NEW x \in Docs(l1, t1 - 1) \cap B PROVE x \in (Docs(l1, a - 1) \cap B) \cup S
      <3>1. PICK n \in 1 .. (t1 - 1) : x = l1[n].doc
        BY DEF Docs
      <3>2. ~(n \in after .. (t1 - 1))
        BY <1>6, <3>1
      <3>3. n \in 1 .. (a - 1) \/ (hit /\ n = a)
        BY <1>2, <1>3, <1>4, <3>2
      <3>4. n \in 1 .. (a - 1) => x \in Docs(l1, a - 1)
        BY <3>1, Zenon DEF Docs
      <3>5. hit /\ n = a => x \in S
        BY <3>1
      <3> QED
        BY <3>3, <3>4, <3>5
    <2>2. Docs(l1, a - 1) \subseteq Docs(l1, t1 - 1)
      <3>1. \A n \in 1 .. (a - 1) : n \in 1 .. (t1 - 1)
        BY <1>2, <1>3, <1>4
      <3> QED
        BY <3>1, Zenon DEF Docs
    <2>3. S \subseteq Docs(l1, t1 - 1) \cap B
      <3> SUFFICES ASSUME hit PROVE l1[a].doc \in Docs(l1, t1 - 1) /\ l2[b].doc \in B /\ l1[a].doc = l2[b].doc
        OBVIOUS
      <3>1. a \in 1 .. (t1 - 1) /\ b \in 1 .. N2
        BY <1>2, <1>3, <1>4
      <3> QED
        BY <1>3, <3>1, Zenon DEF Docs
    <2> QED
      BY <2>1, <2>2, <2>3
  <1>8. t1 <= N1 => \A m \in 1 .. (t2 - 1) : l2[m].doc < l1[t1].doc
    <2>1. t1 <= N1 => t1 \in after .. N1
      BY <1>2, <1>4
    <2> QED
      BY <1>5, <2>1
  <1>9. t1 > N1 \/ t2 > N2 \/ t1 + t2 >= (a + b) + 1
    <2>1. CASE hit
      BY <1>2, <1>3, <1>4, <2>1
    <2>2. CASE ~hit
      <3>1. after = a /\ after <= N1 /\ a <= t1 /\ b <= t2 /\ t1 \in Nat /\ t2 \in Nat
        BY <1>2, <1>3, <1>4, <2>2
      <3>2. ASSUME t1 = a, t2 = b PROVE FALSE
        <4>1. l2[b].doc >= l1[a].doc /\ l1[a].doc >= l2[b].doc /\ l1[a].doc \in Nat /\ l2[b].doc \in Nat
          BY <1>2, <1>3, <1>4, <3>1, <3>2
        <4> QED
          BY <2>2, <4>1
      <3> QED
        BY <1>3, <3>1, <3>2
    <2> QED
      BY <2>1, <2>2
  <1> QED
    BY ONLY <1>1, <1>7, <1>8, <1>9, Zenon DEF IntersectMore

----------------------------------------------------------------------------
(* IntersectLists.                                                         *)

\* Every place up to n is before the entry at n + 1.
LEMMA DocsBefore ==
  ASSUME NEW list, Sorted(list, Len(list)), NEW a \in 1 .. Len(list), NEW y \in Docs(list, a - 1)
  PROVE  y < list[a].doc
  <1>1. PICK N : N = Len(list)
    OBVIOUS
  <1>2. N \in Nat /\ (\A m, n \in 1 .. N : m < n => list[m].doc < list[n].doc)
    BY <1>1, Zenon DEF Sorted
  <1>3. PICK m \in 1 .. (a - 1) : y = list[m].doc
    BY DEF Docs
  <1>4. m \in 1 .. N /\ a \in 1 .. N /\ m < a
    BY <1>1, <1>2
  <1> QED
    BY ONLY <1>2, <1>3, <1>4

\* The list with one more entry.
LEMMA PutRight ==
  ASSUME NEW list, Sorted(list, Len(list)), NEW a \in 1 .. Len(list),
         NEW out, NEW A, RightList(out, A, {}), A \subseteq Docs(list, a - 1)
  PROVE  RightList(Append(out, list[a]), A \cup {list[a].doc}, {})
  <1>1. list[a] \in ListItem /\ ~Mk(list[a])
    BY Zenon DEF Sorted
  <1>2. \A y \in A : y < list[a].doc
    BY DocsBefore
  <1> QED
    BY <1>1, <1>2, AppendRight

\* A round of IntersectLists.
LEMMA IntersectStep ==
  ASSUME NEW l1, NEW l2, NEW B, Sorted(l1, Len(l1)), Sorted(l2, Len(l2)), B = Docs(l2, Len(l2)),
         NEW n \in Nat, NEW s, Intersecting(l1, l2, B, s, n)
  PROVE  Intersecting(l1, l2, B, IntersectRound(l1, l2, s), n + 1)
  <1>1. PICK N1, N2 : N1 = Len(l1) /\ N2 = Len(l2)
    OBVIOUS
  <1>2. N1 \in Nat /\ N2 \in Nat
    BY <1>1, Zenon DEF Sorted
  <1>3. PICK a, b, r : a = s.s1 /\ b = s.s2 /\ r = IntersectRound(l1, l2, s)
    OBVIOUS
  <1>4. /\ a \in 1 .. (N1 + 1) /\ b \in 1 .. (N2 + 1)
        /\ RightList(s.out, Docs(l1, a - 1) \cap B, {})
        /\ a <= N1 => \A m \in 1 .. (b - 1) : l2[m].doc < l1[a].doc
        /\ a > N1 \/ b > N2 \/ a + b >= n + 2
    BY ONLY <1>1, <1>3, Intersecting(l1, l2, B, s, n), Zenon DEF Intersecting
  <1>5. CASE a > N1 \/ b > N2
    <2>1. r = s
      BY ONLY <1>1, <1>3, <1>5, Zenon DEF IntersectRound
    <2> QED
      BY ONLY <1>1, <1>3, <1>4, <1>5, <2>1, Zenon DEF Intersecting
  <1>6. CASE ~(a > N1 \/ b > N2)
    <2>1. a \in 1 .. N1 /\ b \in 1 .. N2 /\ a <= N1 /\ a + b >= n + 2
      BY <1>2, <1>4, <1>6
    <2>2. PICK hit \in BOOLEAN : hit <=> l1[a].doc = l2[b].doc
      OBVIOUS
    <2>3. PICK after : after = IF hit THEN a + 1 ELSE a
      OBVIOUS
    <2>4. PICK t2 : t2 = IF after > Len(l1) THEN b ELSE From(l2, b, l1[after].doc)
      OBVIOUS
    <2>5. PICK t1 : t1 = IF t2 > Len(l2) THEN after ELSE From(l1, after, l2[t2].doc)
      OBVIOUS
    <2>6. r = [s1 |-> t1, s2 |-> t2, out |-> IF hit THEN Append(s.out, l1[a]) ELSE s.out]
      BY ONLY <1>1, <1>3, <1>6, <2>2, <2>3, <2>4, <2>5, Zenon DEF IntersectRound
    <2>7. after \in {a, a + 1}
      BY ONLY <2>3
    <2>8. IntersectTo(l1, l2, a, b, after, t1, t2)
      BY <1>1, <2>1, <2>4, <2>5, <2>7, IntersectPlaces
    <2>9. PICK S : S = IF hit THEN {l1[a].doc} ELSE {}
      OBVIOUS
    <2>16. IntersectMore(l1, l2, B, a, b, t1, t2, S)
      <3>1. a \in 1 .. Len(l1) /\ b \in 1 .. Len(l2)
            /\ \A m \in 1 .. (b - 1) : l2[m].doc < l1[a].doc
        BY ONLY <1>1, <1>4, <2>1
      <3>2. Sorted(l1, Len(l1)) /\ Sorted(l2, Len(l2)) /\ B = Docs(l2, Len(l2))
        OBVIOUS
      <3> QED
        BY ONLY <3>1, <3>2, <2>2, <2>3, <2>8, <2>9, IntersectDocs, SMTT(60)
    <2>10. /\ Docs(l1, t1 - 1) \cap B = (Docs(l1, a - 1) \cap B) \cup S
           /\ t1 <= Len(l1) => \A m \in 1 .. (t2 - 1) : l2[m].doc < l1[t1].doc
           /\ t1 > Len(l1) \/ t2 > Len(l2) \/ t1 + t2 >= (a + b) + 1
      BY ONLY <2>16, Zenon DEF IntersectMore
    <2>11. t1 \in 1 .. (N1 + 1) /\ t2 \in 1 .. (N2 + 1)
      <3>1. after \in a .. (N1 + 1) /\ t1 \in after .. (N1 + 1) /\ t2 \in b .. (N2 + 1)
        BY <1>1, <2>8, Zenon DEF IntersectTo
      <3> QED
        BY <1>2, <2>1, <3>1
    <2>12. RightList(r.out, Docs(l1, t1 - 1) \cap B, {})
      <3>1. CASE hit
        <4>1. r.out = Append(s.out, l1[a]) /\ S = {l1[a].doc}
          BY <2>6, <2>9, <3>1
        <4>2. Docs(l1, a - 1) \cap B \subseteq Docs(l1, a - 1)
          OBVIOUS
        <4>3. RightList(Append(s.out, l1[a]), (Docs(l1, a - 1) \cap B) \cup {l1[a].doc}, {})
          BY ONLY <1>1, <1>4, <2>1, <4>2, Sorted(l1, Len(l1)), PutRight
        <4> QED
          BY ONLY <2>10, <4>1, <4>3, Zenon
      <3>2. CASE ~hit
        <4>1. r.out = s.out /\ S = {}
          BY <2>6, <2>9, <3>2
        <4>2. Docs(l1, t1 - 1) \cap B = Docs(l1, a - 1) \cap B
          BY ONLY <2>10, <4>1
        <4> QED
          BY ONLY <1>4, <4>1, <4>2, Zenon
      <3> QED
        BY <3>1, <3>2
    <2>13. r.s1 = t1 /\ r.s2 = t2
      BY <2>6
    <2>14. t1 > N1 \/ t2 > N2 \/ t1 + t2 >= (n + 1) + 2
      BY <1>1, <1>2, <2>1, <2>10, <2>11
    <2>15. Intersecting(l1, l2, B, r, n + 1)
      BY ONLY <1>1, <2>10, <2>11, <2>12, <2>13, <2>14, Zenon DEF Intersecting
    <2> QED
      BY <1>3, <2>15
  <1> QED
    BY <1>5, <1>6

\* IntersectLists gives the documents of both lists.
LEMMA IntersectRight ==
  ASSUME NEW l1, NEW A, RightList(l1, A, {}), NEW l2, NEW B, RightList(l2, B, {})
  PROVE  RightList(IntersectLists(l1, l2), A \cap B, {})
  <1>0. PICK N1, N2 : N1 = Len(l1) /\ N2 = Len(l2)
    OBVIOUS
  <1>1. Sorted(l1, N1) /\ A = Docs(l1, N1) /\ Sorted(l2, N2) /\ B = Docs(l2, N2)
    BY <1>0, SortedIs
  <1>2. N1 \in Nat /\ N2 \in Nat
    BY <1>1, Zenon DEF Sorted
  <1>3. PICK n : n = N1 + N2
    OBVIOUS
  <1>4. n \in Nat
    BY <1>2, <1>3
  <1>5. PICK f : IntersectRun(f, l1, l2, n) /\ IntersectLists(l1, l2) = f[n].out
    <2>1. IntersectRan(l1, l2)
      BY <1>0, <1>3, <1>4, IntersectIs
    <2> QED
      BY ONLY <1>0, <1>3, <2>1, Zenon DEF IntersectRan
  <1>6. f[0] = FromStart /\ \A j \in 1 .. n : f[j] = IntersectRound(l1, l2, f[j - 1])
    BY <1>5, Zenon DEF IntersectRun
  <1> DEFINE Good(j) == Intersecting(l1, l2, B, f[j], j)
             G == {j \in Nat : j <= n => Good(j)}
  <1>7. 0 \in G
    <2>1. f[0].s1 = 1 /\ f[0].s2 = 1 /\ f[0].out = <<>>
      BY <1>6 DEF FromStart
    <2>2. Docs(l1, 0) \cap B = {}
      BY DocsNext
    <2>3. RightList(<<>>, Docs(l1, 1 - 1) \cap B, {})
      <3>1. 1 - 1 = 0
        OBVIOUS
      <3> QED
        BY ONLY <2>2, <3>1, EmptyRight
    <2>4. 1 \in 1 .. (N1 + 1) /\ 1 \in 1 .. (N2 + 1) /\ (\A m \in 1 .. (1 - 1) : l2[m].doc < l1[1].doc)
          /\ 1 + 1 >= 0 + 2
      BY <1>2
    <2>5. Good(0)
      BY ONLY <1>0, <2>1, <2>3, <2>4, Zenon DEF Intersecting
    <2> QED
      BY <2>5
  <1>8. ASSUME NEW j \in Nat, j \in G PROVE j + 1 \in G
    <2> SUFFICES ASSUME j + 1 <= n PROVE Good(j + 1)
      OBVIOUS
    <2>1. Good(j)
      BY <1>4, <1>8
    <2>2. j + 1 \in 1 .. n /\ (j + 1) - 1 = j
      BY <1>4
    <2>3. f[j + 1] = IntersectRound(l1, l2, f[j])
      <3>1. PICK m : m = j + 1
        OBVIOUS
      <3>2. m \in 1 .. n /\ m - 1 = j
        BY <2>2, <3>1
      <3>3. f[m] = IntersectRound(l1, l2, f[m - 1])
        BY <1>6, <3>2
      <3> QED
        BY ONLY <3>1, <3>2, <3>3
    <2>4. Intersecting(l1, l2, B, IntersectRound(l1, l2, f[j]), j + 1)
      BY <1>0, <1>1, <2>1, IntersectStep
    <2> QED
      BY <2>3, <2>4
  <1>9. Good(n)
    <2> HIDE DEF G, Good
    <2>1. Nat \subseteq G
      BY <1>7, <1>8, NatInductionOnSet
    <2>2. n \in G
      BY <1>4, <2>1
    <2> QED
      BY <1>4, <2>2 DEF G
  <1>10. PICK a, b : a = f[n].s1 /\ b = f[n].s2
    OBVIOUS
  <1>11. /\ a \in 1 .. (N1 + 1) /\ b \in 1 .. (N2 + 1)
         /\ RightList(f[n].out, Docs(l1, a - 1) \cap B, {})
         /\ a <= N1 => \A m \in 1 .. (b - 1) : l2[m].doc < l1[a].doc
         /\ a > N1 \/ b > N2 \/ a + b >= n + 2
    BY ONLY <1>0, <1>9, <1>10, Zenon DEF Intersecting
  <1>12. Docs(l1, a - 1) \cap B = A \cap B
    <2>1. CASE a > N1
      <3>1. a - 1 = N1
        BY <1>2, <1>11, <2>1
      <3> QED
        BY <1>1, <3>1
    <2>2. CASE ~(a > N1)
      <3>1. a \in 1 .. N1 /\ b - 1 = N2
        BY <1>2, <1>3, <1>11, <2>2
      <3>2. \A m \in 1 .. N1 : m \in 1 .. (a - 1) \/ m \in a .. N1
        BY <1>2, <3>1
      <3>3. ASSUME NEW m \in a .. N1, l1[m].doc \in B PROVE FALSE
        <4>1. PICK k \in 1 .. N2 : l1[m].doc = l2[k].doc
          BY <1>1, <3>3 DEF Docs
        <4>2. l2[k].doc < l1[a].doc
          BY <1>2, <1>11, <3>1
        <4>3. m \in 1 .. N1 /\ a <= m
          BY <1>2, <3>1
        <4>4. l1[a].doc <= l1[m].doc /\ l1[a].doc \in Nat /\ l1[m].doc \in Nat /\ l2[k].doc \in Nat
          BY <1>1, <3>1, <4>3, Zenon DEF Sorted
        <4> QED
          BY <4>1, <4>2, <4>4
      <3>4. Docs(l1, a - 1) \subseteq Docs(l1, N1)
        <4>1. \A m \in 1 .. (a - 1) : m \in 1 .. N1
          BY <1>2, <3>1
        <4> QED
          BY <4>1, Zenon DEF Docs
      <3>5. ASSUME NEW x \in A \cap B PROVE x \in Docs(l1, a - 1)
        <4>1. PICK m \in 1 .. N1 : x = l1[m].doc
          BY <1>1 DEF Docs
        <4>2. m \in 1 .. (a - 1)
          BY <3>2, <3>3, <4>1
        <4> QED
          BY <4>1, <4>2, Zenon DEF Docs
      <3> QED
        BY <1>1, <3>4, <3>5
    <2> QED
      BY <2>1, <2>2
  <1> QED
    BY ONLY <1>5, <1>11, <1>12, Zenon

----------------------------------------------------------------------------
(* DiffLists.                                                              *)

\* DiffLists before round n.
Subtracting(l1, l2, B, s, n) ==
  /\ s.s1 \in 1 .. (Len(l1) + 1) /\ s.s2 \in 1 .. (Len(l2) + 1)
  /\ RightList(s.out, Docs(l1, s.s1 - 1) \ B, {})
  /\ s.s1 <= Len(l1) => \A m \in 1 .. (s.s2 - 1) : l2[m].doc < l1[s.s1].doc
  /\ s.s1 > Len(l1) \/ s.s1 + s.s2 >= n + 2

\* A round of DiffLists.
LEMMA DiffStep ==
  ASSUME NEW l1, NEW l2, NEW B, Sorted(l1, Len(l1)), Sorted(l2, Len(l2)), B = Docs(l2, Len(l2)),
         NEW n \in Nat, NEW s, Subtracting(l1, l2, B, s, n)
  PROVE  Subtracting(l1, l2, B, DiffRound(l1, l2, s), n + 1)
  <1>1. PICK N1, N2 : N1 = Len(l1) /\ N2 = Len(l2)
    OBVIOUS
  <1>2. /\ N1 \in Nat /\ N2 \in Nat
        /\ \A m \in 1 .. N1 : l1[m].doc \in Nat
        /\ \A m \in 1 .. N2 : l2[m].doc \in Nat
        /\ \A m, k \in 1 .. N1 : m < k => l1[m].doc < l1[k].doc
        /\ \A m, k \in 1 .. N2 : m <= k => l2[m].doc <= l2[k].doc
    BY <1>1, Zenon DEF Sorted
  <1>3. PICK a, b, r : a = s.s1 /\ b = s.s2 /\ r = DiffRound(l1, l2, s)
    OBVIOUS
  <1>4. /\ a \in 1 .. (N1 + 1) /\ b \in 1 .. (N2 + 1)
        /\ RightList(s.out, Docs(l1, a - 1) \ B, {})
        /\ a <= N1 => \A m \in 1 .. (b - 1) : l2[m].doc < l1[a].doc
        /\ a > N1 \/ a + b >= n + 2
    BY ONLY <1>1, <1>3, Subtracting(l1, l2, B, s, n), Zenon DEF Subtracting
  <1>5. CASE a > N1
    <2>1. r = s
      BY ONLY <1>1, <1>3, <1>5, Zenon DEF DiffRound
    <2> QED
      BY ONLY <1>1, <1>3, <1>4, <1>5, <2>1, Zenon DEF Subtracting
  <1>6. CASE ~(a > N1)
    <2>1. a \in 1 .. N1 /\ a <= N1 /\ a + b >= n + 2 /\ l1[a].doc \in Nat /\ (a + 1) - 1 = a
          /\ (\A m \in 1 .. (b - 1) : l2[m].doc < l1[a].doc)
      BY <1>2, <1>4, <1>6
    <2>2. PICK both \in BOOLEAN : both <=> b <= N2 /\ l1[a].doc = l2[b].doc
      OBVIOUS
    <2>3. PICK only \in BOOLEAN : only <=> b > N2 \/ l1[a].doc < l2[b].doc
      OBVIOUS
    <2>4. PICK t1, t2 : t1 = (IF only \/ both THEN a + 1 ELSE a) /\ t2 = (IF only THEN b ELSE b + 1)
      OBVIOUS
    <2>5. r = [s1 |-> t1, s2 |-> t2, out |-> IF only THEN Append(s.out, l1[a]) ELSE s.out]
      BY ONLY <1>1, <1>3, <1>6, <2>2, <2>3, <2>4, Zenon DEF DiffRound
    <2>6. ~only => b <= N2 /\ b \in 1 .. N2 /\ l2[b].doc \in Nat /\ l2[b].doc <= l1[a].doc
      BY <1>2, <1>4, <2>1, <2>3
    <2>7. t1 \in 1 .. (N1 + 1) /\ t2 \in 1 .. (N2 + 1)
      BY <1>2, <1>4, <2>1, <2>4, <2>6
    <2>8. t1 + t2 >= (n + 1) + 2
      BY <1>2, <1>4, <2>1, <2>4
    <2>9. ASSUME t1 <= N1, NEW m \in 1 .. (t2 - 1) PROVE l2[m].doc < l1[t1].doc
      <3>1. m \in 1 .. (b - 1) \/ (~only /\ m = b)
        BY <1>4, <2>4
      <3>2. m \in 1 .. N2 /\ l2[m].doc \in Nat /\ t1 \in 1 .. N1 /\ l1[t1].doc \in Nat
        BY <1>2, <2>7, <2>9
      <3>3. t1 = a + 1 => l1[a].doc < l1[t1].doc
        BY <1>2, <2>1, <3>2
      <3>4. t1 = a => ~only /\ ~both
        BY <2>1, <2>4
      <3>5. t1 = a \/ t1 = a + 1
        BY <2>4
      <3>6. t1 = a /\ m = b => l2[b].doc < l1[a].doc
        BY <2>1, <2>2, <2>6, <3>4
      <3>7. PICK x, y, z : x = l2[m].doc /\ y = l1[a].doc /\ z = l1[t1].doc
        OBVIOUS
      <3>8. x \in Nat /\ y \in Nat /\ z \in Nat
        BY ONLY <2>1, <3>2, <3>7
      <3>9. (m \in 1 .. (b - 1) => x < y) /\ (~only /\ m = b => x <= y)
        BY ONLY <2>1, <2>6, <3>7
      <3>10. (t1 = a + 1 => y < z) /\ (t1 = a => y = z) /\ (t1 = a /\ m = b => x < y)
        BY ONLY <3>3, <3>6, <3>7
      <3>11. x < z
        BY ONLY <3>1, <3>5, <3>8, <3>9, <3>10
      <3> QED
        BY ONLY <3>7, <3>11
    <2>10. Docs(l1, a) = Docs(l1, a - 1) \cup {l1[a].doc}
      <3>1. (a - 1) + 1 = a /\ a - 1 \in Nat
        BY <2>1
      <3>2. PICK m : m = a - 1
        OBVIOUS
      <3>3. Docs(l1, m + 1) = Docs(l1, m) \cup {l1[m + 1].doc}
        BY <3>1, <3>2, DocsNext
      <3> QED
        BY ONLY <3>1, <3>2, <3>3
    <2>11. RightList(r.out, Docs(l1, t1 - 1) \ B, {})
      <3>1. CASE only
        <4>1. r.out = Append(s.out, l1[a]) /\ t1 - 1 = a
          BY <2>1, <2>4, <2>5, <3>1
        <4>2. l1[a].doc \notin B
          <5> SUFFICES ASSUME NEW m \in 1 .. N2, l2[m].doc = l1[a].doc PROVE FALSE
            BY <1>1 DEF Docs
          <5>1. m \in 1 .. (b - 1) \/ (b <= m /\ b \in 1 .. N2)
            BY <1>2, <1>4
          <5>2. l2[m].doc \in Nat
            BY <1>2
          <5>3. b \in 1 .. N2 => l1[a].doc < l2[b].doc /\ l2[b].doc \in Nat
            BY <1>2, <2>3, <3>1
          <5>4. b <= m /\ b \in 1 .. N2 => l2[b].doc <= l2[m].doc
            BY <1>2
          <5> QED
            BY <2>1, <5>1, <5>2, <5>3, <5>4, SMTT(60)
        <4>3. Docs(l1, a - 1) \ B \subseteq Docs(l1, a - 1)
          OBVIOUS
        <4>4. RightList(Append(s.out, l1[a]), (Docs(l1, a - 1) \ B) \cup {l1[a].doc}, {})
          BY ONLY <1>1, <1>4, <2>1, <4>3, Sorted(l1, Len(l1)), PutRight
        <4>5. Docs(l1, a) \ B = (Docs(l1, a - 1) \ B) \cup {l1[a].doc}
          BY <2>10, <4>2
        <4> QED
          BY ONLY <4>1, <4>4, <4>5, Zenon
      <3>2. CASE ~only /\ both
        <4>1. r.out = s.out /\ t1 - 1 = a
          BY <2>1, <2>4, <2>5, <3>2
        <4>2. l1[a].doc \in B
          BY <1>1, <2>2, <2>6, <3>2 DEF Docs
        <4>3. Docs(l1, a) \ B = Docs(l1, a - 1) \ B
          BY <2>10, <4>2
        <4> QED
          BY ONLY <1>4, <4>1, <4>3, Zenon
      <3>3. CASE ~only /\ ~both
        <4>1. r.out = s.out /\ t1 = a
          BY <2>4, <2>5, <3>3
        <4> QED
          BY ONLY <1>4, <4>1, Zenon
      <3> QED
        BY <3>1, <3>2, <3>3
    <2>13. r.s1 = t1 /\ r.s2 = t2
      BY <2>5
    <2>15. Subtracting(l1, l2, B, r, n + 1)
      BY ONLY <1>1, <2>7, <2>8, <2>9, <2>11, <2>13, Zenon DEF Subtracting
    <2> QED
      BY <1>3, <2>15
  <1> QED
    BY <1>5, <1>6

\* DiffLists gives the documents of the first list that are not in the second.
LEMMA DiffRight ==
  ASSUME NEW l1, NEW A, RightList(l1, A, {}), NEW l2, NEW B, RightList(l2, B, {})
  PROVE  RightList(DiffLists(l1, l2), A \ B, {})
  <1>0. PICK N1, N2 : N1 = Len(l1) /\ N2 = Len(l2)
    OBVIOUS
  <1>1. Sorted(l1, N1) /\ A = Docs(l1, N1) /\ Sorted(l2, N2) /\ B = Docs(l2, N2)
    BY <1>0, SortedIs
  <1>2. N1 \in Nat /\ N2 \in Nat
    BY <1>1, Zenon DEF Sorted
  <1>3. PICK n : n = N1 + N2
    OBVIOUS
  <1>4. n \in Nat
    BY <1>2, <1>3
  <1>5. PICK f : DiffRun(f, l1, l2, n) /\ DiffLists(l1, l2) = f[n].out
    <2>1. DiffRan(l1, l2)
      BY <1>0, <1>3, <1>4, DiffIs
    <2> QED
      BY ONLY <1>0, <1>3, <2>1, Zenon DEF DiffRan
  <1>6. f[0] = FromStart /\ \A j \in 1 .. n : f[j] = DiffRound(l1, l2, f[j - 1])
    BY <1>5, Zenon DEF DiffRun
  <1> DEFINE Good(j) == Subtracting(l1, l2, B, f[j], j)
             G == {j \in Nat : j <= n => Good(j)}
  <1>7. 0 \in G
    <2>1. f[0].s1 = 1 /\ f[0].s2 = 1 /\ f[0].out = <<>>
      BY <1>6 DEF FromStart
    <2>2. Docs(l1, 0) \ B = {}
      BY DocsNext
    <2>3. RightList(<<>>, Docs(l1, 1 - 1) \ B, {})
      <3>1. 1 - 1 = 0
        OBVIOUS
      <3> QED
        BY ONLY <2>2, <3>1, EmptyRight
    <2>4. 1 \in 1 .. (N1 + 1) /\ 1 \in 1 .. (N2 + 1) /\ (\A m \in 1 .. (1 - 1) : l2[m].doc < l1[1].doc)
          /\ 1 + 1 >= 0 + 2
      BY <1>2
    <2>5. Good(0)
      BY ONLY <1>0, <2>1, <2>3, <2>4, Zenon DEF Subtracting
    <2> QED
      BY <2>5
  <1>8. ASSUME NEW j \in Nat, j \in G PROVE j + 1 \in G
    <2> SUFFICES ASSUME j + 1 <= n PROVE Good(j + 1)
      OBVIOUS
    <2>1. Good(j)
      BY <1>4, <1>8
    <2>2. j + 1 \in 1 .. n /\ (j + 1) - 1 = j
      BY <1>4
    <2>3. f[j + 1] = DiffRound(l1, l2, f[j])
      <3>1. PICK m : m = j + 1
        OBVIOUS
      <3>2. m \in 1 .. n /\ m - 1 = j
        BY <2>2, <3>1
      <3>3. f[m] = DiffRound(l1, l2, f[m - 1])
        BY <1>6, <3>2
      <3> QED
        BY ONLY <3>1, <3>2, <3>3
    <2>4. Subtracting(l1, l2, B, DiffRound(l1, l2, f[j]), j + 1)
      BY <1>0, <1>1, <2>1, DiffStep
    <2> QED
      BY <2>3, <2>4
  <1>9. Good(n)
    <2> HIDE DEF G, Good
    <2>1. Nat \subseteq G
      BY <1>7, <1>8, NatInductionOnSet
    <2>2. n \in G
      BY <1>4, <2>1
    <2> QED
      BY <1>4, <2>2 DEF G
  <1>10. PICK a, b : a = f[n].s1 /\ b = f[n].s2
    OBVIOUS
  <1>11. /\ a \in 1 .. (N1 + 1) /\ b \in 1 .. (N2 + 1)
         /\ RightList(f[n].out, Docs(l1, a - 1) \ B, {})
         /\ a <= N1 => \A m \in 1 .. (b - 1) : l2[m].doc < l1[a].doc
         /\ a > N1 \/ a + b >= n + 2
    BY ONLY <1>0, <1>9, <1>10, Zenon DEF Subtracting
  <1>12. a - 1 = N1
    BY <1>2, <1>3, <1>11
  <1> QED
    BY ONLY <1>1, <1>5, <1>11, <1>12, Zenon

----------------------------------------------------------------------------
(* MergeLists.                                                             *)

\* MergeLists before round n.
Merging(l1, l2, s, n) ==
  /\ s.s1 \in 1 .. (Len(l1) + 1) /\ s.s2 \in 1 .. (Len(l2) + 1)
  /\ RightList(s.out, Docs(l1, s.s1 - 1) \cup Docs(l2, s.s2 - 1), {})
  /\ s.s1 <= Len(l1) => \A m \in 1 .. (s.s2 - 1) : l2[m].doc < l1[s.s1].doc
  /\ s.s2 <= Len(l2) => \A m \in 1 .. (s.s1 - 1) : l1[m].doc < l2[s.s2].doc
  /\ (s.s1 > Len(l1) /\ s.s2 > Len(l2)) \/ s.s1 + s.s2 >= n + 2

\* An entry of one list is before those of the other from there on.
LEMMA MergeOrder ==
  ASSUME NEW N1 \in Nat, NEW N2 \in Nat, NEW A \in [1 .. N1 -> Nat], NEW B \in [1 .. N2 -> Nat],
         \A m, k \in 1 .. N1 : m < k => A[m] < A[k],
         \A m, k \in 1 .. N2 : m < k => B[m] < B[k],
         NEW a \in 1 .. (N1 + 1), NEW b \in 1 .. (N2 + 1),
         a <= N1 => \A m \in 1 .. (b - 1) : B[m] < A[a],
         NEW fst \in BOOLEAN, fst <=> a <= N1 /\ (b > N2 \/ A[a] <= B[b]),
         NEW snd \in BOOLEAN, snd <=> b <= N2 /\ (a > N1 \/ B[b] <= A[a]),
         fst \/ snd,
         NEW t1, t1 = IF fst THEN a + 1 ELSE a, NEW t2, t2 = IF snd THEN b + 1 ELSE b,
         t1 <= N1, NEW m \in 1 .. (t2 - 1)
  PROVE  B[m] < A[t1]
  <1>1. m \in 1 .. N2 /\ t1 \in 1 .. N1 /\ B[m] \in Nat /\ A[t1] \in Nat /\ a \in 1 .. N1 /\ A[a] \in Nat
    OBVIOUS
  <1>2. m \in 1 .. (b - 1) \/ (snd /\ m = b)
    OBVIOUS
  <1>3. fst => A[a] < A[t1]
    BY <1>1
  <1>4. ~fst => A[t1] = A[a]
    OBVIOUS
  <1>5. snd => b \in 1 .. N2 /\ B[b] \in Nat /\ B[b] <= A[a]
    BY <1>1
  <1>6. ~fst => snd /\ B[b] < A[a]
    BY <1>1, <1>5
  <1> QED
    BY <1>1, <1>2, <1>3, <1>4, <1>5, <1>6

\* A round of MergeLists.
LEMMA MergeStep ==
  ASSUME NEW l1, NEW l2, Sorted(l1, Len(l1)), Sorted(l2, Len(l2)),
         NEW n \in Nat, NEW s, Merging(l1, l2, s, n)
  PROVE  Merging(l1, l2, MergeRound(l1, l2, s), n + 1)
  <1>1. PICK N1, N2 : N1 = Len(l1) /\ N2 = Len(l2)
    OBVIOUS
  <1>2. /\ N1 \in Nat /\ N2 \in Nat
        /\ \A m \in 1 .. N1 : l1[m].doc \in Nat
        /\ \A m \in 1 .. N2 : l2[m].doc \in Nat
        /\ \A m, k \in 1 .. N1 : m < k => l1[m].doc < l1[k].doc
        /\ \A m, k \in 1 .. N2 : m < k => l2[m].doc < l2[k].doc
    BY <1>1, Zenon DEF Sorted
  <1>3. PICK a, b, r : a = s.s1 /\ b = s.s2 /\ r = MergeRound(l1, l2, s)
    OBVIOUS
  <1>4. /\ a \in 1 .. (N1 + 1) /\ b \in 1 .. (N2 + 1)
        /\ RightList(s.out, Docs(l1, a - 1) \cup Docs(l2, b - 1), {})
        /\ a <= N1 => \A m \in 1 .. (b - 1) : l2[m].doc < l1[a].doc
        /\ b <= N2 => \A m \in 1 .. (a - 1) : l1[m].doc < l2[b].doc
        /\ (a > N1 /\ b > N2) \/ a + b >= n + 2
    BY ONLY <1>1, <1>3, Merging(l1, l2, s, n), Zenon DEF Merging
  <1>5. PICK fst \in BOOLEAN : fst <=> a <= N1 /\ (b > N2 \/ l1[a].doc <= l2[b].doc)
    OBVIOUS
  <1>6. PICK snd \in BOOLEAN : snd <=> b <= N2 /\ (a > N1 \/ l2[b].doc <= l1[a].doc)
    OBVIOUS
  <1>7. CASE ~fst /\ ~snd
    <2>1. r = s
      BY ONLY <1>1, <1>3, <1>5, <1>6, <1>7, Zenon DEF MergeRound
    <2>2. a > N1 /\ b > N2
      <3>1. a <= N1 => a \in 1 .. N1 /\ l1[a].doc \in Nat
        BY <1>2, <1>4
      <3>2. b <= N2 => b \in 1 .. N2 /\ l2[b].doc \in Nat
        BY <1>2, <1>4
      <3> QED
        BY <1>2, <1>4, <1>5, <1>6, <1>7, <3>1, <3>2
    <2> QED
      BY ONLY <1>1, <1>3, <1>4, <2>1, <2>2, Zenon DEF Merging
  <1>8. CASE fst \/ snd
    <2>1. PICK t1, t2, x : /\ t1 = (IF fst THEN a + 1 ELSE a) /\ t2 = (IF snd THEN b + 1 ELSE b)
                           /\ x = (IF fst THEN l1[a] ELSE l2[b])
      OBVIOUS
    <2>2. r = [s1 |-> t1, s2 |-> t2, out |-> Append(s.out, x)]
      BY ONLY <1>1, <1>3, <1>5, <1>6, <1>8, <2>1, Zenon DEF MergeRound
    <2>3. r.s1 = t1 /\ r.s2 = t2 /\ r.out = Append(s.out, x)
      BY <2>2
    <2>4. (fst => a \in 1 .. N1 /\ l1[a].doc \in Nat) /\ (snd => b \in 1 .. N2 /\ l2[b].doc \in Nat)
      BY <1>2, <1>4, <1>5, <1>6
    <2>5. t1 \in 1 .. (N1 + 1) /\ t2 \in 1 .. (N2 + 1) /\ t1 + t2 >= (n + 1) + 2
      BY <1>2, <1>4, <1>8, <2>1, <2>4
    <2>6. PICK fa, fb : fa = [m \in 1 .. N1 |-> l1[m].doc] /\ fb = [m \in 1 .. N2 |-> l2[m].doc]
      OBVIOUS
    <2>7. fa \in [1 .. N1 -> Nat] /\ fb \in [1 .. N2 -> Nat]
      BY <1>2, <2>6
    <2>8. (\A m \in 1 .. N1 : fa[m] = l1[m].doc) /\ (\A m \in 1 .. N2 : fb[m] = l2[m].doc)
      BY ONLY <2>6
    <2>9. (\A m, k \in 1 .. N1 : m < k => fa[m] < fa[k]) /\ (\A m, k \in 1 .. N2 : m < k => fb[m] < fb[k])
      BY ONLY <1>2, <2>8
    <2>10. /\ a <= N1 => \A m \in 1 .. (b - 1) : fb[m] < fa[a]
           /\ b <= N2 => \A m \in 1 .. (a - 1) : fa[m] < fb[b]
      <3>1. (a <= N1 => a \in 1 .. N1) /\ (b <= N2 => b \in 1 .. N2)
            /\ (\A m \in 1 .. (b - 1) : m \in 1 .. N2) /\ (\A m \in 1 .. (a - 1) : m \in 1 .. N1)
        BY ONLY <1>2, <1>4
      <3> QED
        BY ONLY <1>4, <2>8, <3>1
    <2>11. /\ fst <=> a <= N1 /\ (b > N2 \/ fa[a] <= fb[b])
           /\ snd <=> b <= N2 /\ (a > N1 \/ fb[b] <= fa[a])
      <3>1. (a <= N1 => a \in 1 .. N1) /\ (b <= N2 => b \in 1 .. N2) /\ (~(b > N2) <=> b <= N2) /\ (~(a > N1) <=> a <= N1)
        BY ONLY <1>2, <1>4
      <3> QED
        BY ONLY <1>5, <1>6, <2>8, <3>1
    <2>12. t1 <= N1 => \A m \in 1 .. (t2 - 1) : fb[m] < fa[t1]
      BY ONLY <1>2, <1>4, <1>8, <2>1, <2>7, <2>9, <2>10, <2>11, MergeOrder
    <2>13. t2 <= N2 => \A m \in 1 .. (t1 - 1) : fa[m] < fb[t2]
      BY ONLY <1>2, <1>4, <1>8, <2>1, <2>7, <2>9, <2>10, <2>11, MergeOrder
    <2>14. /\ t1 <= N1 => \A m \in 1 .. (t2 - 1) : l2[m].doc < l1[t1].doc
           /\ t2 <= N2 => \A m \in 1 .. (t1 - 1) : l1[m].doc < l2[t2].doc
      <3>1. (t1 <= N1 => t1 \in 1 .. N1) /\ (t2 <= N2 => t2 \in 1 .. N2)
            /\ (\A m \in 1 .. (t2 - 1) : m \in 1 .. N2) /\ (\A m \in 1 .. (t1 - 1) : m \in 1 .. N1)
        BY ONLY <1>2, <2>5
      <3> QED
        BY ONLY <2>8, <2>12, <2>13, <3>1
    <2>15. PICK A : A = Docs(l1, a - 1) \cup Docs(l2, b - 1)
      OBVIOUS
    <2>16. x \in ListItem /\ ~Mk(x)
      <3>1. (fst => l1[a] \in ListItem /\ ~Mk(l1[a])) /\ (snd => l2[b] \in ListItem /\ ~Mk(l2[b]))
        BY <1>1, <2>4, Zenon DEF Sorted
      <3> QED
        BY ONLY <1>8, <2>1, <3>1, Zenon
    <2>17. ASSUME NEW y \in A PROVE y < x.doc
      <3>1. a \in 1 .. N1 /\ y \in Docs(l1, a - 1) => y < l1[a].doc
        BY <1>1, DocsBefore
      <3>2. b \in 1 .. N2 /\ y \in Docs(l2, b - 1) => y < l2[b].doc
        BY <1>1, DocsBefore
      <3>3. a \in 1 .. N1 /\ y \in Docs(l2, b - 1) => y < l1[a].doc
        <4>1. a \in 1 .. N1 => a <= N1
          BY <1>2
        <4> QED
          BY ONLY <1>4, <4>1 DEF Docs
      <3>4. b \in 1 .. N2 /\ y \in Docs(l1, a - 1) => y < l2[b].doc
        <4>1. b \in 1 .. N2 => b <= N2
          BY <1>2
        <4> QED
          BY ONLY <1>4, <4>1 DEF Docs
      <3>5. y \in Docs(l1, a - 1) \/ y \in Docs(l2, b - 1)
        BY <2>15
      <3> QED
        BY ONLY <1>8, <2>1, <2>4, <3>1, <3>2, <3>3, <3>4, <3>5
    <2>18. RightList(r.out, A \cup {x.doc}, {})
      <3>1. RightList(s.out, A, {})
        BY ONLY <1>4, <2>15, Zenon
      <3> QED
        BY ONLY <2>3, <2>16, <2>17, <3>1, AppendRight
    <2>19. Docs(l1, t1 - 1) \cup Docs(l2, t2 - 1) = A \cup {x.doc}
      <3>1. (a + 1) - 1 = a /\ (b + 1) - 1 = b
        BY <1>4
      <3>2. Docs(l1, a) = Docs(l1, a - 1) \cup {l1[a].doc}
        <4>1. PICK m : m = a - 1
          OBVIOUS
        <4>2. m \in Nat /\ m + 1 = a
          BY <1>4, <4>1
        <4> QED
          BY ONLY <4>1, <4>2, DocsNext
      <3>3. Docs(l2, b) = Docs(l2, b - 1) \cup {l2[b].doc}
        <4>1. PICK m : m = b - 1
          OBVIOUS
        <4>2. m \in Nat /\ m + 1 = b
          BY <1>4, <4>1
        <4> QED
          BY ONLY <4>1, <4>2, DocsNext
      <3>4. fst /\ snd => l1[a].doc = l2[b].doc
        BY <1>2, <1>4, <1>5, <1>6, <2>4
      <3>5. Docs(l1, t1 - 1) = IF fst THEN Docs(l1, a - 1) \cup {l1[a].doc} ELSE Docs(l1, a - 1)
        BY ONLY <2>1, <3>1, <3>2
      <3>6. Docs(l2, t2 - 1) = IF snd THEN Docs(l2, b - 1) \cup {l2[b].doc} ELSE Docs(l2, b - 1)
        BY ONLY <2>1, <3>1, <3>3
      <3>7. x.doc = IF fst THEN l1[a].doc ELSE l2[b].doc
        BY ONLY <2>1
      <3> QED
        BY ONLY <1>8, <2>15, <3>4, <3>5, <3>6, <3>7
    <2>20. Merging(l1, l2, r, n + 1)
      BY ONLY <1>1, <2>3, <2>5, <2>14, <2>18, <2>19, Zenon DEF Merging
    <2> QED
      BY <1>3, <2>20
  <1> QED
    BY <1>7, <1>8

\* MergeLists gives the documents of either list.
LEMMA MergeRight ==
  ASSUME NEW l1, NEW A, RightList(l1, A, {}), NEW l2, NEW B, RightList(l2, B, {})
  PROVE  RightList(MergeLists(l1, l2), A \cup B, {})
  <1>0. PICK N1, N2 : N1 = Len(l1) /\ N2 = Len(l2)
    OBVIOUS
  <1>1. Sorted(l1, N1) /\ A = Docs(l1, N1) /\ Sorted(l2, N2) /\ B = Docs(l2, N2)
    BY <1>0, SortedIs
  <1>2. N1 \in Nat /\ N2 \in Nat
    BY <1>1, Zenon DEF Sorted
  <1>3. PICK n : n = N1 + N2
    OBVIOUS
  <1>4. n \in Nat
    BY <1>2, <1>3
  <1>5. PICK f : MergeRun(f, l1, l2, n) /\ MergeLists(l1, l2) = f[n].out
    <2>1. MergeRan(l1, l2)
      BY <1>0, <1>3, <1>4, MergeIs
    <2> QED
      BY ONLY <1>0, <1>3, <2>1, Zenon DEF MergeRan
  <1>6. f[0] = FromStart /\ \A j \in 1 .. n : f[j] = MergeRound(l1, l2, f[j - 1])
    BY <1>5, Zenon DEF MergeRun
  <1> DEFINE Good(j) == Merging(l1, l2, f[j], j)
             G == {j \in Nat : j <= n => Good(j)}
  <1>7. 0 \in G
    <2>1. f[0].s1 = 1 /\ f[0].s2 = 1 /\ f[0].out = <<>>
      BY <1>6 DEF FromStart
    <2>2. Docs(l1, 0) \cup Docs(l2, 0) = {}
      BY DocsNext
    <2>3. RightList(<<>>, Docs(l1, 1 - 1) \cup Docs(l2, 1 - 1), {})
      <3>1. 1 - 1 = 0
        OBVIOUS
      <3> QED
        BY ONLY <2>2, <3>1, EmptyRight
    <2>4. 1 \in 1 .. (N1 + 1) /\ 1 \in 1 .. (N2 + 1) /\ (\A m \in 1 .. (1 - 1) : l2[m].doc < l1[1].doc)
          /\ (\A m \in 1 .. (1 - 1) : l1[m].doc < l2[1].doc) /\ 1 + 1 >= 0 + 2
      BY <1>2
    <2>5. Good(0)
      BY ONLY <1>0, <2>1, <2>3, <2>4, Zenon DEF Merging
    <2> QED
      BY <2>5
  <1>8. ASSUME NEW j \in Nat, j \in G PROVE j + 1 \in G
    <2> SUFFICES ASSUME j + 1 <= n PROVE Good(j + 1)
      OBVIOUS
    <2>1. Good(j)
      BY <1>4, <1>8
    <2>2. j + 1 \in 1 .. n /\ (j + 1) - 1 = j
      BY <1>4
    <2>3. f[j + 1] = MergeRound(l1, l2, f[j])
      <3>1. PICK m : m = j + 1
        OBVIOUS
      <3>2. m \in 1 .. n /\ m - 1 = j
        BY <2>2, <3>1
      <3>3. f[m] = MergeRound(l1, l2, f[m - 1])
        BY <1>6, <3>2
      <3> QED
        BY ONLY <3>1, <3>2, <3>3
    <2>4. Merging(l1, l2, MergeRound(l1, l2, f[j]), j + 1)
      BY <1>0, <1>1, <2>1, MergeStep
    <2> QED
      BY <2>3, <2>4
  <1>9. Good(n)
    <2> HIDE DEF G, Good
    <2>1. Nat \subseteq G
      BY <1>7, <1>8, NatInductionOnSet
    <2>2. n \in G
      BY <1>4, <2>1
    <2> QED
      BY <1>4, <2>2 DEF G
  <1>10. PICK a, b : a = f[n].s1 /\ b = f[n].s2
    OBVIOUS
  <1>11. /\ a \in 1 .. (N1 + 1) /\ b \in 1 .. (N2 + 1)
         /\ RightList(f[n].out, Docs(l1, a - 1) \cup Docs(l2, b - 1), {})
         /\ (a > N1 /\ b > N2) \/ a + b >= n + 2
    BY ONLY <1>0, <1>9, <1>10, Zenon DEF Merging
  <1>12. a - 1 = N1 /\ b - 1 = N2
    BY <1>2, <1>3, <1>11
  <1> QED
    BY ONLY <1>1, <1>5, <1>11, <1>12, Zenon

----------------------------------------------------------------------------
(* A query.                                                                *)

Underway ==
  \E e, c, codes, place : Given(e, ifh, c, codes, place) /\ At(e, c, place)

QueryType ==
  /\ ops \in 0 .. MaxOps
  /\ stack \in Seq(Lists) /\ means \in Seq(SUBSET (1 .. num_of_docs))
  /\ group = Closed \/ (group \subseteq 1 .. num_of_docs /\ group # {})

\* The lists below place n are right, and unmarked.
Below(n) == \A m \in 1 .. n : RightList(stack[m], means[m], {})

\* There is a list on top, and the others are right.
Tops == stack # <<>> /\ Len(means) = Len(stack) /\ Below(Len(stack) - 1)

\* All lists are right, the one on top with the marks of the group.
AllRight ==
  /\ Len(means) = Len(stack)
  /\ group # Closed => stack # <<>>
  /\ stack # <<>> => Tops /\ RightList(Top, Meaning, group \ Closed)

IdleOK ==
  /\ AllRight
  /\ word = NoWord /\ op = "term" /\ i = 0 /\ CurrDoc = 0 /\ next_doc_num = 0
  /\ src = 0 /\ dest = 0 /\ L = <<>>

\* The list on top, with marks g, is being changed.
ChangingAnd(A, dd) ==
  /\ op = "and" /\ group = Closed /\ Meaning = A \cap dd
  /\ RightList(Top, A, {}) /\ Kept(L, Top, dest, src, dd) /\ Behind(Top, src, CurrDoc)
ChangingDiff(A, dd) ==
  /\ op = "diff" /\ group = Closed /\ Meaning = A \ dd
  /\ RightList(Top, A, {}) /\ Kept(L, Top, dest, src, (1 .. num_of_docs) \ dd)
  /\ Behind(Top, src, CurrDoc)
ChangingOr(A, g, dd) ==
  /\ op = "and_or" /\ group = g \cup dd /\ Meaning = A
  /\ RightList(Top, A, g) /\ Marked(L, Top, src, dd) /\ dest = 0
Changing ==
  /\ Tops
  /\ Before(Top, src, CurrDoc)
  /\ \E A, g : ChangingAnd(A, DocsOf(word)) \/ ChangingDiff(A, DocsOf(word))
               \/ ChangingOr(A, g, DocsOf(word))

\* A new list is being made.
Making(e) ==
  /\ op = "term" /\ group = Closed /\ Len(means) = Len(stack) + 1 /\ Below(Len(stack))
  /\ Meaning = DocsOf(word)
  /\ src = 0 /\ dest = 0 /\ L \in Lists /\ Len(L) = i
  /\ \A n \in 1 .. Len(L) : L[n] = [doc |-> D(e, n), or_included |-> FALSE]

Taking == Changing \/ Making(lists[word])

QueryOK ==
  /\ QueryType
  /\ pc \in {"idle", "loop", "header", "posting"}
  /\ pc = "idle" => IdleOK
  /\ pc # "idle" => Underway /\ Taking

BooleanInv == FileOK /\ QueryOK

\* A step that writes nothing keeps the layout of the word.
LEMMA GivenKept ==
  ASSUME NEW e, NEW c, NEW codes, NEW place, Given(e, ifh, c, codes, place), UNCHANGED <<file, word>>
  PROVE  Given(e, ifh, c, codes, place)'
  <1>1. lists' = lists /\ ifh' = ifh /\ invf' = invf /\ word' = word /\ level' = level
    BY DEF file
  <1>2. /\ level \in {1, 2, 3} /\ word \in Words /\ e \in Entries /\ ifh \in Headers
        /\ e = lists[word] /\ c = ParamsOf(e, ifh, level) /\ c = Blks(word)
        /\ codes = invf[word] /\ Layout(codes, e, level, c, place)
    BY Zenon DEF Given
  <1>3. Blks(word)' = Blks(word)
    BY <1>1, Zenon DEF Blks, p, CountOf
  <1> QED
    BY <1>1, <1>2, <1>3, Zenon DEF Given

\* What GetDocsOp starts with.
LEMMA StartReading ==
  ASSUME FileOK, ops \in 0 .. MaxOps, NEW w \in Words, NEW o, NEW list, GetDocsOp(w, o, list)
  PROVE  /\ Underway' /\ pc = "idle" /\ pc' = "loop" /\ UNCHANGED file /\ i' = 0 /\ CurrDoc' = 0
         /\ src' = 0 /\ dest' = 0 /\ op' = o /\ word' = w /\ L' = list /\ ops' \in 0 .. MaxOps
  <1>1. /\ UNCHANGED file /\ pc = "idle" /\ pc' = "loop" /\ word' = w /\ i' = 0 /\ pos' = 0
        /\ next_i' = 0 /\ next_start' = 0 /\ next_doc_num' = 0 /\ block_counter' = Blks(w).k - 1
        /\ CurrDoc' = 0 /\ src' = 0 /\ dest' = 0 /\ op' = o /\ L' = list
    BY Zenon DEF GetDocsOp
  <1>2. PICK e, c, codes : e = lists[w] /\ c = ParamsOf(e, ifh, level) /\ codes = invf[w]
    OBVIOUS
  <1>3. /\ level \in {1, 2, 3} /\ e \in Entries /\ ifh \in Headers /\ c = Blks(w)
        /\ Laying(codes, e, level, c)
    <2>1. level \in Levels /\ lists \in [Words -> Entries] /\ FileLaid(ifh, invf)
      BY Zenon DEF FileOK
    <2>2. ifh \in Headers /\ Laying(codes, e, level, c)
      BY <1>2, <2>1, Zenon DEF FileLaid
    <2>3. Blks(w) = Parameters(ifh, w) /\ Parameters(ifh, w) = ParamsOf(lists[w], ifh, level)
      BY ParametersAre
    <2> QED
      BY <1>2, <2>1, <2>2, <2>3, LevelType
  <1>4. PICK place : Layout(codes, e, level, c, place)
    BY <1>3, Zenon DEF Laying
  <1>5. Given(e, ifh, c, codes, place)'
    <2>1. lists' = lists /\ ifh' = ifh /\ invf' = invf /\ level' = level
      BY <1>1 DEF file
    <2>2. Blks(word)' = Blks(w)
      BY <1>1, <2>1, Zenon DEF Blks, p, CountOf
    <2> QED
      BY <1>1, <1>2, <1>3, <1>4, <2>1, <2>2, Zenon DEF Given
  <1>6. /\ c.k \in Nat /\ Len(e.docs) \in Nat \ {0} /\ place[0].at = 0
    <2>1. c.k \in Nat
      BY <1>2, <1>3, ParamFacts
    <2>2. Len(e.docs) \in Nat \ {0}
      BY <1>3, EntryFacts
    <2> QED
      BY <1>4, <2>1, <2>2, Zenon DEF Layout
  <1>7. PICK k : k = c.k
    OBVIOUS
  <1>8. k > 0 => 0 % k = 0
    BY <1>6, <1>7
  <1>9. k > 0 => Boundary(k)' = 0
    BY <1>1, <1>8 DEF Boundary
  <1>10. At(e, c, place)'
    <2>1. PICK b : b = Boundary(k)'
      OBVIOUS
    <2>2. /\ pc' \in {"loop", "header", "posting"} /\ i' \in 0 .. Len(e.docs) /\ CurrDoc' = D(e, i')
          /\ pc' = "loop" /\ pc' # "header" /\ pc' # "posting" /\ pos' = place[i'].at
      BY <1>1, <1>6 DEF D
    <2>3. block_counter' = IF k = 0 THEN -1 ELSE k - 1 - (i' % k)
      BY <1>1, <1>3, <1>6, <1>7, <1>8
    <2>4. k > 0 => b < Len(e.docs) /\ next_i' = b /\ next_start' = place[b].at /\ next_doc_num' = D(e, b)
      BY <1>1, <1>6, <1>9, <2>1 DEF D
    <2>5. k = 0 => next_doc_num' = 0
      BY <1>1
    <2> QED
      BY ONLY <1>7, <2>1, <2>2, <2>3, <2>4, <2>5, Zenon DEF At
  <1>11. Underway'
    BY <1>5, <1>10, Zenon DEF Underway
  <1>12. ops' \in 0 .. MaxOps
    <2>1. ops' = ops + 1 /\ ops < MaxOps /\ MaxOps \in Nat
      BY LevelType DEF GetDocsOp
    <2> QED
      BY <2>1
  <1> QED
    BY ONLY <1>1, <1>11, <1>12, Zenon

\* A sequence with a new element on top, or in place of the one or two on top.
PutAt(t, s, n, x) == Len(t) = n /\ t[n] = x /\ \A m \in 1 .. (n - 1) : t[m] = s[m]

\* A new top of the stack.
LEMMA PutNew ==
  ASSUME NEW S, NEW s \in Seq(S), NEW x \in S, NEW t, t = Append(s, x), NEW n, n = Len(s) + 1
  PROVE  t \in Seq(S) /\ PutAt(t, s, n, x) /\ n \in Nat /\ t # <<>>
  <1>1. t \in Seq(S) /\ Len(t) = n /\ n \in Nat /\ t[n] = x /\ t # <<>>
    OBVIOUS
  <1>2. \A m \in 1 .. (n - 1) : t[m] = s[m]
    OBVIOUS
  <1> QED
    BY <1>1, <1>2, Zenon DEF PutAt

\* Another list in place of those above one.
LEMMA PutOver ==
  ASSUME NEW S, NEW s \in Seq(S), NEW x \in S, NEW j \in 1 .. Len(s),
         NEW t, t = SubSeq(s, 1, j - 1) \o <<x>>
  PROVE  t \in Seq(S) /\ PutAt(t, s, j, x) /\ j \in Nat /\ t # <<>>
  <1>0. PICK d : d = j - 1
    OBVIOUS
  <1>1. d \in Nat /\ d <= Len(s) /\ j = d + 1 /\ j \in Nat
    BY <1>0
  <1>2. PICK u : u = SubSeq(s, 1, d)
    OBVIOUS
  <1>3. u \in Seq(S) /\ Len(u) = d /\ (\A m \in 1 .. d : u[m] = s[m])
    BY <1>1, <1>2
  <1>4. <<x>> \in Seq(S) /\ Len(<<x>>) = 1
    OBVIOUS
  <1>5. t = u \o <<x>>
    BY <1>0, <1>2
  <1>6. t \in Seq(S) /\ Len(t) = d + 1
    BY <1>1, <1>3, <1>4, <1>5
  <1>7. t[d + 1] = x
    BY <1>1, <1>3, <1>4, <1>5
  <1>8. \A m \in 1 .. d : t[m] = s[m]
    BY <1>1, <1>3, <1>4, <1>5
  <1>9. t # <<>>
    BY <1>1, <1>6
  <1> QED
    BY ONLY <1>0, <1>1, <1>6, <1>7, <1>8, <1>9, Zenon DEF PutAt

\* Another list in place of the top.
LEMMA PutTop ==
  ASSUME NEW S, NEW s \in Seq(S), s # <<>>, NEW x \in S, NEW t, t = Front(s) \o <<x>>,
         NEW n, n = Len(s)
  PROVE  t \in Seq(S) /\ PutAt(t, s, n, x) /\ n \in Nat \ {0} /\ t # <<>>
  <1>1. n \in 1 .. Len(s)
    OBVIOUS
  <1>2. t = SubSeq(s, 1, n - 1) \o <<x>>
    BY DEF Front
  <1>3. t \in Seq(S) /\ PutAt(t, s, n, x) /\ n \in Nat /\ t # <<>>
    BY <1>1, <1>2, PutOver
  <1> QED
    BY <1>1, <1>3

\* The stack and what it means have one length.
LEMMA QueryFacts ==
  ASSUME QueryType
  PROVE  /\ Len(stack) \in Nat /\ Len(means) \in Nat /\ num_of_docs \in Nat
         /\ stack # <<>> => /\ Top \in Lists /\ Len(stack) \in Nat \ {0}
         /\ means # <<>> => Meaning \in SUBSET (1 .. num_of_docs)
         /\ Len(means) = Len(stack) /\ stack # <<>> => means # <<>>
  <1>1. num_of_docs \in Nat
    <2>1. Shl(MaxLog) \in Nat
      BY ShlType DEF MaxLog
    <2> QED
      BY <2>1, DocsAssumption
  <1>2. stack \in Seq(Lists) /\ means \in Seq(SUBSET (1 .. num_of_docs))
    BY Zenon DEF QueryType
  <1>3. stack # <<>> => Len(stack) \in Nat \ {0} /\ stack[Len(stack)] \in Lists
    BY ONLY <1>2
  <1>4. means # <<>> => means[Len(means)] \in SUBSET (1 .. num_of_docs)
    BY ONLY <1>2
  <1>5. Len(stack) \in Nat /\ Len(means) \in Nat
    BY ONLY <1>2
  <1>6. Len(means) = Len(stack) /\ stack # <<>> => means # <<>>
    BY ONLY <1>2
  <1> QED
    BY ONLY <1>1, <1>3, <1>4, <1>5, <1>6, Zenon DEF Top, Meaning

\* The lists that are not on top stay right.
LEMMA BelowPut ==
  ASSUME NEW n \in Nat, NEW x, NEW y, PutAt(stack', stack, n, x), PutAt(means', means, n, y), Below(n - 1)
  PROVE  (stack' # <<>> => Tops') /\ Top' = x /\ Meaning' = y /\ Len(stack') = n /\ Len(means') = n
  <1>1. Len(stack') = n /\ stack'[n] = x /\ \A m \in 1 .. (n - 1) : stack'[m] = stack[m]
    BY Zenon DEF PutAt
  <1>2. Len(means') = n /\ means'[n] = y /\ \A m \in 1 .. (n - 1) : means'[m] = means[m]
    BY Zenon DEF PutAt
  <1>3. Top' = x /\ Meaning' = y
    BY <1>1, <1>2, Zenon DEF Top, Meaning
  <1>4. \A m \in 1 .. (n - 1) : RightList(stack'[m], means'[m], {})
    BY <1>1, <1>2, Zenon DEF Below
  <1>5. \A m \in 1 .. (Len(stack') - 1) : RightList(stack'[m], means'[m], {})
    BY <1>1, <1>4, Zenon
  <1>6. stack' # <<>> => Tops'
    BY <1>1, <1>2, <1>5, Zenon DEF Tops, Below, RightList, Increasing, DocNums, Mk
  <1> QED
    BY <1>1, <1>2, <1>3, <1>6, Zenon

----------------------------------------------------------------------------
(* A term begins.                                                          *)

\* Before GetDocsOp has read a posting.
LEMMA NothingRead ==
  ASSUME NEW l0 \in Lists, NEW dd
  PROVE  /\ Kept(l0, l0, 0, 0, dd) /\ Marked(l0, l0, 0, dd)
         /\ Behind(l0, 0, 0) /\ Before(l0, 0, 0)
  <1>1. Len(l0) \in Nat /\ \A n \in 1 .. Len(l0) : l0[n].doc \in 1 .. num_of_docs
    BY ListType
  <1>2. SubSeq(l0, 1, 0) = <<>>
    BY DEF Lists
  <1>3. Docs(l0, 0) \cap dd = {}
    BY DocsNext
  <1>4. RightList(SubSeq(l0, 1, 0), Docs(l0, 0) \cap dd, {})
    BY <1>2, <1>3, EmptyRight
  <1>5. 0 \in 0 .. 0 /\ 0 \in 0 .. Len(l0) /\ (\A n \in 1 .. 0 : FALSE) /\ \A n \in (0 + 1) .. Len(l0) : n \in 1 .. Len(l0)
    BY <1>1
  <1>6. Before(l0, 0, 0)
    BY <1>1, <1>5 DEF Before
  <1> QED
    BY ONLY <1>4, <1>5, <1>6, l0 \in Lists, Zenon DEF Kept, Marked, Behind

\* Between the terms every list is right.
LEMMA IdleFacts ==
  ASSUME QueryOK, pc = "idle"
  PROVE  AllRight /\ QueryType /\ ops \in 0 .. MaxOps /\ group \ Closed \subseteq 1 .. num_of_docs
         /\ (group = Closed => group \ Closed = {})
         /\ (stack # <<>> => Tops /\ RightList(Top, Meaning, group \ Closed) /\ Top \in Lists)
  <1>1. AllRight /\ QueryType
    BY Zenon DEF QueryOK, IdleOK
  <1>2. ops \in 0 .. MaxOps
    BY <1>1, Zenon DEF QueryType
  <1>3. group = Closed \/ group \subseteq 1 .. num_of_docs
    BY <1>1, Zenon DEF QueryType
  <1>4. stack # <<>> => Tops /\ RightList(Top, Meaning, group \ Closed) /\ Top \in Lists
    BY <1>1, Zenon DEF AllRight, RightList
  <1> QED
    BY <1>1, <1>2, <1>3, <1>4

\* A term that begins stands before the first posting.
LEMMA Started ==
  ASSUME BooleanInv, NEW w \in Words, NEW o, NEW list, GetDocsOp(w, o, list), QueryType', Taking'
  PROVE  BooleanInv'
  <1>1. FileOK /\ ops \in 0 .. MaxOps
    BY Zenon DEF BooleanInv, QueryOK, QueryType
  <1>2. Underway' /\ UNCHANGED file /\ pc' = "loop"
    BY <1>1, StartReading
  <1>3. FileOK'
    BY <1>1, <1>2, FileKept
  <1>4. pc' # "idle" /\ pc' \in {"idle", "loop", "header", "posting"}
    BY <1>2
  <1> QED
    BY <1>2, <1>3, <1>4, Zenon DEF BooleanInv, QueryOK

\* The documents of a word in a query that starts.
LEMMA WordDocs ==
  ASSUME BooleanInv, NEW w \in Words, UNCHANGED file, word' = w
  PROVE  /\ DocsOf(w) \in SUBSET (1 .. num_of_docs) /\ DocsOf(w) # {}
         /\ DocsOf(word)' = DocsOf(w) /\ lists[w] \in Entries /\ lists'[word'] = lists[w]
  <1>1. lists \in [Words -> Entries]
    BY Zenon DEF BooleanInv, FileOK
  <1>2. PICK e : e = lists[w]
    OBVIOUS
  <1>3. e \in Entries
    BY <1>1, <1>2
  <1>4. DocsOf(w) \subseteq 1 .. num_of_docs /\ DocsOf(w) # {}
    BY <1>2, <1>3, DocsOfIs
  <1>5. lists' = lists
    BY DEF file
  <1>6. DocsOf(word)' = DocsOf(w)
    BY <1>5, Zenon DEF DocsOf
  <1> QED
    BY <1>2, <1>3, <1>4, <1>5, <1>6

\* A term.
LEMMA TermStarts ==
  ASSUME BooleanInv, NEW w \in Words, Term(w)
  PROVE  BooleanInv'
  <1>1. /\ group = Closed /\ GetDocsOp(w, "term", <<>>) /\ means' = Append(means, DocsOf(w))
        /\ stack' = stack /\ group' = group
    BY DEF Term
  <1>2. FileOK /\ QueryOK
    BY Zenon DEF BooleanInv
  <1>3. pc = "idle"
    BY <1>1, Zenon DEF GetDocsOp
  <1>4. AllRight /\ QueryType /\ ops \in 0 .. MaxOps /\ (group \ Closed = {})
        /\ (stack # <<>> => Tops /\ RightList(Top, Meaning, group \ Closed))
    BY <1>1, <1>2, <1>3, IdleFacts
  <1>5. /\ UNCHANGED file /\ i' = 0 /\ src' = 0 /\ dest' = 0 /\ op' = "term" /\ word' = w /\ L' = <<>>
        /\ ops' \in 0 .. MaxOps
    BY <1>1, <1>2, <1>4, StartReading
  <1>6. /\ DocsOf(w) \in SUBSET (1 .. num_of_docs) /\ DocsOf(word)' = DocsOf(w)
    BY <1>5, WordDocs
  <1>7. stack \in Seq(Lists) /\ means \in Seq(SUBSET (1 .. num_of_docs)) /\ Len(means) = Len(stack)
    BY <1>4, Zenon DEF QueryType, AllRight
  <1>8. /\ means' \in Seq(SUBSET (1 .. num_of_docs)) /\ PutAt(means', means, Len(stack) + 1, DocsOf(w))
    BY ONLY <1>1, <1>6, <1>7, PutNew
  <1>9. QueryType'
    BY ONLY <1>1, <1>5, <1>7, <1>8, Zenon DEF QueryType
  <1>10. Len(means') = Len(stack) + 1 /\ Meaning' = DocsOf(w)
    BY ONLY <1>8, Zenon DEF PutAt, Meaning
  <1>11. \A m \in 1 .. Len(stack) : RightList(stack[m], means'[m], {})
    <2> TAKE m \in 1 .. Len(stack)
    <2>1. Len(stack) \in Nat \ {0} /\ stack # <<>>
      BY <1>7
    <2>2. Tops /\ RightList(Top, Meaning, {})
      BY <1>4, <2>1
    <2>3. m \in 1 .. (Len(stack) - 1) \/ m = Len(stack)
      OBVIOUS
    <2>4. means'[m] = means[m]
      BY ONLY <1>1, <1>7
    <2>5. RightList(stack[m], means[m], {})
      BY ONLY <1>7, <2>2, <2>3, Zenon DEF Tops, Below, Top, Meaning
    <2> QED
      BY ONLY <2>4, <2>5
  <1>12. Below(Len(stack))'
    BY ONLY <1>1, <1>11, ZenonT(60) DEF Below, RightList, Increasing, DocNums, Mk
  <1>13. L' \in Lists /\ Len(L') = i' /\ \A n \in 1 .. Len(L') : FALSE
    BY <1>5, EmptyRight DEF RightList
  <1>14. Making(lists[word])'
    BY ONLY <1>1, <1>5, <1>6, <1>10, <1>12, <1>13, Zenon DEF Making
  <1> QED
    BY <1>1, <1>9, <1>14, Started, Zenon DEF Taking

\* A term that changes the list on top: the stack as it begins.
LEMMA TopStarts ==
  ASSUME BooleanInv, NEW w \in Words, NEW o, GetDocsOp(w, o, Top), stack # <<>>, stack' = stack,
         NEW M \in SUBSET (1 .. num_of_docs),
         means' = Front(means) \o <<M>> \/ (M = Meaning /\ means' = means),
         group' = Closed \/ (group' \subseteq 1 .. num_of_docs /\ group' # {}),
         op' = o
  PROVE  QueryType' /\ Tops' /\ Top' = Top /\ Meaning' = M
  <1>2. FileOK /\ QueryOK
    BY Zenon DEF BooleanInv
  <1>3. pc = "idle"
    BY Zenon DEF GetDocsOp
  <1>4. AllRight /\ QueryType /\ ops \in 0 .. MaxOps /\ Tops
    BY <1>2, <1>3, IdleFacts
  <1>5. ops' \in 0 .. MaxOps
    BY <1>2, <1>4, StartReading
  <1>7. stack \in Seq(Lists) /\ means \in Seq(SUBSET (1 .. num_of_docs)) /\ Len(means) = Len(stack)
    BY <1>4, Zenon DEF QueryType, AllRight
  <1>8. PICK n : n = Len(stack)
    OBVIOUS
  <1>9. n \in Nat \ {0} /\ means # <<>>
    BY <1>7, <1>8
  <1>10. means' \in Seq(SUBSET (1 .. num_of_docs)) /\ PutAt(means', means, n, M)
    <2>1. CASE means' = Front(means) \o <<M>>
      BY ONLY <1>7, <1>8, <1>9, <2>1, M \in SUBSET (1 .. num_of_docs), PutTop
    <2>2. CASE M = Meaning /\ means' = means
      BY <1>7, <1>8, <2>2 DEF PutAt, Meaning
    <2> QED
      BY <2>1, <2>2
  <1>11. PutAt(stack', stack, n, Top)
    BY <1>8 DEF PutAt, Top
  <1>12. Below(n - 1)
    BY <1>4, <1>8, Zenon DEF Tops
  <1>13. Tops' /\ Top' = Top /\ Meaning' = M
    BY ONLY <1>9, <1>10, <1>11, <1>12, BelowPut, stack # <<>>, stack' = stack
  <1>14. QueryType'
    BY ONLY <1>5, <1>7, <1>10, stack' = stack,
            group' = Closed \/ (group' \subseteq 1 .. num_of_docs /\ group' # {}), Zenon DEF QueryType
  <1> QED
    BY <1>13, <1>14

\* What a term that changes the list on top starts with.
TopStart(A, g, l0, dd, w) ==
  /\ stack # <<>> /\ UNCHANGED file /\ src' = 0 /\ dest' = 0 /\ CurrDoc' = 0 /\ L' = l0 /\ word' = w
  /\ l0 = Top /\ l0 \in Lists /\ A = Meaning /\ A \in SUBSET (1 .. num_of_docs)
  /\ g = group \ Closed /\ g \subseteq 1 .. num_of_docs /\ (group = Closed => g = {})
  /\ RightList(l0, A, g) /\ dd = DocsOf(w) /\ DocsOf(word)' = dd
  /\ dd \in SUBSET (1 .. num_of_docs) /\ dd # {}

\* And the list it works on.
LEMMA TopStartIs ==
  ASSUME BooleanInv, NEW w \in Words, NEW o, GetDocsOp(w, o, Top), stack # <<>>,
         NEW A, A = Meaning, NEW g, g = group \ Closed, NEW l0, l0 = Top, NEW dd, dd = DocsOf(w)
  PROVE  TopStart(A, g, l0, dd, w) /\ op' = o
  <1>1. FileOK /\ QueryOK
    BY Zenon DEF BooleanInv
  <1>2. pc = "idle"
    BY Zenon DEF GetDocsOp
  <1>3. /\ QueryType /\ AllRight /\ ops \in 0 .. MaxOps /\ g \subseteq 1 .. num_of_docs
        /\ (group = Closed => g = {}) /\ RightList(Top, Meaning, g) /\ Top \in Lists
    BY <1>1, <1>2, IdleFacts
  <1>4. /\ UNCHANGED file /\ CurrDoc' = 0 /\ src' = 0 /\ dest' = 0 /\ op' = o /\ word' = w /\ L' = Top
    BY <1>1, <1>3, StartReading
  <1>5. DocsOf(w) \in SUBSET (1 .. num_of_docs) /\ DocsOf(w) # {} /\ DocsOf(word)' = DocsOf(w)
    BY <1>4, WordDocs
  <1>6. Meaning \in SUBSET (1 .. num_of_docs)
    <2>1. Len(means) = Len(stack)
      BY <1>3, Zenon DEF AllRight
    <2> QED
      BY <1>3, <2>1, QueryFacts
  <1> QED
    BY ONLY <1>3, <1>4, <1>5, <1>6, A = Meaning, g = group \ Closed, l0 = Top, dd = DocsOf(w), stack # <<>>,
       Zenon DEF TopStart

\* A term of an AND.
LEMMA AndTermStarts ==
  ASSUME BooleanInv, NEW w \in Words, AndTerm(w)
  PROVE  BooleanInv'
  <1>1. /\ stack # <<>> /\ group = Closed /\ GetDocsOp(w, "and", Top)
        /\ means' = Front(means) \o <<Meaning \cap DocsOf(w)>> /\ stack' = stack /\ group' = group
    BY DEF AndTerm
  <1>2. PICK A, g, l0, dd : A = Meaning /\ g = group \ Closed /\ l0 = Top /\ dd = DocsOf(w)
    OBVIOUS
  <1>3. TopStart(A, g, l0, dd, w) /\ op' = "and"
    BY <1>1, <1>2, TopStartIs
  <1>4. /\ UNCHANGED file /\ src' = 0 /\ dest' = 0 /\ CurrDoc' = 0 /\ L' = l0 /\ word' = w
        /\ l0 = Top /\ l0 \in Lists /\ A \in SUBSET (1 .. num_of_docs)
        /\ RightList(l0, A, {}) /\ DocsOf(word)' = dd
    BY ONLY <1>1, <1>3, Zenon DEF TopStart
  <1>5. PICK M : M = A \cap dd
    OBVIOUS
  <1>6. M \in SUBSET (1 .. num_of_docs) /\ means' = Front(means) \o <<M>>
    BY <1>1, <1>2, <1>4, <1>5
  <1>7. QueryType' /\ Tops' /\ Top' = Top /\ Meaning' = M
    BY <1>1, <1>3, <1>6, TopStarts
  <1>8. Kept(l0, l0, 0, 0, dd) /\ Behind(l0, 0, 0) /\ Before(l0, 0, 0)
    BY <1>4, NothingRead
  <1>9. ChangingAnd(A, dd)'
    <2>1. Kept(L, Top, dest, src, dd)' /\ Behind(Top, src, CurrDoc)'
      <3>1. Top' = l0
        BY ONLY <1>4, <1>7
      <3>2. Kept(L', Top', dest', src', dd) /\ Behind(Top', src', CurrDoc')
        BY ONLY <1>4, <1>8, <3>1, Zenon
      <3> QED
        BY ONLY <3>2, Zenon DEF Kept, Behind, RightList, Increasing, DocNums, Mk, Docs
    <2>2. RightList(Top, A, {})'
      BY ONLY <1>4, <1>7, Zenon DEF RightList, Increasing, DocNums, Mk
    <2> QED
      BY ONLY <1>1, <1>3, <1>5, <1>7, <2>1, <2>2, Zenon DEF ChangingAnd
  <1>10. Before(Top, src, CurrDoc)'
    BY ONLY <1>4, <1>7, <1>8, Zenon DEF Before
  <1>11. Changing'
    <2>1. ChangingAnd(A, DocsOf(word))'
      BY ONLY <1>4, <1>9, Zenon DEF ChangingAnd, Kept, Behind, RightList, Increasing, DocNums, Mk, Docs
    <2> QED
      BY ONLY <1>7, <1>10, <2>1, Zenon DEF Changing
  <1> QED
    BY <1>1, <1>7, <1>11, Started, Zenon DEF Taking

\* A term of a difference.
LEMMA DiffTermStarts ==
  ASSUME BooleanInv, NEW w \in Words, DiffTerm(w)
  PROVE  BooleanInv'
  <1>1. /\ stack # <<>> /\ group = Closed /\ GetDocsOp(w, "diff", Top)
        /\ means' = Front(means) \o <<Meaning \ DocsOf(w)>> /\ stack' = stack /\ group' = group
    BY DEF DiffTerm
  <1>2. PICK A, g, l0, dd : A = Meaning /\ g = group \ Closed /\ l0 = Top /\ dd = DocsOf(w)
    OBVIOUS
  <1>3. TopStart(A, g, l0, dd, w) /\ op' = "diff"
    BY <1>1, <1>2, TopStartIs
  <1>4. /\ UNCHANGED file /\ src' = 0 /\ dest' = 0 /\ CurrDoc' = 0 /\ L' = l0 /\ word' = w
        /\ l0 = Top /\ l0 \in Lists /\ A \in SUBSET (1 .. num_of_docs)
        /\ RightList(l0, A, {}) /\ DocsOf(word)' = dd
    BY ONLY <1>1, <1>3, Zenon DEF TopStart
  <1>5. PICK M, keep : M = A \ dd /\ keep = (1 .. num_of_docs) \ dd
    OBVIOUS
  <1>6. M \in SUBSET (1 .. num_of_docs) /\ means' = Front(means) \o <<M>>
    BY <1>1, <1>2, <1>4, <1>5
  <1>7. QueryType' /\ Tops' /\ Top' = Top /\ Meaning' = M
    BY <1>1, <1>3, <1>6, TopStarts
  <1>8. Kept(l0, l0, 0, 0, keep) /\ Behind(l0, 0, 0) /\ Before(l0, 0, 0)
    BY <1>4, NothingRead
  <1>9. ChangingDiff(A, dd)'
    <2>1. Kept(L, Top, dest, src, keep)' /\ Behind(Top, src, CurrDoc)'
      <3>1. Top' = l0
        BY ONLY <1>4, <1>7
      <3>2. Kept(L', Top', dest', src', keep) /\ Behind(Top', src', CurrDoc')
        BY ONLY <1>4, <1>8, <3>1, Zenon
      <3> QED
        BY ONLY <3>2, Zenon DEF Kept, Behind, RightList, Increasing, DocNums, Mk, Docs
    <2>2. RightList(Top, A, {})'
      BY ONLY <1>4, <1>7, Zenon DEF RightList, Increasing, DocNums, Mk
    <2> QED
      BY ONLY <1>1, <1>3, <1>5, <1>7, <2>1, <2>2, Zenon DEF ChangingDiff
  <1>10. Before(Top, src, CurrDoc)'
    BY ONLY <1>4, <1>7, <1>8, Zenon DEF Before
  <1>11. Changing'
    <2>1. ChangingDiff(A, DocsOf(word))'
      BY ONLY <1>4, <1>9, Zenon DEF ChangingDiff, Kept, Behind, RightList, Increasing, DocNums, Mk, Docs
    <2> QED
      BY ONLY <1>7, <1>10, <2>1, Zenon DEF Changing
  <1> QED
    BY <1>1, <1>7, <1>11, Started, Zenon DEF Taking

\* A term of an OR inside an AND.
LEMMA OrTermStarts ==
  ASSUME BooleanInv, NEW w \in Words, OrTerm(w)
  PROVE  BooleanInv'
  <1>1. /\ stack # <<>> /\ GetDocsOp(w, "and_or", Top)
        /\ means' = means /\ stack' = stack /\ group' = (group \ Closed) \cup DocsOf(w)
    BY DEF OrTerm
  <1>2. PICK A, g, l0, dd : A = Meaning /\ g = group \ Closed /\ l0 = Top /\ dd = DocsOf(w)
    OBVIOUS
  <1>3. TopStart(A, g, l0, dd, w) /\ op' = "and_or"
    BY <1>1, <1>2, TopStartIs
  <1>4. /\ UNCHANGED file /\ src' = 0 /\ dest' = 0 /\ CurrDoc' = 0 /\ L' = l0 /\ word' = w
        /\ l0 = Top /\ l0 \in Lists /\ A \in SUBSET (1 .. num_of_docs)
        /\ RightList(l0, A, g) /\ DocsOf(word)' = dd /\ g \subseteq 1 .. num_of_docs
        /\ dd \in SUBSET (1 .. num_of_docs) /\ dd # {}
    BY ONLY <1>1, <1>3, Zenon DEF TopStart
  <1>5. group' = g \cup dd /\ group' \subseteq 1 .. num_of_docs /\ group' # {}
    BY <1>1, <1>2, <1>4
  <1>7. QueryType' /\ Tops' /\ Top' = Top /\ Meaning' = A
    BY <1>1, <1>2, <1>3, <1>4, <1>5, TopStarts
  <1>8. Marked(l0, l0, 0, dd) /\ Before(l0, 0, 0)
    BY <1>4, NothingRead
  <1>9. ChangingOr(A, g, dd)'
    <2>1. Marked(L, Top, src, dd)'
      BY ONLY <1>4, <1>7, <1>8, Zenon DEF Marked, Mk
    <2>2. RightList(Top, A, g)'
      BY ONLY <1>4, <1>7, Zenon DEF RightList, Increasing, DocNums, Mk
    <2> QED
      BY ONLY <1>3, <1>4, <1>5, <1>7, <2>1, <2>2, Zenon DEF ChangingOr
  <1>10. Before(Top, src, CurrDoc)'
    BY ONLY <1>4, <1>7, <1>8, Zenon DEF Before
  <1>11. Changing'
    <2>1. ChangingOr(A, g, DocsOf(word))'
      BY ONLY <1>4, <1>9, Zenon DEF ChangingOr, Marked, Mk, RightList, Increasing, DocNums
    <2> QED
      BY ONLY <1>7, <1>10, <2>1, Zenon DEF Changing
  <1> QED
    BY <1>1, <1>7, <1>11, Started, Zenon DEF Taking

----------------------------------------------------------------------------
(* A term's entry is read.                                                 *)

\* In the middle of a term.
LEMMA AtWork ==
  ASSUME BooleanInv, pc # "idle"
  PROVE  FileOK /\ QueryType /\ Underway /\ Taking
  BY Zenon DEF BooleanInv, QueryOK

\* A step inside a term has its place and its list to show.
LEMMA StillAtWork ==
  ASSUME BooleanInv, UNCHANGED <<file, word>>, QueryType', Taking',
         NEW e, NEW c, NEW codes, NEW place, Given(e, ifh, c, codes, place), At(e, c, place)'
  PROVE  BooleanInv'
  <1>1. Given(e, ifh, c, codes, place)'
    BY GivenKept
  <1>2. FileOK'
    BY FileKept, Zenon DEF BooleanInv
  <1>3. pc' \in {"loop", "header", "posting"}
    BY Zenon DEF At
  <1>4. pc' \in {"idle", "loop", "header", "posting"} /\ pc' # "idle"
    BY <1>3
  <1>5. Underway'
    BY <1>1, Zenon DEF Underway
  <1> QED
    BY <1>2, <1>4, <1>5, Zenon DEF BooleanInv, QueryOK

\* What does not change while a term is read.
LEMMA QuerySame ==
  ASSUME UNCHANGED <<query, file, word>>
  PROVE  /\ QueryType => QueryType'
         /\ Tops => Tops'
         /\ Top' = Top /\ Meaning' = Meaning /\ DocsOf(word)' = DocsOf(word)
         /\ group' = group /\ stack' = stack /\ means' = means /\ lists'[word'] = lists[word]
         /\ (\A A, g : RightList(Top, A, g) => RightList(Top, A, g)')
  <1>1. ops' = ops /\ stack' = stack /\ means' = means /\ group' = group
    BY DEF query
  <1>2. lists' = lists /\ word' = word
    BY DEF file
  <1>3. Top' = Top
    BY ONLY <1>1, Zenon DEF Top
  <1>4. Meaning' = Meaning
    BY ONLY <1>1, Zenon DEF Meaning
  <1>5. DocsOf(word)' = DocsOf(word)
    BY ONLY <1>2, Zenon DEF DocsOf
  <1>6. QueryType => QueryType'
    BY ONLY <1>1, Zenon DEF QueryType
  <1>7. Tops => Tops'
    BY ONLY <1>1, ZenonT(60) DEF Tops, Below, RightList, Increasing, DocNums, Mk
  <1>8. \A A, g : RightList(Top, A, g) => RightList(Top, A, g)'
    BY ONLY <1>3, Zenon DEF RightList, Increasing, DocNums, Mk
  <1> QED
    BY <1>1, <1>2, <1>3, <1>4, <1>5, <1>6, <1>7, <1>8

\* The list on top, being changed, in the next state.
LEMMA AndPrimed ==
  ASSUME NEW A, NEW dd, NEW l0, Kept(L', l0, dest', src', dd), Behind(l0, src', CurrDoc'),
         Before(l0, src', CurrDoc'), Top' = l0, RightList(l0, A, {}), op' = "and", group' = Closed,
         Meaning' = A \cap dd, DocsOf(word)' = dd, Tops'
  PROVE  Changing'
  <1>1. Kept(L', Top', dest', src', dd) /\ Behind(Top', src', CurrDoc') /\ Before(Top', src', CurrDoc')
        /\ RightList(Top', A, {})
    BY Zenon
  <1>2. Before(Top, src, CurrDoc)'
    BY ONLY <1>1, Zenon DEF Before
  <1>3. Kept(L, Top, dest, src, dd)' /\ Behind(Top, src, CurrDoc)'
    BY ONLY <1>1, Zenon DEF Kept, Behind, RightList, Increasing, DocNums, Mk, Docs
  <1>4. RightList(Top, A, {})'
    BY ONLY <1>1, Zenon DEF RightList, Increasing, DocNums, Mk
  <1>5. ChangingAnd(A, dd)'
    BY <1>3, <1>4, Zenon DEF ChangingAnd
  <1>6. ChangingAnd(A, DocsOf(word))'
    BY ONLY <1>5, DocsOf(word)' = dd, Zenon DEF ChangingAnd, Kept, Behind, RightList, Increasing, DocNums, Mk, Docs
  <1> QED
    BY <1>2, <1>6, Zenon DEF Changing

\* A difference after a step.
LEMMA DiffPrimed ==
  ASSUME NEW A, NEW dd, NEW l0, NEW keep, keep = (1 .. num_of_docs) \ dd, Kept(L', l0, dest', src', keep),
         Behind(l0, src', CurrDoc'),
         Before(l0, src', CurrDoc'), Top' = l0, RightList(l0, A, {}), op' = "diff", group' = Closed,
         Meaning' = A \ dd, DocsOf(word)' = dd, Tops'
  PROVE  Changing'
  <1>1. Kept(L', Top', dest', src', (1 .. num_of_docs) \ dd) /\ Behind(Top', src', CurrDoc')
        /\ Before(Top', src', CurrDoc') /\ RightList(Top', A, {})
    BY Zenon
  <1>2. Before(Top, src, CurrDoc)'
    BY ONLY <1>1, Zenon DEF Before
  <1>3. Kept(L, Top, dest, src, (1 .. num_of_docs) \ dd)' /\ Behind(Top, src, CurrDoc)'
    BY ONLY <1>1, Zenon DEF Kept, Behind, RightList, Increasing, DocNums, Mk, Docs
  <1>4. RightList(Top, A, {})'
    BY ONLY <1>1, Zenon DEF RightList, Increasing, DocNums, Mk
  <1>5. ChangingDiff(A, dd)'
    BY <1>3, <1>4, Zenon DEF ChangingDiff
  <1>6. ChangingDiff(A, DocsOf(word))'
    BY ONLY <1>5, DocsOf(word)' = dd, Zenon DEF ChangingDiff, Kept, Behind, RightList, Increasing, DocNums, Mk, Docs
  <1> QED
    BY <1>2, <1>6, Zenon DEF Changing

\* An OR inside an AND after a step.
LEMMA OrPrimed ==
  ASSUME NEW A, NEW g, NEW dd, NEW l0, Marked(L', l0, src', dd), dest' = 0,
         Before(l0, src', CurrDoc'), Top' = l0, RightList(l0, A, g), op' = "and_or", group' = g \cup dd,
         Meaning' = A, DocsOf(word)' = dd, Tops'
  PROVE  Changing'
  <1>1. Marked(L', Top', src', dd) /\ Before(Top', src', CurrDoc') /\ RightList(Top', A, g)
    BY Zenon
  <1>2. Before(Top, src, CurrDoc)'
    BY ONLY <1>1, Zenon DEF Before
  <1>3. Marked(L, Top, src, dd)'
    BY ONLY <1>1, Zenon DEF Marked, Mk
  <1>4. RightList(Top, A, g)'
    BY ONLY <1>1, Zenon DEF RightList, Increasing, DocNums, Mk
  <1>5. ChangingOr(A, g, dd)'
    BY <1>3, <1>4, Zenon DEF ChangingOr
  <1>6. ChangingOr(A, g, DocsOf(word))'
    BY ONLY <1>5, DocsOf(word)' = dd, Zenon DEF ChangingOr, Marked, RightList, Increasing, DocNums, Mk
  <1> QED
    BY <1>2, <1>6, Zenon DEF Changing

\* The same in the state at hand, by cases.
AndCase(l0, A, g, dd) ==
  /\ op = "and" /\ group = Closed /\ Meaning = A \cap dd /\ g = {}
  /\ Kept(L, l0, dest, src, dd) /\ Behind(l0, src, CurrDoc)
DiffCase(l0, A, g, dd, keep) ==
  /\ op = "diff" /\ group = Closed /\ Meaning = A \ dd /\ g = {} /\ keep = (1 .. num_of_docs) \ dd
  /\ Kept(L, l0, dest, src, keep) /\ Behind(l0, src, CurrDoc)
OrCase(l0, A, g, dd) ==
  /\ op = "and_or" /\ group = g \cup dd /\ Meaning = A
  /\ Marked(L, l0, src, dd) /\ dest = 0
ChangedList(l0, A, g, dd, keep) ==
  /\ l0 = Top /\ dd = DocsOf(word) /\ Tops /\ Before(l0, src, CurrDoc) /\ RightList(l0, A, g)
  /\ AndCase(l0, A, g, dd) \/ DiffCase(l0, A, g, dd, keep) \/ OrCase(l0, A, g, dd)

\* The lists that Changing speaks of.
LEMMA ChangingIs ==
  ASSUME Changing
  PROVE  \E l0, A, g, dd, keep : ChangedList(l0, A, g, dd, keep)
  <1>1. PICK A, g : ChangingAnd(A, DocsOf(word)) \/ ChangingDiff(A, DocsOf(word))
                    \/ ChangingOr(A, g, DocsOf(word))
    BY Zenon DEF Changing
  <1>2. Tops /\ Before(Top, src, CurrDoc)
    BY Zenon DEF Changing
  <1>3. PICK keep : keep = (1 .. num_of_docs) \ DocsOf(word)
    OBVIOUS
  <1>4. ChangingAnd(A, DocsOf(word)) => ChangedList(Top, A, {}, DocsOf(word), keep)
    BY <1>2, Zenon DEF ChangingAnd, ChangedList, AndCase
  <1>5. ChangingDiff(A, DocsOf(word)) => ChangedList(Top, A, {}, DocsOf(word), keep)
    BY <1>2, <1>3, Zenon DEF ChangingDiff, ChangedList, DiffCase
  <1>6. ChangingOr(A, g, DocsOf(word)) => ChangedList(Top, A, g, DocsOf(word), keep)
    BY <1>2, Zenon DEF ChangingOr, ChangedList, OrCase
  <1> QED
    BY <1>1, <1>4, <1>5, <1>6

\* A step that leaves the list of a term alone.
LEMMA MakingPrimed ==
  ASSUME Making(lists[word]), UNCHANGED <<query, file, word, op, L, src, dest, i>>
  PROVE  Making(lists[word])'
  <1>1. PICK e, n, dd : e = lists[word] /\ n = Len(stack) /\ dd = DocsOf(word)
    OBVIOUS
  <1>2. /\ op = "term" /\ group = Closed /\ Len(means) = n + 1 /\ Below(n)
        /\ Meaning = dd
        /\ src = 0 /\ dest = 0 /\ L \in Lists /\ Len(L) = i
        /\ \A m \in 1 .. Len(L) : L[m] = [doc |-> D(e, m), or_included |-> FALSE]
    BY <1>1, Zenon DEF Making
  <1>3. /\ Meaning' = Meaning /\ DocsOf(word)' = DocsOf(word)
        /\ group' = group /\ stack' = stack /\ means' = means /\ lists'[word'] = lists[word]
    BY QuerySame
  <1>4. op' = op /\ L' = L /\ src' = src /\ dest' = dest /\ i' = i
    OBVIOUS
  <1>5. Below(n)'
    BY ONLY <1>2, <1>3, Zenon DEF Below, RightList, Increasing, DocNums, Mk
  <1>6. Below(Len(stack))'
    BY ONLY <1>1, <1>3, <1>5, Zenon DEF Below, RightList, Increasing, DocNums, Mk
  <1>7. /\ op' = "term" /\ group' = Closed /\ Len(means') = Len(stack') + 1
        /\ Meaning' = DocsOf(word)'
        /\ src' = 0 /\ dest' = 0 /\ L' \in Lists /\ Len(L') = i'
        /\ \A m \in 1 .. Len(L') : L'[m] = [doc |-> D(e, m), or_included |-> FALSE]
    BY ONLY <1>1, <1>2, <1>3, <1>4
  <1> QED
    BY ONLY <1>1, <1>3, <1>6, <1>7, Zenon DEF Making, D

\* What the query is about stays the same.
LEMMA TakingSame ==
  ASSUME Taking, UNCHANGED <<query, file, word, op, L, src, dest, i, CurrDoc>>
  PROVE  Taking'
  <1>5. UNCHANGED <<query, file, word>>
    OBVIOUS
  <1>6. /\ Top' = Top /\ Meaning' = Meaning /\ DocsOf(word)' = DocsOf(word)
        /\ group' = group /\ stack' = stack /\ means' = means /\ lists'[word'] = lists[word]
        /\ (Tops => Tops')
    BY <1>5, QuerySame
  <1>7. op' = op /\ L' = L /\ src' = src /\ dest' = dest /\ i' = i /\ CurrDoc' = CurrDoc
    OBVIOUS
  <1>8. CASE Changing
    <2>1. PICK l0, A, g, dd, keep : ChangedList(l0, A, g, dd, keep)
      BY <1>8, ChangingIs
    <2>2. /\ l0 = Top /\ dd = DocsOf(word) /\ Tops /\ Before(l0, src, CurrDoc) /\ RightList(l0, A, g)
          /\ AndCase(l0, A, g, dd) \/ DiffCase(l0, A, g, dd, keep) \/ OrCase(l0, A, g, dd)
      BY ONLY <2>1, Zenon DEF ChangedList
    <2>3. Top' = l0 /\ DocsOf(word)' = dd /\ Tops' /\ Before(l0, src', CurrDoc')
      BY ONLY <1>6, <1>7, <2>2
    <2>4. ASSUME AndCase(l0, A, g, dd) PROVE Changing'
      <3>1. Kept(L', l0, dest', src', dd) /\ Behind(l0, src', CurrDoc') /\ op' = "and" /\ group' = Closed
            /\ Meaning' = A \cap dd /\ RightList(l0, A, {})
        BY ONLY <1>6, <1>7, <2>2, <2>4, Zenon DEF AndCase
      <3> QED
        BY ONLY <2>3, <3>1, AndPrimed
    <2>5. ASSUME DiffCase(l0, A, g, dd, keep) PROVE Changing'
      <3>1. Kept(L', l0, dest', src', keep) /\ Behind(l0, src', CurrDoc') /\ op' = "diff"
            /\ group' = Closed /\ Meaning' = A \ dd /\ RightList(l0, A, {})
            /\ keep = (1 .. num_of_docs) \ dd
        BY ONLY <1>6, <1>7, <2>2, <2>5, Zenon DEF DiffCase
      <3> QED
        BY ONLY <2>3, <3>1, DiffPrimed
    <2>6. ASSUME OrCase(l0, A, g, dd) PROVE Changing'
      <3>1. Marked(L', l0, src', dd) /\ dest' = 0 /\ op' = "and_or" /\ group' = g \cup dd
            /\ Meaning' = A
        BY ONLY <1>6, <1>7, <2>2, <2>6, Zenon DEF OrCase
      <3> QED
        BY ONLY <2>2, <2>3, <3>1, OrPrimed
    <2>7. Changing'
      BY ONLY <2>2, <2>4, <2>5, <2>6
    <2> QED
      BY <2>7, Zenon DEF Taking
  <1>9. CASE Making(lists[word])
    <2>1. Making(lists[word])'
      BY <1>9, MakingPrimed
    <2> QED
      BY <2>1, Zenon DEF Taking
  <1> QED
    BY <1>8, <1>9, Zenon DEF Taking

\* A header is read.
LEMMA HeaderKeeps ==
  ASSUME BooleanInv, Header
  PROVE  BooleanInv'
  <1>1. pc # "idle"
    BY DEF Header
  <1>2. QueryType /\ Underway /\ Taking
    BY <1>1, AtWork
  <1>3. PICK e, c, codes, place : Given(e, ifh, c, codes, place) /\ At(e, c, place)
    BY <1>2, Zenon DEF Underway
  <1>4. At(e, c, place)' /\ UNCHANGED <<file, op, L, src, dest>> /\ i' = i /\ CurrDoc' = CurrDoc
    BY <1>3, HeaderAtStep
  <1>5. UNCHANGED <<query, file, word>>
    BY DEF Header
  <1>6. QueryType'
    BY <1>2, <1>5, QuerySame
  <1>7. Taking'
    BY <1>2, <1>4, <1>5, TakingSame
  <1> QED
    BY <1>3, <1>4, <1>5, <1>6, <1>7, StillAtWork

\* What is left of the list is as it was.
LEMMA RestSame ==
  ASSUME NEW l0, NEW A, NEW g, NEW dd, NEW keep, ChangedList(l0, A, g, dd, keep)
  PROVE  /\ src \in 0 .. Len(l0) /\ Len(L) = Len(l0) /\ L \in Lists /\ dest \in 0 .. src
         /\ \A n \in (src + 1) .. Len(l0) : L[n] = l0[n]
         /\ op \in {"and", "diff", "and_or"}
  <1>1. CASE AndCase(l0, A, g, dd)
    BY <1>1, Zenon DEF AndCase, Kept
  <1>2. CASE DiffCase(l0, A, g, dd, keep)
    BY <1>2, Zenon DEF DiffCase, Kept
  <1>3. CASE OrCase(l0, A, g, dd)
    <2>1. /\ src \in 0 .. Len(l0) /\ Len(L) = Len(l0) /\ L \in Lists /\ dest = 0
          /\ (\A n \in (src + 1) .. Len(l0) : L[n] = l0[n]) /\ op = "and_or"
      BY <1>3, Zenon DEF OrCase, Marked
    <2>2. dest \in 0 .. src
      <3>1. Len(l0) \in Nat
        <4>1. RightList(l0, A, g)
          BY Zenon DEF ChangedList
        <4> QED
          BY <4>1, RightListFacts
      <3> QED
        BY <2>1, <3>1
    <2> QED
      BY <2>1, <2>2
  <1> QED
    BY <1>1, <1>2, <1>3, Zenon DEF ChangedList

\* A jump leaves no candidate behind that the word could have met.
LEMMA HopKeeps ==
  ASSUME BooleanInv, Hop
  PROVE  BooleanInv'
  <1>1. pc # "idle"
    BY DEF Hop
  <1>2. QueryType /\ Underway /\ Taking
    BY <1>1, AtWork
  <1>3. PICK e, c, codes, place : Given(e, ifh, c, codes, place) /\ At(e, c, place)
    BY <1>2, Zenon DEF Underway
  <1>4. At(e, c, place)' /\ Ahead(e, c.k)
    BY <1>3, HopAt
  <1>5. UNCHANGED <<query, file, word>>
    BY DEF Hop
  <1>6. /\ QueryType' /\ Top' = Top /\ Meaning' = Meaning /\ DocsOf(word)' = DocsOf(word)
        /\ group' = group /\ stack' = stack /\ means' = means /\ lists'[word'] = lists[word]
        /\ (Tops => Tops')
    BY <1>2, <1>5, QuerySame
  <1>7. op' = op /\ L' = L /\ src' = src /\ dest' = dest /\ op # "term"
    BY DEF Hop, MaySkip
  <1>8. Changing
    BY <1>2, <1>7, Zenon DEF Taking, Making
  <1>9. PICK l0, A, g, dd, keep : ChangedList(l0, A, g, dd, keep)
    BY <1>8, ChangingIs
  <1>10. /\ l0 = Top /\ dd = DocsOf(word) /\ Tops /\ Before(l0, src, CurrDoc) /\ RightList(l0, A, g)
         /\ AndCase(l0, A, g, dd) \/ DiffCase(l0, A, g, dd, keep) \/ OrCase(l0, A, g, dd)
    BY ONLY <1>9, Zenon DEF ChangedList
  <1>11. PICK d1, d2, N : d1 = CurrDoc /\ d2 = CurrDoc' /\ N = Len(l0)
    OBVIOUS
  <1>12. d1 \in Nat /\ d2 \in Nat /\ d1 <= d2 /\ L[src + 1].doc > d2
    <2>1. PICK a, b : a = i /\ b = i'
      OBVIOUS
    <2>2. a \in 0 .. Len(e.docs) /\ CurrDoc = D(e, a)
      BY <1>3, <2>1, Zenon DEF At
    <2>3. b \in a .. Len(e.docs) /\ CurrDoc' = D(e, b) /\ L[src + 1].doc > D(e, b)
      BY <1>4, <2>1, Zenon DEF Ahead
    <2>4. /\ Len(e.docs) \in Nat /\ num_of_docs \in Nat
          /\ \A j \in 0 .. Len(e.docs) : D(e, j) \in 0 .. num_of_docs
          /\ \A m, n \in 0 .. Len(e.docs) : m < n => D(e, m) < D(e, n)
      BY <1>3, GivenFacts
    <2>5. b \in 0 .. Len(e.docs) /\ (a = b \/ a < b)
      BY <2>2, <2>3, <2>4
    <2>6. D(e, a) \in Nat /\ D(e, b) \in Nat /\ (a < b => D(e, a) < D(e, b))
      BY <2>2, <2>4, <2>5
    <2>7. D(e, a) <= D(e, b)
      <3>1. CASE a = b
        BY <2>6, <3>1
      <3>2. CASE a < b
        BY <2>6, <3>2
      <3> QED
        BY <2>5, <3>1, <3>2
    <2> QED
      BY <1>11, <2>2, <2>3, <2>6, <2>7
  <1>13. /\ N \in Nat /\ src \in 0 .. N /\ \A n \in (src + 1) .. N : L[n] = l0[n]
         /\ \A n \in 1 .. N : l0[n].doc \in Nat
         /\ \A m, n \in 1 .. N : m < n => l0[m].doc < l0[n].doc
    <2>1. src \in 0 .. N /\ \A n \in (src + 1) .. N : L[n] = l0[n]
      BY <1>9, <1>11, RestSame
    <2> QED
      BY <1>10, <1>11, <2>1, RightListFacts
  <1>14. Before(l0, src, d2)
    <2> SUFFICES ASSUME NEW n \in (src + 1) .. N PROVE l0[n].doc > d2
      BY <1>11 DEF Before
    <2>1. src + 1 \in (src + 1) .. N /\ src + 1 \in 1 .. N /\ n \in 1 .. N
      BY <1>13
    <2>2. l0[src + 1].doc > d2 /\ l0[src + 1].doc \in Nat /\ l0[n].doc \in Nat
      BY <1>12, <1>13, <2>1
    <2>3. n = src + 1 \/ src + 1 < n
      BY <1>13
    <2>4. src + 1 < n => l0[src + 1].doc < l0[n].doc
      BY <1>13, <2>1
    <2> QED
      BY <1>12, <2>2, <2>3, <2>4
  <1>15. Behind(l0, src, d1) => Behind(l0, src, d2)
    <2> SUFFICES ASSUME Behind(l0, src, d1), NEW n \in 1 .. src PROVE l0[n].doc <= d2
      BY DEF Behind
    <2>1. l0[n].doc <= d1 /\ l0[n].doc \in Nat
      BY <1>13 DEF Behind
    <2> QED
      BY <1>12, <2>1
  <1>16. Top' = l0 /\ DocsOf(word)' = dd /\ Tops' /\ Before(l0, src', CurrDoc')
    BY ONLY <1>6, <1>7, <1>10, <1>11, <1>14
  <1>17. ASSUME AndCase(l0, A, g, dd) PROVE Changing'
    <2>1. /\ Kept(L', l0, dest', src', dd) /\ op' = "and" /\ group' = Closed
          /\ Meaning' = A \cap dd /\ RightList(l0, A, {}) /\ Behind(l0, src, CurrDoc)
      BY ONLY <1>6, <1>7, <1>10, <1>17, Zenon DEF AndCase
    <2>2. Behind(l0, src', CurrDoc')
      BY ONLY <1>7, <1>11, <1>15, <2>1
    <2> QED
      BY ONLY <1>16, <2>1, <2>2, AndPrimed
  <1>18. ASSUME DiffCase(l0, A, g, dd, keep) PROVE Changing'
    <2>1. /\ Kept(L', l0, dest', src', keep) /\ op' = "diff" /\ group' = Closed
          /\ Meaning' = A \ dd /\ RightList(l0, A, {}) /\ Behind(l0, src, CurrDoc)
          /\ keep = (1 .. num_of_docs) \ dd
      BY ONLY <1>6, <1>7, <1>10, <1>18, Zenon DEF DiffCase
    <2>2. Behind(l0, src', CurrDoc')
      BY ONLY <1>7, <1>11, <1>15, <2>1
    <2> QED
      BY ONLY <1>16, <2>1, <2>2, DiffPrimed
  <1>19. ASSUME OrCase(l0, A, g, dd) PROVE Changing'
    <2>1. /\ Marked(L', l0, src', dd) /\ dest' = 0 /\ op' = "and_or" /\ group' = g \cup dd
          /\ Meaning' = A
      BY ONLY <1>6, <1>7, <1>10, <1>19, Zenon DEF OrCase
    <2> QED
      BY ONLY <1>10, <1>16, <2>1, OrPrimed
  <1>20. Changing'
    BY ONLY <1>10, <1>17, <1>18, <1>19
  <1> QED
    BY <1>3, <1>4, <1>5, <1>6, <1>20, StillAtWork, Zenon DEF Taking

\* The next document of the word.
NextDoc(doc, dd) ==
  /\ CurrDoc \in Nat /\ doc \in Nat /\ CurrDoc < doc /\ doc \in dd
  /\ \A x \in dd : x > CurrDoc => x >= doc

\* No document of the word lies between two postings.
LEMMA NextDocIs ==
  ASSUME NEW e \in Entries, e = lists[word], NEW j \in 0 .. (Len(e.docs) - 1), CurrDoc = D(e, j),
         NEW doc, doc = D(e, j + 1), NEW dd, dd = DocsOf(word)
  PROVE  NextDoc(doc, dd)
  <1>1. PICK P, k : P = Len(e.docs) /\ k = j + 1
    OBVIOUS
  <1>2. P \in Nat \ {0}
    BY <1>1, EntryFacts
  <1>3. j \in 0 .. P /\ k \in 0 .. P /\ k \in 1 .. P /\ j < k
    BY <1>1, <1>2
  <1>4. /\ \A m \in 0 .. P : D(e, m) \in 0 .. num_of_docs
        /\ \A m, n \in 0 .. P : m < n => D(e, m) < D(e, n)
        /\ num_of_docs \in Nat
    BY <1>1, GapFacts
  <1>5. /\ \A x \in dd : \E m \in 1 .. P : x = D(e, m)
        /\ \A m \in 1 .. P : D(e, m) \in dd
    BY <1>1, DocsOfIs
  <1>6. CurrDoc \in Nat /\ doc \in Nat /\ CurrDoc < doc /\ doc \in dd
    BY <1>1, <1>3, <1>4, <1>5
  <1>7. ASSUME NEW x \in dd, x > CurrDoc PROVE x >= doc
    <2>1. PICK m \in 1 .. P : x = D(e, m)
      BY <1>5
    <2>2. m \in 0 .. P /\ x \in Nat
      BY <1>2, <1>4, <2>1
    <2>3. ~(m < j) /\ m # j
      <3>1. m < j => D(e, m) < D(e, j)
        BY <1>3, <1>4, <2>2
      <3> QED
        BY <1>6, <1>7, <2>1, <2>2, <3>1
    <2>4. m = k \/ k < m
      BY <1>1, <1>3, <2>2, <2>3
    <2>5. k < m => D(e, k) < D(e, m)
      BY <1>3, <1>4, <2>2
    <2> QED
      BY <1>1, <1>6, <2>1, <2>2, <2>4, <2>5
  <1> QED
    BY <1>6, <1>7, Zenon DEF NextDoc

\* A posting is met by the list in place.
LEMMA PostingChanges ==
  ASSUME Changing, NEW doc, NEW dd, dd = DocsOf(word), NextDoc(doc, dd), Match(doc), CurrDoc' = doc,
         Top' = Top, DocsOf(word)' = dd, Tops', op' = op, group' = group, Meaning' = Meaning
  PROVE  Changing'
  <1>1. PICK l0, A, g, keep : ChangedList(l0, A, g, dd, keep)
    BY ChangingIs, Zenon DEF ChangedList
  <1>2. /\ l0 = Top /\ dd = DocsOf(word) /\ Tops /\ Before(l0, src, CurrDoc) /\ RightList(l0, A, g)
        /\ AndCase(l0, A, g, dd) \/ DiffCase(l0, A, g, dd, keep) \/ OrCase(l0, A, g, dd)
    BY ONLY <1>1, Zenon DEF ChangedList
  <1>3. CurrDoc \in Nat /\ doc \in Nat /\ CurrDoc < doc /\ doc \in dd
        /\ \A x \in dd : x > CurrDoc => x >= doc
    BY Zenon DEF NextDoc
  <1>4. Top' = l0 /\ op' = op /\ group' = group /\ Meaning' = Meaning
    BY <1>2
  <1>5. ASSUME AndCase(l0, A, g, dd) PROVE Changing'
    <2>1. /\ op = "and" /\ group = Closed /\ Meaning = A \cap dd /\ RightList(l0, A, {})
          /\ Kept(L, l0, dest, src, dd) /\ Behind(l0, src, CurrDoc)
      BY ONLY <1>2, <1>5, Zenon DEF AndCase
    <2>2. Kept(L, l0, dest, src, dd)' /\ Behind(l0, src, CurrDoc)' /\ Before(l0, src, CurrDoc)'
      BY ONLY <1>2, <1>3, <2>1, MatchAnd, Match(doc), CurrDoc' = doc
    <2>3. Kept(L', l0, dest', src', dd) /\ Behind(l0, src', CurrDoc') /\ Before(l0, src', CurrDoc')
      BY ONLY <2>2, Zenon DEF Kept, Behind, Before, RightList, Increasing, DocNums, Mk, Docs
    <2>4. op' = "and" /\ group' = Closed /\ Meaning' = A \cap dd
      BY ONLY <1>4, <2>1
    <2> QED
      BY ONLY <1>4, <2>1, <2>3, <2>4, AndPrimed, DocsOf(word)' = dd, Tops'
  <1>6. ASSUME DiffCase(l0, A, g, dd, keep) PROVE Changing'
    <2>1. /\ op = "diff" /\ group = Closed /\ Meaning = A \ dd /\ RightList(l0, A, {})
          /\ Kept(L, l0, dest, src, keep) /\ Behind(l0, src, CurrDoc) /\ keep = (1 .. num_of_docs) \ dd
      BY ONLY <1>2, <1>6, Zenon DEF DiffCase
    <2>2. Kept(L, l0, dest, src, keep)' /\ Behind(l0, src, CurrDoc)' /\ Before(l0, src, CurrDoc)'
      BY ONLY <1>2, <1>3, <2>1, MatchDiff, Match(doc), CurrDoc' = doc
    <2>3. Kept(L', l0, dest', src', keep) /\ Behind(l0, src', CurrDoc') /\ Before(l0, src', CurrDoc')
      BY ONLY <2>2, Zenon DEF Kept, Behind, Before, RightList, Increasing, DocNums, Mk, Docs
    <2>4. op' = "diff" /\ group' = Closed /\ Meaning' = A \ dd
      BY ONLY <1>4, <2>1
    <2> QED
      BY ONLY <1>4, <2>1, <2>3, <2>4, DiffPrimed, DocsOf(word)' = dd, Tops'
  <1>7. ASSUME OrCase(l0, A, g, dd) PROVE Changing'
    <2>1. /\ op = "and_or" /\ group = g \cup dd /\ Meaning = A
          /\ Marked(L, l0, src, dd) /\ dest = 0
      BY ONLY <1>7, Zenon DEF OrCase
    <2>2. Marked(L, l0, src, dd)' /\ Before(l0, src, CurrDoc)' /\ dest' = dest
      BY ONLY <1>2, <1>3, <2>1, MatchAndOr, Match(doc), CurrDoc' = doc
    <2>3. Marked(L', l0, src', dd) /\ Before(l0, src', CurrDoc') /\ dest' = 0
      BY ONLY <2>1, <2>2, Zenon DEF Marked, Before, Mk
    <2>4. op' = "and_or" /\ group' = g \cup dd /\ Meaning' = A
      BY ONLY <1>4, <2>1
    <2> QED
      BY ONLY <1>2, <1>4, <2>3, <2>4, OrPrimed, DocsOf(word)' = dd, Tops'
  <1> QED
    BY ONLY <1>2, <1>5, <1>6, <1>7

\* A posting is appended to the list of a term.
LEMMA PostingMakes ==
  ASSUME NEW e, e = lists[word], Making(e), NEW n, n = i, n \in Nat, NEW doc, doc = D(e, n + 1),
         doc \in 1 .. num_of_docs, Match(doc), i' = n + 1, UNCHANGED <<query, file, word, op>>
  PROVE  Making(lists[word])'
  <1>1. PICK sn, dd : sn = Len(stack) /\ dd = DocsOf(word)
    OBVIOUS
  <1>2. /\ op = "term" /\ group = Closed /\ Len(means) = sn + 1 /\ Below(sn)
        /\ Meaning = dd
        /\ src = 0 /\ dest = 0 /\ L \in Lists /\ Len(L) = n
        /\ \A m \in 1 .. Len(L) : L[m] = [doc |-> D(e, m), or_included |-> FALSE]
    BY <1>1, Zenon DEF Making
  <1>3. /\ Meaning' = Meaning /\ DocsOf(word)' = DocsOf(word)
        /\ group' = group /\ stack' = stack /\ means' = means /\ lists'[word'] = lists[word]
    BY QuerySame
  <1>4. PICK x : x = [doc |-> doc, or_included |-> FALSE]
    OBVIOUS
  <1>5. L' = Append(L, x) /\ src' = src /\ dest' = dest
    <2>1. PICK s : s = Candidate(doc)
      OBVIOUS
    <2>2. PICK hit \in BOOLEAN : hit <=> s < Len(L) /\ L[s + 1].doc = doc
      OBVIOUS
    <2>3. PICK s2 : s2 = IF hit THEN s + 1 ELSE s
      OBVIOUS
    <2>4. Changed(doc, s, hit, s2)
      BY <2>1, <2>2, <2>3, MatchDoes
    <2> QED
      BY <1>2, <1>4, <2>4, Zenon DEF Changed
  <1>6. x \in ListItem
    BY <1>4 DEF ListItem
  <1>7. /\ L' \in Lists /\ Len(L') = n + 1
        /\ \A m \in 1 .. (n + 1) : L'[m] = [doc |-> D(e, m), or_included |-> FALSE]
    <2>1. L \in Seq(ListItem) /\ Len(L) = n
      BY <1>2 DEF Lists
    <2>2. L' \in Seq(ListItem) /\ Len(L') = n + 1 /\ L'[n + 1] = x /\ \A m \in 1 .. n : L'[m] = L[m]
      BY ONLY <1>5, <1>6, <2>1
    <2>3. ASSUME NEW m \in 1 .. (n + 1) PROVE L'[m] = [doc |-> D(e, m), or_included |-> FALSE]
      <3>1. m \in 1 .. n \/ m = n + 1
        BY <2>1
      <3>2. m \in 1 .. n => L'[m] = [doc |-> D(e, m), or_included |-> FALSE]
        BY ONLY <1>2, <2>2
      <3>3. m = n + 1 => L'[m] = [doc |-> D(e, m), or_included |-> FALSE]
        BY ONLY <1>4, <2>2, doc = D(e, n + 1)
      <3> QED
        BY <3>1, <3>2, <3>3
    <2> QED
      BY <2>2, <2>3 DEF Lists
  <1>8. Below(sn)'
    BY ONLY <1>2, <1>3, Zenon DEF Below, RightList, Increasing, DocNums, Mk
  <1>9. Below(Len(stack))'
    BY ONLY <1>1, <1>3, <1>8, Zenon DEF Below, RightList, Increasing, DocNums, Mk
  <1>10. op' = op
    OBVIOUS
  <1>11. /\ op' = "term" /\ group' = Closed /\ Len(means') = Len(stack') + 1
        /\ Meaning' = DocsOf(word)'
        /\ src' = 0 /\ dest' = 0 /\ L' \in Lists /\ Len(L') = i'
        /\ \A m \in 1 .. Len(L') : L'[m] = [doc |-> D(e, m), or_included |-> FALSE]
    BY ONLY <1>1, <1>2, <1>3, <1>5, <1>7, <1>10, i' = n + 1
  <1>12. lists'[word'] = e
    BY <1>3
  <1> QED
    BY ONLY <1>9, <1>11, <1>12, Zenon DEF Making, D

\* A posting is read.
LEMMA PostingKeeps ==
  ASSUME BooleanInv, Posting
  PROVE  BooleanInv'
  <1>1. pc # "idle"
    BY DEF Posting
  <1>2. QueryType /\ Underway /\ Taking
    BY <1>1, AtWork
  <1>3. PICK e, c, codes, place : Given(e, ifh, c, codes, place) /\ At(e, c, place)
    BY <1>2, Zenon DEF Underway
  <1>4. At(e, c, place)' /\ Passed(e)
    BY <1>3, PostingAtStep
  <1>5. PICK n : n = i
    OBVIOUS
  <1>6. /\ n \in 0 .. (Len(e.docs) - 1) /\ i' = n + 1 /\ CurrDoc' = D(e, n + 1) /\ Match(D(e, n + 1))
        /\ UNCHANGED <<file, query, op, word>>
    BY ONLY <1>4, <1>5, Zenon DEF Passed
  <1>7. e \in Entries /\ e = lists[word] /\ CurrDoc = D(e, n)
    BY <1>3, <1>5, Zenon DEF Given, At
  <1>8. /\ QueryType' /\ Top' = Top /\ Meaning' = Meaning /\ DocsOf(word)' = DocsOf(word)
        /\ group' = group /\ (Tops => Tops') /\ op' = op
    BY <1>2, <1>6, QuerySame
  <1>9. PICK doc, dd : doc = D(e, n + 1) /\ dd = DocsOf(word)
    OBVIOUS
  <1>10. CASE Changing
    <2>1. NextDoc(doc, dd)
      BY <1>6, <1>7, <1>9, NextDocIs
    <2>2. Tops
      BY <1>10, Zenon DEF Changing
    <2>3. Changing'
      BY <1>6, <1>8, <1>9, <1>10, <2>1, <2>2, PostingChanges
    <2> QED
      BY <1>3, <1>4, <1>6, <1>8, <2>3, StillAtWork, Zenon DEF Taking
  <1>11. CASE Making(lists[word])
    <2>1. doc \in 1 .. num_of_docs /\ n \in Nat
      <3>1. Len(e.docs) \in Nat
        BY <1>7, EntryFacts
      <3>2. n + 1 \in 1 .. Len(e.docs) /\ n \in Nat
        BY <1>6, <3>1
      <3> QED
        BY <1>7, <1>9, <3>2, GapFacts
    <2>2. Making(lists[word])'
      BY <1>5, <1>6, <1>7, <1>9, <1>11, <2>1, PostingMakes
    <2> QED
      BY <1>3, <1>4, <1>6, <1>8, <2>2, StillAtWork, Zenon DEF Taking
  <1> QED
    BY <1>2, <1>10, <1>11, Zenon DEF Taking

----------------------------------------------------------------------------
(* A term ends; a list operation; the file is rebuilt.                     *)

\* A new list on top, that is right.
LEMMA TopRight ==
  ASSUME QueryType, NEW n \in Nat \ {0}, NEW x, NEW y, NEW g, RightList(x, y, g), y \in SUBSET (1 .. num_of_docs),
         PutAt(stack', stack, n, x), PutAt(means', means, n, y), Below(n - 1),
         stack' \in Seq(Lists), means' \in Seq(SUBSET (1 .. num_of_docs)),
         stack' # <<>>, ops' = ops, group' \ Closed = g,
         group' = Closed \/ (group' \subseteq 1 .. num_of_docs /\ group' # {})
  PROVE  QueryType' /\ AllRight'
  <1>1. Tops' /\ Top' = x /\ Meaning' = y /\ Len(stack') = n /\ Len(means') = n
    BY BelowPut
  <1>2. QueryType'
    BY Zenon DEF QueryType
  <1>3. RightList(Top', Meaning', group' \ Closed)
    BY ONLY <1>1, RightList(x, y, g), group' \ Closed = g, Zenon
  <1>4. RightList(Top, Meaning, group \ Closed)'
    BY ONLY <1>3, Zenon DEF RightList, Increasing, DocNums, Mk
  <1>5. AllRight'
    BY ONLY <1>1, <1>4, stack' # <<>>, Zenon DEF AllRight
  <1> QED
    BY <1>2, <1>5

\* A term is over.
LEMMA Idle ==
  ASSUME BooleanInv, UNCHANGED file, QueryType', AllRight', pc' = "idle", op' = "term", word' = NoWord,
         L' = <<>>, i' = 0, CurrDoc' = 0, next_doc_num' = 0, src' = 0, dest' = 0
  PROVE  BooleanInv'
  <1>1. FileOK'
    BY FileKept, Zenon DEF BooleanInv
  <1>2. IdleOK'
    BY Zenon DEF IdleOK
  <1>3. pc' \in {"idle", "loop", "header", "posting"}
    OBVIOUS
  <1> QED
    BY <1>1, <1>2, <1>3, Zenon DEF BooleanInv, QueryOK

\* When GetDocsOp ends, what is left of the list is in no document of the word.
LEMMA RestOut ==
  ASSUME NEW e \in Entries, e = lists[word], CurrDoc = D(e, i), i \in 0 .. Len(e.docs),
         NEW l0, NEW A, NEW g, NEW dd, NEW keep, ChangedList(l0, A, g, dd, keep), Done
  PROVE  \A n \in (src + 1) .. Len(l0) : l0[n].doc \notin dd
  <1>1. PICK N, P : N = Len(l0) /\ P = Len(e.docs)
    OBVIOUS
  <1>2. dd = DocsOf(word) /\ Before(l0, src, CurrDoc) /\ RightList(l0, A, g)
    BY Zenon DEF ChangedList
  <1>3. N \in Nat /\ \A n \in 1 .. N : l0[n].doc \in Nat
    BY <1>1, <1>2, RightListFacts
  <1>4. Len(L) = N /\ src \in 0 .. N
    BY <1>1, RestSame
  <1>5. i >= P \/ src >= N
    BY <1>1, <1>4 DEF Done, p
  <1>6. CASE src >= N
    BY <1>1, <1>3, <1>4, <1>6
  <1>7. CASE i >= P
    <2>1. P \in Nat
      BY <1>1, EntryFacts
    <2>2. i = P /\ CurrDoc = D(e, P)
      BY <1>1, <1>7, <2>1
    <2>3. \A m \in 1 .. P : D(e, m) <= D(e, P) /\ D(e, m) \in Nat
      <3>1. /\ \A m \in 0 .. P : D(e, m) \in 0 .. num_of_docs
            /\ \A m, n \in 0 .. P : m < n => D(e, m) < D(e, n)
            /\ num_of_docs \in Nat
        BY <1>1, GapFacts
      <3> TAKE m \in 1 .. P
      <3>2. m \in 0 .. P /\ P \in 0 .. P /\ (m = P \/ m < P)
        BY <2>1
      <3>3. m < P => D(e, m) < D(e, P)
        BY <3>1, <3>2
      <3> QED
        BY <3>1, <3>2, <3>3
    <2>4. \A x \in dd : \E m \in 1 .. P : x = D(e, m)
      BY <1>1, <1>2, DocsOfIs
    <2>5. ASSUME NEW n \in (src + 1) .. N PROVE l0[n].doc \notin dd
      <3>1. l0[n].doc > CurrDoc /\ l0[n].doc \in Nat
        BY <1>1, <1>2, <1>3, <1>4, <2>5 DEF Before
      <3> SUFFICES ASSUME l0[n].doc \in dd PROVE FALSE
        OBVIOUS
      <3>2. PICK m \in 1 .. P : l0[n].doc = D(e, m)
        BY <2>4
      <3>3. D(e, m) <= D(e, P) /\ D(e, P) \in Nat
        <4>1. m \in 1 .. P /\ P \in 1 .. P
          BY <2>1
        <4> QED
          BY <2>3, <4>1
      <3> QED
        BY <2>2, <3>1, <3>2, <3>3
    <2> QED
      BY <1>1, <2>5
  <1> QED
    BY <1>5, <1>6, <1>7

\* The list that GetDocsOp returns is right.
FinishRight(e) ==
  \/ /\ op = "term" /\ group = Closed /\ Len(means) = Len(stack) + 1 /\ Below(Len(stack))
     /\ RightList(Result, Meaning, {})
  \/ /\ op # "term" /\ Tops /\ RightList(Result, Meaning, group \ Closed)

\* What a term leaves is right.
LEMMA FinishRightIs ==
  ASSUME QueryType, Taking, Done, NEW e \in Entries, e = lists[word], CurrDoc = D(e, i), i \in 0 .. Len(e.docs)
  PROVE  FinishRight(e)
  <1>1. CASE Changing
    <2>1. PICK l0, A, g, dd, keep : ChangedList(l0, A, g, dd, keep)
      BY <1>1, ChangingIs
    <2>2. /\ l0 = Top /\ dd = DocsOf(word) /\ Tops /\ Before(l0, src, CurrDoc) /\ RightList(l0, A, g)
          /\ AndCase(l0, A, g, dd) \/ DiffCase(l0, A, g, dd, keep) \/ OrCase(l0, A, g, dd)
      BY ONLY <2>1, Zenon DEF ChangedList
    <2>3. \A n \in (src + 1) .. Len(l0) : l0[n].doc \notin dd
      BY <2>1, RestOut
    <2>4. group = Closed => group \ Closed = {}
      OBVIOUS
    <2>5. ASSUME AndCase(l0, A, g, dd) PROVE op # "term" /\ RightList(Result, Meaning, group \ Closed)
      <3>1. /\ op = "and" /\ group = Closed /\ Meaning = A \cap dd /\ RightList(l0, A, {})
            /\ Kept(L, l0, dest, src, dd)
        BY ONLY <2>2, <2>5, Zenon DEF AndCase
      <3>2. RightList(Result, A \cap dd, {})
        BY ONLY <2>3, <3>1, ResultAnd
      <3>3. RightList(Result, Meaning, group \ Closed)
        BY ONLY <2>4, <3>1, <3>2, Zenon
      <3> QED
        BY <3>1, <3>3
    <2>6. ASSUME DiffCase(l0, A, g, dd, keep) PROVE op # "term" /\ RightList(Result, Meaning, group \ Closed)
      <3>1. /\ op = "diff" /\ group = Closed /\ Meaning = A \ dd /\ RightList(l0, A, {})
            /\ Kept(L, l0, dest, src, keep) /\ keep = (1 .. num_of_docs) \ dd
        BY ONLY <2>2, <2>6, Zenon DEF DiffCase
      <3>2. RightList(Result, A \ dd, {})
        BY ONLY <2>3, <3>1, ResultDiff
      <3>3. RightList(Result, Meaning, group \ Closed)
        BY ONLY <2>4, <3>1, <3>2, Zenon
      <3> QED
        BY <3>1, <3>3
    <2>7. ASSUME OrCase(l0, A, g, dd) PROVE op # "term" /\ RightList(Result, Meaning, group \ Closed)
      <3>1. /\ op = "and_or" /\ group = g \cup dd /\ Meaning = A /\ Marked(L, l0, src, dd)
        BY ONLY <2>7, Zenon DEF OrCase
      <3>2. RightList(Result, A, g \cup dd)
        BY ONLY <2>2, <2>3, <3>1, ResultAndOr
      <3>3. group \ Closed = g \cup dd
        <4>1. dd \subseteq 1 .. num_of_docs /\ dd # {}
          BY <2>2, DocsOfIs
        <4>2. 0 \notin 1 .. num_of_docs
          OBVIOUS
        <4>3. group = Closed \/ group \subseteq 1 .. num_of_docs
          BY Zenon DEF QueryType
        <4> QED
          BY ONLY <3>1, <4>1, <4>2, <4>3 DEF Closed
      <3> QED
        BY <3>1, <3>2, <3>3
    <2>8. op # "term" /\ RightList(Result, Meaning, group \ Closed)
      BY ONLY <2>2, <2>5, <2>6, <2>7
    <2> QED
      BY ONLY <2>2, <2>8, Zenon DEF FinishRight
  <1>2. CASE Making(lists[word])
    <2>1. /\ op = "term" /\ group = Closed /\ Len(means) = Len(stack) + 1 /\ Below(Len(stack))
          /\ Meaning = DocsOf(word) /\ L \in Lists /\ Len(L) = i
          /\ \A n \in 1 .. Len(L) : L[n] = [doc |-> D(e, n), or_included |-> FALSE]
      BY <1>2, Zenon DEF Making
    <2>2. i = Len(e.docs)
      <3>1. Len(e.docs) \in Nat
        BY EntryFacts
      <3>2. i >= Len(e.docs)
        BY <2>1 DEF Done, p
      <3> QED
        BY <3>1, <3>2
    <2>3. RightList(Result, DocsOf(word), {})
      BY <2>1, <2>2, ResultTerm
    <2> QED
      BY ONLY <2>1, <2>3, Zenon DEF FinishRight
  <1> QED
    BY <1>1, <1>2, Zenon DEF Taking

\* The list of a term is put on the stack.
LEMMA FinishKeeps ==
  ASSUME BooleanInv, Finish
  PROVE  BooleanInv'
  <1>1. /\ pc = "loop" /\ Done
        /\ stack' = (IF op = "term" THEN Append(stack, Result) ELSE Front(stack) \o <<Result>>)
        /\ pc' = "idle" /\ op' = "term" /\ word' = NoWord /\ L' = <<>> /\ i' = 0 /\ CurrDoc' = 0
        /\ next_doc_num' = 0 /\ src' = 0 /\ dest' = 0 /\ UNCHANGED <<file, ops, means, group>>
    BY DEF Finish
  <1>2. QueryType /\ Underway /\ Taking
    BY <1>1, AtWork
  <1>3. PICK e, c, codes, place : Given(e, ifh, c, codes, place) /\ At(e, c, place)
    BY <1>2, Zenon DEF Underway
  <1>4. e \in Entries /\ e = lists[word] /\ CurrDoc = D(e, i) /\ i \in 0 .. Len(e.docs)
    BY <1>3, Zenon DEF Given, At
  <1>5. FinishRight(e)
    BY <1>1, <1>2, <1>4, FinishRightIs
  <1>6. /\ stack \in Seq(Lists) /\ means \in Seq(SUBSET (1 .. num_of_docs)) /\ ops' = ops /\ means' = means
        /\ group = Closed \/ (group \subseteq 1 .. num_of_docs /\ group # {})
        /\ group' = group
    BY <1>1, <1>2, Zenon DEF QueryType
  <1>7. CASE op = "term"
    <2>1. group = Closed /\ Len(means) = Len(stack) + 1 /\ Below(Len(stack)) /\ RightList(Result, Meaning, {})
      BY ONLY <1>5, <1>7, Zenon DEF FinishRight
    <2>2. PICK n : n = Len(stack) + 1
      OBVIOUS
    <2>3. n \in Nat \ {0} /\ n - 1 = Len(stack) /\ means # <<>>
      BY ONLY <1>6, <2>1, <2>2
    <2>4. Result \in Lists /\ Meaning \in SUBSET (1 .. num_of_docs)
      BY <1>2, <2>1, <2>3, QueryFacts, Zenon DEF RightList
    <2>5. stack' \in Seq(Lists) /\ PutAt(stack', stack, n, Result) /\ stack' # <<>>
      BY <1>1, <1>6, <1>7, <2>2, <2>4, PutNew
    <2>6. PutAt(means', means, n, Meaning)
      BY ONLY <1>6, <2>1, <2>2, Zenon DEF PutAt, Meaning
    <2>7. group' \ Closed = {}
      BY <1>6, <2>1
    <2>8. QueryType' /\ AllRight'
      BY <1>2, <1>6, <2>1, <2>3, <2>4, <2>5, <2>6, <2>7, TopRight
    <2> QED
      BY <1>1, <2>8, Idle
  <1>8. CASE op # "term"
    <2>1. Tops /\ RightList(Result, Meaning, group \ Closed)
      BY ONLY <1>5, <1>8, Zenon DEF FinishRight
    <2>2. PICK n : n = Len(stack)
      OBVIOUS
    <2>3. stack # <<>> /\ Len(means) = n /\ Below(n - 1)
      BY ONLY <2>1, <2>2, Zenon DEF Tops
    <2>4. Result \in Lists /\ Meaning \in SUBSET (1 .. num_of_docs)
      BY <1>2, <2>1, <2>2, <2>3, QueryFacts, Zenon DEF RightList
    <2>5. stack' \in Seq(Lists) /\ PutAt(stack', stack, n, Result) /\ stack' # <<>> /\ n \in Nat \ {0}
      <3>1. stack' = Front(stack) \o <<Result>>
        BY ONLY <1>1, <1>8
      <3>2. PICK x, S : x = Result /\ S = Lists
        OBVIOUS
      <3>3. stack \in Seq(S) /\ x \in S /\ stack' = Front(stack) \o <<x>>
        BY ONLY <1>6, <2>4, <3>1, <3>2
      <3>4. stack' \in Seq(S) /\ PutAt(stack', stack, n, x) /\ stack' # <<>> /\ n \in Nat \ {0}
        BY ONLY <2>2, <2>3, <3>3, PutTop, ZenonT(60)
      <3> QED
        BY ONLY <3>2, <3>4
    <2>6. PutAt(means', means, n, Meaning)
      BY ONLY <1>6, <2>2, <2>3, Zenon DEF PutAt, Meaning
    <2>7. group' \ Closed = group \ Closed
      BY <1>6
    <2>8. QueryType' /\ AllRight'
      BY <1>2, <1>6, <2>1, <2>3, <2>4, <2>5, <2>6, <2>7, TopRight
    <2> QED
      BY <1>1, <2>8, Idle
  <1> QED
    BY <1>7, <1>8

\* A step of the query between terms.
LEMMA IdleStep ==
  ASSUME BooleanInv, pc = "idle", UNCHANGED <<file, pc, get>>, QueryType', AllRight'
  PROVE  BooleanInv'
  <1>1. IdleOK
    BY Zenon DEF BooleanInv, QueryOK
  <1>2. /\ word = NoWord /\ op = "term" /\ i = 0 /\ CurrDoc = 0 /\ next_doc_num = 0
        /\ src = 0 /\ dest = 0 /\ L = <<>>
    BY <1>1, Zenon DEF IdleOK
  <1>3. /\ pc' = "idle" /\ word' = NoWord /\ op' = "term" /\ i' = 0 /\ CurrDoc' = 0 /\ next_doc_num' = 0
        /\ src' = 0 /\ dest' = 0 /\ L' = <<>>
    BY <1>2 DEF get
  <1> QED
    BY <1>3, Idle

\* reduce_list leaves the documents that an OR has marked.
LEMMA ReduceKeeps ==
  ASSUME BooleanInv, ReduceList
  PROVE  BooleanInv'
  <1>1. /\ pc = "idle" /\ group # Closed /\ stack' = Front(stack) \o <<Reduced(Top)>>
        /\ means' = Front(means) \o <<Meaning \cap group>> /\ group' = Closed
        /\ UNCHANGED <<file, ops, pc, get>>
    BY DEF ReduceList
  <1>2. QueryOK
    BY Zenon DEF BooleanInv
  <1>3. AllRight /\ QueryType /\ (stack # <<>> => Tops /\ RightList(Top, Meaning, group \ Closed))
    BY <1>1, <1>2, IdleFacts
  <1>4. stack # <<>> /\ Tops /\ RightList(Top, Meaning, group \ Closed)
    BY <1>1, <1>3, Zenon DEF AllRight
  <1>5. stack \in Seq(Lists) /\ means \in Seq(SUBSET (1 .. num_of_docs)) /\ group \subseteq 1 .. num_of_docs
    BY <1>1, <1>3, Zenon DEF QueryType
  <1>6. group \ Closed = group
    <2>1. 0 \notin 1 .. num_of_docs
      OBVIOUS
    <2> QED
      BY <1>5, <2>1 DEF Closed
  <1>7. PICK n, x, y : n = Len(stack) /\ x = Reduced(Top) /\ y = Meaning \cap group
    OBVIOUS
  <1>8. RightList(x, y, {})
    BY <1>4, <1>6, <1>7, ReducedIs
  <1>9. Len(means) = n /\ Below(n - 1) /\ means # <<>>
    BY <1>3, <1>4, <1>7, QueryFacts, Zenon DEF Tops
  <1>10. x \in Lists /\ y \in SUBSET (1 .. num_of_docs)
    BY <1>5, <1>7, <1>8, Zenon DEF RightList
  <1>11. stack' \in Seq(Lists) /\ PutAt(stack', stack, n, x) /\ stack' # <<>> /\ n \in Nat \ {0}
    BY <1>1, <1>4, <1>5, <1>7, <1>10, PutTop, ZenonT(60)
  <1>12. means' \in Seq(SUBSET (1 .. num_of_docs)) /\ PutAt(means', means, n, y)
    <2>1. means' = Front(means) \o <<y>>
      BY ONLY <1>1, <1>7
    <2>2. PICK S : S = SUBSET (1 .. num_of_docs)
      OBVIOUS
    <2>3. means \in Seq(S) /\ y \in S
      BY ONLY <1>5, <1>10, <2>2
    <2>4. means' \in Seq(S) /\ PutAt(means', means, n, y)
      BY ONLY <1>9, <2>1, <2>3, PutTop
    <2> QED
      BY ONLY <2>2, <2>4
  <1>13. QueryType' /\ AllRight'
    BY <1>1, <1>3, <1>8, <1>9, <1>10, <1>11, <1>12, TopRight
  <1> QED
    BY <1>1, <1>13, IdleStep

\* Two lists become one.
LEMMA JoinKeeps ==
  ASSUME BooleanInv, Join
  PROVE  BooleanInv'
  <1>1. PICK n : n = Len(stack)
    OBVIOUS
  <1>2. /\ pc = "idle" /\ group = Closed /\ n >= 2 /\ UNCHANGED <<file, ops, group, pc, get>>
    BY <1>1 DEF Join
  <1>3. QueryOK
    BY Zenon DEF BooleanInv
  <1>4. AllRight /\ QueryType /\ (stack # <<>> => Tops /\ RightList(Top, Meaning, group \ Closed))
    BY <1>2, <1>3, IdleFacts
  <1>5. stack \in Seq(Lists) /\ means \in Seq(SUBSET (1 .. num_of_docs)) /\ Len(means) = n
    BY <1>1, <1>4, Zenon DEF QueryType, AllRight
  <1>6. n \in Nat /\ stack # <<>>
    BY <1>1, <1>2, <1>5
  <1>7. PICK j, l1, l2, A, B : j = n - 1 /\ l1 = stack[j] /\ l2 = Top /\ A = means[j] /\ B = Meaning
    OBVIOUS
  <1>8. j \in 1 .. n /\ j \in 1 .. Len(stack) /\ j \in 1 .. Len(means) /\ j \in Nat \ {0} /\ j - 1 = n - 2
        /\ j \in 1 .. (n - 1)
    BY <1>1, <1>2, <1>5, <1>6, <1>7
  <1>9. RightList(l1, A, {}) /\ RightList(l2, B, {})
    <2>1. Below(n - 1) /\ RightList(Top, Meaning, {})
      <3>1. group \ Closed = {}
        BY <1>2
      <3> QED
        BY <1>1, <1>4, <1>6, <3>1, Zenon DEF Tops
    <2> QED
      BY <1>7, <1>8, <2>1, Zenon DEF Below
  <1>10. Below(j - 1)
    <2>1. Below(n - 1)
      BY <1>1, <1>4, <1>6, Zenon DEF Tops
    <2>2. \A m \in 1 .. (j - 1) : m \in 1 .. (n - 1)
      BY <1>6, <1>7
    <2> QED
      BY <2>1, <2>2, Zenon DEF Below
  <1>11. A \in SUBSET (1 .. num_of_docs)
    BY <1>5, <1>7, <1>8
  <1>12. PICK x, y : /\ stack' = SubSeq(stack, 1, n - 2) \o <<x>> /\ means' = SubSeq(means, 1, n - 2) \o <<y>>
                     /\ \/ x = IntersectLists(l1, l2) /\ y = A \cap B
                        \/ x = DiffLists(l1, l2) /\ y = A \ B
                        \/ x = MergeLists(l1, l2) /\ y = A \cup B
    BY <1>1, <1>7, Zenon DEF Join
  <1>13. RightList(x, y, {})
    <2>1. RightList(IntersectLists(l1, l2), A \cap B, {})
      BY <1>9, IntersectRight
    <2>2. RightList(DiffLists(l1, l2), A \ B, {})
      BY <1>9, DiffRight
    <2>3. RightList(MergeLists(l1, l2), A \cup B, {})
      BY <1>9, MergeRight
    <2> QED
      BY ONLY <1>12, <2>1, <2>2, <2>3, Zenon
  <1>14. x \in Lists /\ y \in SUBSET (1 .. num_of_docs)
    <2>1. x \in Lists
      BY <1>13, Zenon DEF RightList
    <2>2. y \subseteq 1 .. num_of_docs
      BY <1>13, RightListFacts
    <2> QED
      BY <2>1, <2>2
  <1>15. stack' \in Seq(Lists) /\ PutAt(stack', stack, j, x) /\ stack' # <<>>
    <2>1. stack' = SubSeq(stack, 1, j - 1) \o <<x>>
      BY <1>8, <1>12
    <2> QED
      BY ONLY <1>5, <1>8, <1>14, <2>1, PutOver
  <1>16. means' \in Seq(SUBSET (1 .. num_of_docs)) /\ PutAt(means', means, j, y)
    <2>1. means' = SubSeq(means, 1, j - 1) \o <<y>>
      BY <1>8, <1>12
    <2>2. PICK S : S = SUBSET (1 .. num_of_docs)
      OBVIOUS
    <2>3. means \in Seq(S) /\ y \in S
      BY ONLY <1>5, <1>14, <2>2
    <2>4. means' \in Seq(S) /\ PutAt(means', means, j, y)
      BY ONLY <1>8, <2>1, <2>3, PutOver
    <2> QED
      BY ONLY <2>2, <2>4
  <1>17. ops' = ops /\ group' = Closed /\ group' \ Closed = {}
    BY <1>2
  <1>18. QueryType' /\ AllRight'
    BY ONLY <1>4, <1>8, <1>10, <1>13, <1>14, <1>15, <1>16, <1>17, TopRight
  <1> QED
    BY <1>2, <1>18, IdleStep

\* Between queries.
LEMMA FileStep ==
  ASSUME BooleanInv, UNCHANGED <<query, pc, get>>, pc = "idle", FileOK'
  PROVE  BooleanInv'
  <1>1. IdleOK /\ QueryType
    BY Zenon DEF BooleanInv, QueryOK
  <1>2. ops' = ops /\ stack' = stack /\ means' = means /\ group' = group /\ pc' = pc
    BY DEF query
  <1>3. QueryType'
    BY ONLY <1>1, <1>2, Zenon DEF QueryType
  <1>4. Top' = Top /\ Meaning' = Meaning
    BY ONLY <1>2, Zenon DEF Top, Meaning
  <1>5. Tops => Tops'
    BY ONLY <1>2, ZenonT(60) DEF Tops, Below, RightList, Increasing, DocNums, Mk
  <1>6. RightList(Top, Meaning, group \ Closed) => RightList(Top, Meaning, group \ Closed)'
    BY ONLY <1>2, <1>4, Zenon DEF RightList, Increasing, DocNums, Mk
  <1>7. AllRight'
    BY ONLY <1>1, <1>2, <1>5, <1>6, Zenon DEF IdleOK, AllRight
  <1>8. IdleOK'
    BY ONLY <1>1, <1>7, UNCHANGED <<query, pc, get>>, Zenon DEF IdleOK, get
  <1> QED
    BY <1>2, <1>3, <1>8, Zenon DEF BooleanInv, QueryOK

\* mg_invf_rebuild lays every entry out again.
LEMMA RebuildStep ==
  ASSUME HasCounts, BooleanInv, NEW h \in Skips, NEW junk, Rebuild(h, junk)
  PROVE  BooleanInv'
  <1>1. FileOK
    BY Zenon DEF BooleanInv
  <1>2. FileOK' /\ pc' = pc
    BY <1>1, RebuildLays
  <1>3. pc = "idle" /\ UNCHANGED <<query, get>>
    BY DEF Rebuild
  <1> QED
    BY <1>2, <1>3, FileStep

\* The .ORG files are deleted.
LEMMA DeleteStep ==
  ASSUME BooleanInv, DeleteOrg
  PROVE  BooleanInv'
  <1>1. pc = "idle" /\ UNCHANGED <<query, pc, get>> /\ org' = NoFile
        /\ UNCHANGED <<level, lists, ifh, invf, rebuilds>>
    BY DEF DeleteOrg
  <1>2. FileOK
    BY Zenon DEF BooleanInv
  <1>3. FileOK'
    BY ONLY <1>1, <1>2, Zenon DEF FileOK, FileLaid
  <1> QED
    BY <1>1, <1>3, FileStep

----------------------------------------------------------------------------
(* The theorems.                                                           *)

\* Before the first query.
LEMMA InitInv ==
  ASSUME Init
  PROVE  BooleanInv
  <1>1. FileOK
    BY FileInit
  <1>2. /\ ops = 0 /\ stack = <<>> /\ means = <<>> /\ group = Closed /\ pc = "idle" /\ op = "term"
        /\ word = NoWord /\ L = <<>> /\ i = 0 /\ CurrDoc = 0 /\ next_doc_num = 0 /\ src = 0 /\ dest = 0
    BY DEF Init
  <1>3. ops \in 0 .. MaxOps
    BY <1>2, LevelType
  <1>4. stack \in Seq(Lists) /\ means \in Seq(SUBSET (1 .. num_of_docs)) /\ Len(stack) = Len(means)
    BY ONLY <1>2
  <1>5. QueryType
    BY ONLY <1>2, <1>3, <1>4, Zenon DEF QueryType
  <1>6. IdleOK
    BY ONLY <1>2, <1>4, Zenon DEF IdleOK, AllRight
  <1> QED
    BY ONLY <1>1, <1>2, <1>5, <1>6, Zenon DEF BooleanInv, QueryOK

\* A stutter.
LEMMA StutterKeeps ==
  ASSUME BooleanInv, UNCHANGED vars
  PROVE  BooleanInv'
  <1>1. UNCHANGED <<file, query, pc, get>>
    BY DEF vars
  <1>2. CASE pc = "idle"
    <2>1. FileOK'
      BY <1>1, FileKept, Zenon DEF BooleanInv
    <2> QED
      BY <1>1, <1>2, <2>1, FileStep
  <1>3. CASE pc # "idle"
    <2>1. QueryType /\ Underway /\ Taking
      BY <1>3, AtWork
    <2>2. PICK e, c, codes, place : Given(e, ifh, c, codes, place) /\ At(e, c, place)
      BY <2>1, Zenon DEF Underway
    <2>3. /\ pc' = pc /\ i' = i /\ pos' = pos /\ next_start' = next_start /\ next_doc_num' = next_doc_num
          /\ next_i' = next_i /\ block_counter' = block_counter /\ CurrDoc' = CurrDoc
          /\ op' = op /\ word' = word /\ L' = L /\ src' = src /\ dest' = dest
      BY <1>1 DEF get
    <2>4. Boundary(c.k)' = Boundary(c.k)
      BY ONLY <2>3, Zenon DEF Boundary
    <2>5. At(e, c, place)'
      BY ONLY <2>2, <2>3, <2>4, Zenon DEF At
    <2>6. QueryType'
      BY <1>1, <2>1, <2>3, QuerySame
    <2>7. Taking'
      BY <1>1, <2>1, <2>3, TakingSame
    <2> QED
      BY <1>1, <2>2, <2>3, <2>5, <2>6, <2>7, StillAtWork
  <1> QED
    BY <1>2, <1>3

\* The invariant is inductive.
LEMMA StepKeeps ==
  ASSUME HasCounts, BooleanInv, [Next]_vars
  PROVE  BooleanInv'
  <1>1. ASSUME NEW h \in Skips, NEW junk \in Junk, Rebuild(h, junk) PROVE BooleanInv'
    BY <1>1, RebuildStep
  <1>2. CASE DeleteOrg
    BY <1>2, DeleteStep
  <1>3. ASSUME NEW w \in Words, Term(w) \/ AndTerm(w) \/ OrTerm(w) \/ DiffTerm(w) PROVE BooleanInv'
    BY <1>3, TermStarts, AndTermStarts, OrTermStarts, DiffTermStarts
  <1>4. CASE Hop
    BY <1>4, HopKeeps
  <1>5. CASE Header
    BY <1>5, HeaderKeeps
  <1>6. CASE Posting
    BY <1>6, PostingKeeps
  <1>7. CASE Finish
    BY <1>7, FinishKeeps
  <1>8. CASE ReduceList
    BY <1>8, ReduceKeeps
  <1>9. CASE Join
    BY <1>9, JoinKeeps
  <1>10. CASE UNCHANGED vars
    BY <1>10, StutterKeeps
  <1> QED
    BY <1>1, <1>2, <1>3, <1>4, <1>5, <1>6, <1>7, <1>8, <1>9, <1>10, Zenon DEF Next

\* The invariant holds in every run.
LEMMA InvHolds == ASSUME HasCounts PROVE Spec => []BooleanInv
  <1>1. Init => BooleanInv
    BY InitInv
  <1>2. BooleanInv /\ [Next]_vars => BooleanInv'
    BY StepKeeps
  <1> QED
    BY <1>1, <1>2, PTL DEF Spec

\* GetDocsOp finds every code where it looks for one, and mg_invf_rebuild never
\* stops.
THEOREM CodesFound == ASSUME HasCounts PROVE Spec => []NeverLost
  <1>1. BooleanInv => NeverLost
    BY DEF BooleanInv, QueryOK, NeverLost
  <1> QED
    BY <1>1, InvHolds, PTL

\* A rebuild keeps the postings.
THEOREM PostingsKept == ASSUME HasCounts PROVE Spec => []RebuildKeeps
  <1>1. BooleanInv => RebuildKeeps
    BY RebuildKept, Zenon DEF BooleanInv
  <1> QED
    BY <1>1, InvHolds, PTL

\* The lists are right by the invariant.
LEMMA InvListsRight ==
  ASSUME BooleanInv
  PROVE  ListsRight
  <1> SUFFICES ASSUME pc = "idle", NEW n \in DOMAIN stack
               PROVE  /\ Increasing(stack[n]) /\ DocNums(stack[n]) = means[n]
                      /\ \A e \in ToSet(stack[n]) :
                           e.or_included = (n = Len(stack) /\ e.doc \in group)
    BY DEF ListsRight
  <1>1. QueryOK
    BY Zenon DEF BooleanInv
  <1>2. AllRight /\ QueryType /\ (stack # <<>> => Tops /\ RightList(Top, Meaning, group \ Closed))
    BY <1>1, IdleFacts
  <1>3. stack \in Seq(Lists) /\ Len(means) = Len(stack)
    BY <1>2, Zenon DEF QueryType, AllRight
  <1>4. n \in 1 .. Len(stack) /\ stack # <<>> /\ Len(stack) \in Nat
    BY <1>3
  <1>5. PICK last \in BOOLEAN : last <=> n = Len(stack)
    OBVIOUS
  <1>6. PICK g, list : g = (IF last THEN group \ Closed ELSE {}) /\ list = stack[n]
    OBVIOUS
  <1>7. RightList(list, means[n], g)
    <2>1. CASE last
      BY <1>2, <1>3, <1>4, <1>5, <1>6, <2>1, Zenon DEF Top, Meaning
    <2>2. CASE ~last
      <3>1. n \in 1 .. (Len(stack) - 1)
        BY <1>4, <1>5, <2>2
      <3> QED
        BY <1>2, <1>4, <1>6, <2>2, <3>1, Zenon DEF Tops, Below
    <2> QED
      BY <2>1, <2>2
  <1>8. Increasing(list) /\ DocNums(list) = means[n] /\ list \in Lists
    BY <1>7, Zenon DEF RightList
  <1>9. ASSUME NEW e \in ToSet(list) PROVE e.or_included = (n = Len(stack) /\ e.doc \in group)
    <2>1. PICK m \in 1 .. Len(list) : e = list[m]
      BY <1>7, RightListFacts DEF ToSet
    <2>2. e \in ListItem /\ e.doc \in 1 .. num_of_docs /\ (Mk(e) <=> e.doc \in g)
      BY <1>7, <2>1, RightListFacts
    <2>3. (e.or_included <=> Mk(e)) /\ e.or_included \in BOOLEAN
      BY <2>2, MkIs
    <2>4. e.doc \notin Closed
      <3>1. e.doc # 0
        BY <2>2
      <3> QED
        BY <3>1 DEF Closed
    <2>5. e.doc \in g <=> last /\ e.doc \in group
      BY <1>6, <2>4
    <2>6. e.or_included <=> (n = Len(stack) /\ e.doc \in group)
      BY ONLY <1>5, <2>2, <2>3, <2>5, Zenon
    <2> QED
      BY ONLY <2>3, <2>6, Zenon
  <1> QED
    BY <1>6, <1>8, <1>9

\* The lists of a query hold what they stand for, with and without skips.
THEOREM QueriesRight == ASSUME HasCounts PROVE Spec => []ListsRight
  <1>1. BooleanInv => ListsRight
    BY InvListsRight
  <1> QED
    BY <1>1, InvHolds, PTL

\* The types follow from the invariant.
LEMMA InvTypeOK ==
  ASSUME BooleanInv
  PROVE  TypeOK
  <1>1. QueryOK /\ FileOK
    BY Zenon DEF BooleanInv
  <1>2. level \in Levels /\ lists \in [Words -> Entries] /\ rebuilds \in 0 .. MaxRebuilds
    BY <1>1, Zenon DEF FileOK
  <1>3. QueryType /\ ops \in 0 .. MaxOps /\ pc \in {"idle", "loop", "header", "posting"}
    BY <1>1, Zenon DEF QueryOK, QueryType
  <1>4. Len(stack) \in Nat /\ Len(means) \in Nat /\ num_of_docs \in Nat
    BY <1>3, QueryFacts
  <1>5. CASE pc = "idle"
    <2>1. /\ word = NoWord /\ i = 0 /\ CurrDoc = 0 /\ next_doc_num = 0 /\ src = 0 /\ dest = 0 /\ L = <<>>
          /\ Len(means) = Len(stack)
      BY <1>1, <1>5, Zenon DEF QueryOK, IdleOK, AllRight
    <2>2. word \notin Words
      BY <2>1, BooleanAssumption DEF NoWord
    <2>3. /\ CurrDoc \in 0 .. num_of_docs /\ next_doc_num \in -1 .. num_of_docs
          /\ dest \in 0 .. src /\ src \in 0 .. Len(L)
      BY <1>4, <2>1
    <2>4. /\ pc \in {"idle", "loop", "header", "posting", "lost", "stopped"}
          /\ pc \notin {"loop", "header", "posting", "lost"}
          /\ Len(means) \in {Len(stack), Len(stack) + 1}
      BY <1>5, <2>1
    <2> QED
      BY ONLY <1>2, <1>3, <2>2, <2>3, <2>4, Zenon DEF TypeOK
  <1>6. CASE pc # "idle"
    <2>1. Underway /\ Taking
      BY <1>1, <1>6, AtWork
    <2>2. PICK e, c, codes, place : Given(e, ifh, c, codes, place) /\ At(e, c, place)
      BY <2>1, Zenon DEF Underway
    <2>3. word \in Words /\ e = lists[word] /\ c = Blks(word) /\ e \in Entries
      BY <2>2, Zenon DEF Given
    <2>4. PICK k, P : k = c.k /\ P = Len(e.docs)
      OBVIOUS
    <2>5. /\ k \in Nat /\ p(word) = P /\ P \in Nat \ {0}
          /\ \A j \in 0 .. P : D(e, j) \in 0 .. num_of_docs
      BY <2>2, <2>4, GivenFacts
    <2>6. PICK b : b = Boundary(k)
      OBVIOUS
    <2>7. /\ i \in 0 .. P /\ CurrDoc = D(e, i)
          /\ block_counter = (IF k = 0 THEN -1 ELSE k - 1 - (i % k))
          /\ (k = 0 => next_doc_num = 0)
          /\ (k > 0 /\ b < P => next_doc_num = D(e, b))
          /\ (k > 0 /\ ~(b < P) => next_doc_num = -1)
      BY ONLY <2>2, <2>4, <2>6, Zenon DEF At
    <2>8. block_counter \in -1 .. (k - 1)
      <3>1. CASE k = 0
        BY <2>7, <3>1
      <3>2. CASE k # 0
        <4>1. i % k \in 0 .. (k - 1)
          BY <2>5, <2>7, <3>2
        <4> QED
          BY <2>5, <2>7, <3>2, <4>1
      <3> QED
        BY <3>1, <3>2
    <2>9. CurrDoc \in 0 .. num_of_docs /\ next_doc_num \in -1 .. num_of_docs
      <3>1. k > 0 => b \in Nat
        <4>1. k > 0 => k \in Nat \ {0} /\ i \in Nat
          BY <2>5, <2>7
        <4> QED
          BY <2>6, <4>1, BoundaryIs
      <3>2. k > 0 /\ b < P => b \in 0 .. P
        BY <2>5, <3>1
      <3>3. CurrDoc \in 0 .. num_of_docs
        BY <2>5, <2>7
      <3>4. k = 0 \/ k > 0
        BY <2>5
      <3> QED
        BY <1>4, <2>5, <2>7, <3>2, <3>3, <3>4
    <2>10. /\ dest \in 0 .. src /\ src \in 0 .. Len(L)
           /\ Len(means) \in {Len(stack), Len(stack) + 1}
      <3>1. CASE Changing
        <4>1. PICK l0, A, g, dd, keep : ChangedList(l0, A, g, dd, keep)
          BY <3>1, ChangingIs
        <4>2. dest \in 0 .. src /\ src \in 0 .. Len(L)
          BY <4>1, RestSame
        <4>3. Len(means) = Len(stack)
          BY <3>1, Zenon DEF Changing, Tops
        <4> QED
          BY <4>2, <4>3
      <3>2. CASE Making(lists[word])
        <4>1. src = 0 /\ dest = 0 /\ Len(L) = i /\ Len(means) = Len(stack) + 1
          BY <3>2, Zenon DEF Making
        <4> QED
          BY <2>5, <2>7, <4>1
      <3> QED
        BY <2>1, <3>1, <3>2, Zenon DEF Taking
    <2>11. pc \in {"idle", "loop", "header", "posting", "lost", "stopped"}
           /\ pc \in {"loop", "header", "posting", "lost"}
      BY <1>3, <1>6
    <2>12. i \in 0 .. p(word) /\ block_counter \in -1 .. (Blks(word).k - 1)
      BY <2>3, <2>4, <2>5, <2>7, <2>8
    <2> QED
      BY ONLY <1>2, <1>3, <2>3, <2>9, <2>10, <2>11, <2>12, Zenon DEF TypeOK
  <1> QED
    BY <1>5, <1>6

\* Type correctness of queries and of the file they read.
THEOREM TypeCorrect == ASSUME HasCounts PROVE Spec => []TypeOK
  <1>1. BooleanInv => TypeOK
    BY InvTypeOK
  <1> QED
    BY <1>1, InvHolds, PTL

\* A step to a header is a jump over a block.
HoppedAhead ==
  pc' = "header" =>
    /\ i' >= i /\ i' % Blks(word).k = 0
    /\ i' = i => pc = "loop" /\ pos' = pos
    /\ \A j \in (i + 1)..i' : lists[word].docs[j] < L[src + 1].doc

\* Nothing else makes the decoder read a header next.
LEMMA OnlyHop ==
  ASSUME QueryOK, Next, pc' = "header"
  PROVE  Hop
  <1>1. \A h \in Skips, junk \in Junk : ~Rebuild(h, junk)
    BY DEF Rebuild
  <1>2. ~DeleteOrg /\ ~ReduceList /\ ~Join /\ ~Finish /\ ~Header /\ ~Posting
    <2>1. ~DeleteOrg
      BY DEF DeleteOrg
    <2>2. ~ReduceList
      BY DEF ReduceList
    <2>3. ~Join
      BY DEF Join
    <2>4. ~Finish
      BY DEF Finish
    <2>5. ~Header
      BY DEF Header
    <2>6. ~Posting
      BY DEF Posting
    <2> QED
      BY <2>1, <2>2, <2>3, <2>4, <2>5, <2>6
  <1>3. \A w \in Words : ~Term(w) /\ ~AndTerm(w) /\ ~OrTerm(w) /\ ~DiffTerm(w)
    BY DEF Term, AndTerm, OrTerm, DiffTerm, GetDocsOp
  <1> QED
    BY <1>1, <1>2, <1>3, Zenon DEF Next

\* GetDocsOp is in the middle of a round: there are candidates left.
Inside == pc \in {"header", "posting"} /\ op # "term" => ~(src >= Len(L))

\* A round begins with a candidate left; nothing takes it away before the jump.
LEMMA InsideKept ==
  ASSUME Inside, [Next]_vars
  PROVE  Inside'
  <1> SUFFICES ASSUME pc' \in {"header", "posting"}, op' # "term" PROVE ~(src' >= Len(L'))
    BY DEF Inside
  <1>1. ASSUME Hop PROVE ~(src' >= Len(L'))
    <2>1. op' = op /\ src' = src /\ L' = L /\ ((pc = "loop" /\ ~Done) \/ pc = "posting")
      BY <1>1 DEF Hop
    <2> QED
      BY <2>1 DEF Inside, Done
  <1>2. ASSUME Header PROVE ~(src' >= Len(L'))
    <2>1. op' = op /\ src' = src /\ L' = L /\ ((pc = "loop" /\ ~Done) \/ pc = "header")
      BY <1>2 DEF Header
    <2> QED
      BY <2>1 DEF Inside, Done
  <1>3. ASSUME pc' = pc, L' = L, src' = src, op' = op PROVE ~(src' >= Len(L'))
    BY <1>3 DEF Inside
  <1>4. \A h \in Skips, junk \in Junk : Rebuild(h, junk) => pc' = pc /\ L' = L /\ src' = src /\ op' = op
    <2> SUFFICES ASSUME NEW h, NEW junk, Rebuild(h, junk) PROVE pc' = pc /\ L' = L /\ src' = src /\ op' = op
      OBVIOUS
    <2>1. pc' = pc \/ pc' = "stopped"
      BY DEF Rebuild
    <2>2. L' = L /\ src' = src /\ op' = op
      BY DEF Rebuild, get
    <2> QED
      BY <2>1, <2>2
  <1>5. DeleteOrg \/ ReduceList \/ Join => pc' = pc /\ L' = L /\ src' = src /\ op' = op
    <2>1. DeleteOrg => pc' = pc /\ UNCHANGED get
      BY DEF DeleteOrg
    <2>2. ReduceList => pc' = pc /\ UNCHANGED get
      BY DEF ReduceList
    <2>3. Join => pc' = pc /\ UNCHANGED get
      BY DEF Join
    <2> QED
      BY <2>1, <2>2, <2>3 DEF get
  <1>6. ~Finish /\ ~Posting
    <2>1. ~Finish
      BY DEF Finish
    <2>2. ~Posting
      BY DEF Posting
    <2> QED
      BY <2>1, <2>2
  <1>7. \A w \in Words : ~Term(w) /\ ~AndTerm(w) /\ ~OrTerm(w) /\ ~DiffTerm(w)
    BY DEF Term, AndTerm, OrTerm, DiffTerm, GetDocsOp
  <1>8. UNCHANGED vars => pc' = pc /\ L' = L /\ src' = src /\ op' = op
    BY DEF vars, get
  <1> QED
    BY <1>1, <1>2, <1>3, <1>4, <1>5, <1>6, <1>7, <1>8, Zenon DEF Next

\* So it is in every run.
LEMMA InsideHolds == Spec => []Inside
  <1>1. Init => Inside
    BY DEF Init, Inside
  <1> QED
    BY <1>1, InsideKept, PTL DEF Spec

\* A jump goes ahead.
LEMMA HopGoesAhead ==
  ASSUME BooleanInv, Inside, Hop
  PROVE  HoppedAhead
  <1>1. pc # "idle"
    BY DEF Hop
  <1>2. Underway
    BY <1>1, AtWork
  <1>3. PICK e, c, codes, place : Given(e, ifh, c, codes, place) /\ At(e, c, place)
    BY <1>2, Zenon DEF Underway
  <1>4. Ahead(e, c.k)
    BY <1>3, HopAt
  <1>5. e = lists[word] /\ c = Blks(word) /\ e \in Entries
    BY <1>3, Zenon DEF Given
  <1>6. PICK a, b, x, P : a = i /\ b = i' /\ x = L[src + 1].doc /\ P = Len(e.docs)
    OBVIOUS
  <1>7. b \in a .. P /\ b % c.k = 0 /\ (b = a => pc = "loop" /\ pos' = pos) /\ x > D(e, b)
    BY ONLY <1>4, <1>6, Zenon DEF Ahead
  <1>8. a \in 0 .. P
    BY ONLY <1>3, <1>6, Zenon DEF At
  <1>9. /\ P \in Nat /\ num_of_docs \in Nat
        /\ \A j \in 0 .. P : D(e, j) \in 0 .. num_of_docs
        /\ \A m, n \in 0 .. P : m < n => D(e, m) < D(e, n)
    BY <1>3, <1>6, GivenFacts
  <1>10. b >= a /\ b \in 0 .. P
    BY <1>7, <1>8, <1>9
  <1>12. x \in Nat
    <2>1. op # "term" /\ ((pc = "loop" /\ ~Done) \/ pc = "posting")
      BY DEF Hop, MaySkip
    <2>2. ~(src >= Len(L))
      BY <2>1 DEF Inside, Done
    <2>3. Changing
      BY <1>1, <2>1, AtWork, Zenon DEF Taking, Making
    <2>4. PICK l0, A, g, dd, keep : ChangedList(l0, A, g, dd, keep)
      BY <2>3, ChangingIs
    <2>5. L \in Lists /\ Len(L) = Len(l0) /\ src \in 0 .. Len(l0)
      BY <2>4, RestSame
    <2>6. /\ Len(L) \in Nat
          /\ \A n \in 1 .. Len(L) : L[n].doc \in Nat
      BY <2>5, ListType
    <2>7. src + 1 \in 1 .. Len(L)
      BY <2>2, <2>5, <2>6
    <2> QED
      BY <1>6, <2>6, <2>7
  <1>11. ASSUME NEW j \in (a + 1) .. b PROVE lists[word].docs[j] < x
    <2>1. j \in 0 .. P /\ j # 0 /\ (j = b \/ j < b)
      BY <1>7, <1>8, <1>9, <1>11
    <2>2. lists[word].docs[j] = D(e, j)
      BY <1>5, <2>1 DEF D
    <2>3. D(e, j) \in Nat /\ D(e, b) \in Nat /\ (j < b => D(e, j) < D(e, b))
      BY <1>9, <1>10, <2>1
    <2>4. D(e, j) <= D(e, b)
      <3>1. CASE j = b
        BY <2>3, <3>1
      <3>2. CASE j < b
        BY <2>3, <3>2
      <3> QED
        BY <2>1, <3>1, <3>2
    <2>5. D(e, j) < x
      BY <1>7, <1>12, <2>3, <2>4
    <2> QED
      BY <2>2, <2>5
  <1> QED
    BY ONLY <1>5, <1>6, <1>7, <1>10, <1>11, Zenon DEF HoppedAhead

\* A jump never goes back, nor past a document that the list may hold.
THEOREM JumpsAhead == ASSUME HasCounts PROVE Spec => HopsAhead
  <1>1. BooleanInv /\ Inside /\ [Next]_vars => [HoppedAhead]_vars
    BY OnlyHop, HopGoesAhead, Zenon DEF BooleanInv, HoppedAhead
  <1>2. Spec => [][HoppedAhead]_vars
    BY <1>1, InvHolds, InsideHolds, PTL DEF Spec
  <1>3. HopsAhead <=> [][HoppedAhead]_vars
    BY PTL DEF HopsAhead, HoppedAhead
  <1> QED
    BY <1>2, <1>3, PTL
============================================================================
