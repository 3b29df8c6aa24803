------------------------ MODULE ArithmeticTheorems ------------------------
(***************************************************************************)
(* What the other proofs need of numbers.                                  *)
(*                                                                         *)
(* First the codes of BlockCode, for every operand below 1 << 30: the      *)
(* logarithms are what their loops compute, the code parameters stay in    *)
(* range, a Bblock code word is never longer than its share of the bound   *)
(* that space is reserved by, and codes decode to what was coded.          *)
(*                                                                         *)
(* Then induction over the naturals and over finite sets, stated for sets  *)
(* instead of predicates, and what SumFunctionOnSet computes.              *)
(***************************************************************************)
EXTENDS BlockCode, Functions, WellFoundedInduction, FiniteSetTheorems, TLAPS

Operand == 1..Shl(MaxLog)

----------------------------------------------------------------------------
(* Shifts and logarithms.                                                  *)

LEMMA ShlType == \A k \in 0..MaxLog : Shl(k) \in Nat \ {0}
  BY SMTT(60) DEF MaxLog, Shl, Pow2

LEMMA ShlDouble == \A k \in 0..(MaxLog - 1) : Shl(k + 1) = 2 * Shl(k)
  BY SMTT(60) DEF MaxLog, Shl, Pow2

LEMMA ShlMono == \A j, k \in 0..MaxLog : j < k => Shl(j) < Shl(k)
  BY SMTT(60) DEF MaxLog, Shl, Pow2

LEMMA OperandType == Operand \subseteq Nat \ {0}
  BY ShlType DEF Operand, MaxLog

\* Every operand has a ceiling logarithm ...
LEMMA CeilLogExists ==
  ASSUME NEW x \in Operand
  PROVE  \E k \in 0..MaxLog : x <= Shl(k) /\ \A j \in 0..(k - 1) : Shl(j) < x
  BY SMTT(60) DEF Operand, MaxLog, Shl, Pow2

\* ... and a floor logarithm.
LEMMA FloorLogExists ==
  ASSUME NEW x \in Operand
  PROVE  \E k \in 0..MaxLog : Shl(k) <= x /\ x - Shl(k) < Shl(k)
  BY SMTT(60) DEF Operand, MaxLog, Shl, Pow2

\* CEILLOG_2 finds the least power of two that is not below its operand.
LEMMA CeilLogSpec ==
  ASSUME NEW x \in Operand
  PROVE  /\ CeilLog2(x) \in 0..MaxLog
         /\ x <= Shl(CeilLog2(x))
         /\ \A j \in 0..(CeilLog2(x) - 1) : Shl(j) < x
  BY CeilLogExists DEF CeilLog2

\* FLOORLOG_2 finds the greatest power of two that is not above its operand.
LEMMA FloorLogSpec ==
  ASSUME NEW x \in Operand
  PROVE  /\ FloorLog2(x) \in 0..MaxLog
         /\ Shl(FloorLog2(x)) <= x
  <1>1. x # 0
    BY OperandType
  <1> QED
    BY <1>1, FloorLogExists DEF FloorLog2

\* Fewer than b of the b values of a minimal binary code are a bit short.
LEMMA ThreshRange ==
  ASSUME NEW b \in Operand
  PROVE  Thresh(b) \in Nat /\ Thresh(b) < b
  <1> DEFINE c == CeilLog2(b)
  <1>1. /\ c \in 0..MaxLog /\ b <= Shl(c) /\ b \in Nat /\ b >= 1
        /\ \A j \in 0..(c - 1) : Shl(j) < b
    BY CeilLogSpec, OperandType
  <1>2. CASE c = 0
    BY <1>1, <1>2 DEF Thresh, Shl, Pow2, MaxLog
  <1>3. CASE c # 0
    <2>1. c - 1 \in 0..(MaxLog - 1) /\ (c - 1) + 1 = c
      BY <1>1, <1>3 DEF MaxLog
    <2>2. Shl(c) = 2 * Shl(c - 1) /\ Shl(c - 1) \in Nat
      BY <2>1, ShlDouble, ShlType DEF MaxLog
    <2>3. Shl(c - 1) < b
      BY <1>1, <2>1
    <2> HIDE DEF c
    <2> QED
      BY <1>1, <2>2, <2>3 DEF Thresh, c
  <1> QED
    BY <1>2, <1>3

\* No value of the code is short when its parameter is a power of two.
LEMMA ThreshOfPower ==
  ASSUME NEW k \in 0..MaxLog
  PROVE  Shl(k) \in Operand /\ Thresh(Shl(k)) = 0
  <1>1. Shl(k) \in Operand
    BY ShlType, ShlMono DEF Operand, MaxLog
  <1> DEFINE c == CeilLog2(Shl(k))
  <1>2. /\ c \in 0..MaxLog /\ Shl(k) <= Shl(c)
        /\ \A j \in 0..(c - 1) : Shl(j) < Shl(k)
    BY <1>1, CeilLogSpec
  <1> HIDE DEF c
  <1>3. ~(c < k)
    BY <1>2, ShlMono, ShlType DEF MaxLog
  <1>4. ~(k < c)
    BY <1>2, ShlType DEF MaxLog
  <1>5. c = k
    BY <1>2, <1>3, <1>4 DEF MaxLog
  <1> QED
    BY <1>1, <1>5, ShlType DEF Thresh, c

----------------------------------------------------------------------------
(* Division.                                                               *)

LEMMA DivRem ==
  ASSUME NEW a \in Int, NEW b \in Nat \ {0}
  PROVE  /\ a \div b \in Int /\ a % b \in 0..(b - 1)
         /\ a = b * (a \div b) + (a % b)
  BY SMT

LEMMA Distribute ==
  ASSUME NEW a \in Int, NEW c \in Int, NEW b \in Int
  PROVE  a * b \in Int /\ c * b \in Int /\ (a + c) * b = a * b + c * b
  BY SMT

LEMMA TimesMonotone ==
  ASSUME NEW a \in Int, NEW c \in Int, NEW b \in Nat, a <= c
  PROVE  a * b <= c * b
  BY SMT

LEMMA DivGreatest ==
  ASSUME NEW a \in Int, NEW b \in Nat \ {0}, NEW q \in Int, q * b <= a
  PROVE  q <= a \div b
  <1>1. SUFFICES ASSUME q >= (a \div b) + 1 PROVE FALSE
    BY DivRem
  <1> DEFINE d == a \div b
  <1>2. d \in Int /\ d + 1 \in Int /\ b \in Nat /\ d + 1 <= q
    BY <1>1, DivRem
  <1>3. (d + 1) * b <= q * b
    BY <1>2, TimesMonotone
  <1>4. a < (d + 1) * b
    BY DivRem, SMT
  <1> HIDE DEF d
  <1> QED
    BY <1>2, <1>3, <1>4, SMT

LEMMA DivLeast ==
  ASSUME NEW a \in Int, NEW b \in Nat \ {0}, NEW q \in Int, a <= q * b
  PROVE  a \div b <= q
  <1>1. SUFFICES ASSUME a \div b >= q + 1 PROVE FALSE
    BY DivRem
  <1>2. a \div b \in Int /\ q + 1 \in Int /\ b \in Nat /\ q + 1 <= a \div b
    BY <1>1, DivRem
  <1> DEFINE d == a \div b
  <1>3. (q + 1) * b <= d * b
    BY ONLY <1>2, TimesMonotone
  <1>4. d * b <= a
    BY DivRem, SMT
  <1> HIDE DEF d
  <1> QED
    BY <1>2, <1>3, <1>4, SMT DEF d

\* Rounding down a sum loses no more than rounding down its terms.
LEMMA DivSuperadditive ==
  ASSUME NEW a \in Int, NEW c \in Int, NEW b \in Nat \ {0}
  PROVE  (a \div b) + (c \div b) <= (a + c) \div b
  <1> DEFINE q == (a \div b) + (c \div b)
  <1>1. q * b = (a \div b) * b + (c \div b) * b
    BY DivRem, SMT
  <1>2. q * b <= a + c /\ q \in Int
    BY <1>1, DivRem, SMT
  <1> QED
    BY <1>2, DivGreatest, SMT

\* C's division never rounds below TLA+'s.
LEMMA CDivAbove ==
  ASSUME NEW a \in Int, NEW b \in Nat \ {0}
  PROVE  CDiv(a, b) \in Int /\ a \div b <= CDiv(a, b)
  <1>1. CASE a >= 0
    BY <1>1, DivRem DEF CDiv
  <1>2. CASE a < 0
    <2>1. -a \in Int /\ (-a) \div b \in Int
      BY DivRem
    <2>2. b * ((-a) \div b) <= -a
      BY <2>1, DivRem
    <2>3. a <= (-((-a) \div b)) * b
      BY <2>1, <2>2, SMT
    <2> QED
      BY <1>2, <2>1, <2>3, DivLeast DEF CDiv
  <1> QED
    BY <1>1, <1>2

----------------------------------------------------------------------------
(* Code words and code parameters.                                         *)

\* What one code word may take of the bound of an entry.
Share(x, b) == 1 + CeilLog2(b) + ((x - (Thresh(b) + 1)) \div b)

\* A Bblock code word is at least one bit long and fits its share.
LEMMA BblockLengthBound ==
  ASSUME NEW b \in Operand, NEW x \in Nat \ {0}
  PROVE  BblockLength(x, b) \in Nat /\ BblockLength(x, b) <= Share(x, b)
  <1> DEFINE q == (x - 1) \div b
             r == (x - 1) % b
             t == Thresh(b)
             c == CeilLog2(b)
  <1>1. b \in Nat \ {0} /\ c \in Nat /\ t \in Nat /\ t < b
    BY OperandType, CeilLogSpec, ThreshRange DEF MaxLog
  <1>2. q \in Nat /\ r \in 0..(b - 1) /\ x - 1 = b * q + r
    <2>0. x - 1 \in Int
      OBVIOUS
    <2>1. /\ x - 1 \in Int /\ q \in Int /\ r \in 0..(b - 1)
          /\ x - 1 = b * q + r
      BY ONLY <1>1, <2>0, DivRem
    <2>2. 0 * b <= x - 1
      BY <1>1
    <2>3. 0 <= q
      BY <1>1, <2>1, <2>2, DivGreatest
    <2> QED
      BY <2>1, <2>3
  <1>3. BblockLength(x, b) = q + 1 + (IF r < t THEN c - 1 ELSE c)
    BY <1>1, <1>2 DEF BblockLength, UnaryLength, BinaryLength
  <1>4. c = 0 => t = 0
    <2>1. c = 0 => Shl(c) = 1
      BY DEF Shl, Pow2
    <2> QED
      BY <1>1, <2>1, OperandType DEF Thresh
  <1>5. Share(x, b) = 1 + c + ((x - (t + 1)) \div b)
    BY DEF Share
  <1> HIDE DEF q, r, t, c
  <1>6. x - (t + 1) \in Int /\ x - (t + 1) = b * q + r - t
    BY <1>1, <1>2
  <1> DEFINE f == (x - (t + 1)) \div b
  <1>f. f \in Int
    BY <1>1, <1>6, DivRem
  <1>7. CASE r < t
    <2>1. (q - 1) * b = b * q - b
      BY <1>1, <1>2
    <2>2. (q - 1) * b <= x - (t + 1)
      BY <1>1, <1>2, <1>6, <2>1
    <2>3. q - 1 <= f
      BY <1>1, <1>2, <1>6, <2>2, DivGreatest
    <2>4. c >= 1
      BY <1>1, <1>2, <1>4, <1>7
    <2> HIDE DEF f
    <2> QED
      BY <1>1, <1>2, <1>3, <1>f, <1>7, <2>3, <2>4, <1>5 DEF f
  <1>8. CASE ~(r < t)
    <2>1. q * b <= x - (t + 1)
      BY <1>1, <1>2, <1>6, <1>8
    <2>2. q <= f
      BY <1>1, <1>2, <1>6, <2>1, DivGreatest
    <2> HIDE DEF f
    <2> QED
      BY <1>1, <1>2, <1>3, <1>f, <1>8, <2>2, <1>5 DEF f
  <1> QED
    BY <1>7, <1>8

\* BIO_Bblock_Init never picks a parameter out of range.
LEMMA BblockInitRange ==
  ASSUME NEW N \in 1..(Shl(MaxLog) - 1), NEW p \in 1..N
  PROVE  BblockInit(N, p) \in Operand
  <1> DEFINE a == 5000000 * p + 6931471 * N
             d == 10000000 * p
             b == a \div d
  <1>0. Shl(MaxLog) \in Nat
    BY ShlType DEF MaxLog
  <1>1. N \in Nat /\ p \in Nat /\ p >= 1 /\ N >= 1 /\ N + 1 <= Shl(MaxLog)
    BY <1>0
  <1>2. a \in Nat /\ d \in Nat \ {0}
    BY <1>1
  <1>3. p * N >= N /\ p * N \in Nat
    BY <1>1, SMT
  <1>4. (N + 1) * d = 10000000 * (p * N) + 10000000 * p
    BY <1>1, <1>3, SMT
  <1>5. a <= (N + 1) * d
    BY <1>1, <1>3, <1>4, SMT
  <1>6. 0 * d <= a
    BY <1>2
  <1> HIDE DEF a, d
  <1>7. b \in Int /\ b <= N + 1 /\ 0 <= b
    <2>1. a \in Int /\ N + 1 \in Int /\ 0 \in Int
      BY <1>1, <1>2
    <2>2. b \in Int
      BY <1>2, <2>1, DivRem
    <2>3. b <= N + 1
      BY <1>2, <1>5, <2>1, DivLeast
    <2> QED
      BY <1>2, <1>6, <2>1, <2>2, <2>3, DivGreatest
  <1>8. BblockInit(N, p) = IF b = 0 THEN 1 ELSE b
    BY DEF BblockInit, a, d
  <1> HIDE DEF b
  <1> QED
    BY <1>0, <1>1, <1>7, <1>8 DEF Operand

\* A power of two is its own floor.
LEMMA FloorLogOfPower ==
  ASSUME NEW k \in 0..MaxLog
  PROVE  Shl(FloorLog2(Shl(k))) = Shl(k)
  <1>1. Shl(k) \in Operand /\ Shl(k) # 0
    BY ThreshOfPower, OperandType
  <1>2. PICK j \in 0..MaxLog : /\ j = FloorLog2(Shl(k))
                               /\ Shl(j) <= Shl(k) /\ Shl(k) - Shl(j) < Shl(j)
    BY <1>1, FloorLogExists DEF FloorLog2
  <1>3. Shl(j) = Shl(k)
    BY <1>2, SMTT(60) DEF MaxLog, Shl, Pow2
  <1> QED
    BY <1>2, <1>3

\* BIO_Bblock_Init_W picks a power of two in range, so no value is short.
LEMMA BblockInitWRange ==
  ASSUME NEW N \in 1..(Shl(MaxLog) - 1), NEW p \in 1..N
  PROVE  /\ BblockInitW(N, p) \in Operand /\ Thresh(BblockInitW(N, p)) = 0
         /\ Shl(FloorLog2(BblockInitW(N, p))) = BblockInitW(N, p)
  <1> DEFINE y == (N - p) \div p
             l == FloorLog2(y)
  <1>0. Shl(MaxLog) \in Nat
    BY ShlType DEF MaxLog
  <1>1. N \in Nat /\ p \in Nat \ {0} /\ N >= p /\ N < Shl(MaxLog)
    BY <1>0
  <1>2. 0 * p <= N - p /\ N - p <= N * p /\ N - p \in Int
    BY <1>1, SMT
  <1>3. y \in Int /\ 0 <= y /\ y <= N
    <2>1. y \in Int
      BY <1>1, <1>2, DivRem
    <2>2. y <= N
      BY <1>1, <1>2, DivLeast
    <2> QED
      BY <1>1, <1>2, <2>1, <2>2, DivGreatest
  <1>4. l \in 0..MaxLog \/ l = -1
    <2>1. CASE y = 0
      BY <2>1 DEF FloorLog2
    <2>2. CASE y # 0
      <3>1. y \in Operand
        BY <1>0, <1>1, <1>3, <2>2 DEF Operand
      <3> QED
        BY <3>1, FloorLogSpec
    <2> QED
      BY <2>1, <2>2
  <1>5. BblockInitW(N, p) = IF l < 0 THEN 1 ELSE Shl(l)
    BY DEF BblockInitW
  <1>6. Shl(0) = 1 /\ 0 \in 0..MaxLog
    BY DEF Shl, Pow2, MaxLog
  <1> HIDE DEF l
  <1>7. PICK k \in 0..MaxLog : BblockInitW(N, p) = Shl(k)
    BY <1>4, <1>5, <1>6 DEF MaxLog
  <1> QED
    BY <1>7, ThreshOfPower, FloorLogOfPower
----------------------------------------------------------------------------
(* The bound of an entry, one posting at a time.                           *)

LEMMA ShareType ==
  ASSUME NEW b \in Operand, NEW x \in Nat \ {0}
  PROVE  Share(x, b) \in Int
  <1>1. b \in Nat \ {0} /\ CeilLog2(b) \in Nat /\ Thresh(b) \in Nat
    BY OperandType, CeilLogSpec, ThreshRange DEF MaxLog
  <1> DEFINE z == x - (Thresh(b) + 1)
  <1>2. z \in Int
    BY <1>1
  <1> HIDE DEF z
  <1>3. z \div b \in Int
    BY <1>1, <1>2, DivRem
  <1> QED
    BY <1>1, <1>3 DEF Share, z

LEMMA BoundType ==
  ASSUME NEW b \in Operand, NEW M \in Nat, NEW p \in Nat
  PROVE  BblockBoundB(M, p, b) \in Int
  <1> DEFINE c == 1 + CeilLog2(b)
             t == Thresh(b) + 1
             w == M - p * t
  <1>1. b \in Nat \ {0} /\ c \in Nat /\ t \in Nat
    BY OperandType, CeilLogSpec, ThreshRange DEF MaxLog
  <1>2. BblockBoundB(M, p, b) = p * c + CDiv(w, b)
    BY DEF BblockBoundB
  <1> HIDE DEF c, t
  <1>3. p * c \in Int /\ w \in Int
    BY <1>1, Distribute
  <1> HIDE DEF w
  <1>4. CDiv(w, b) \in Int
    BY <1>1, <1>3, CDivAbove
  <1> QED
    BY <1>2, <1>3, <1>4

\* The bound of an entry of k postings over n documents.
Used(k, n, b) == k * (1 + CeilLog2(b)) + ((n - k * (Thresh(b) + 1)) \div b)

LEMMA UsedZero ==
  ASSUME NEW b \in Operand
  PROVE  Used(0, 0, b) = 0
  <1>1. b \in Nat \ {0} /\ CeilLog2(b) \in Int /\ Thresh(b) \in Int
    BY OperandType, CeilLogSpec, ThreshRange DEF MaxLog
  <1>2. 0 * (1 + CeilLog2(b)) = 0 /\ 0 * (Thresh(b) + 1) = 0
    BY <1>1, SMT
  <1>3. 0 \div b = 0
    BY <1>1, SMT
  <1> QED
    BY <1>1, <1>2, <1>3 DEF Used

LEMMA UsedType ==
  ASSUME NEW b \in Operand, NEW k \in Nat, NEW n \in Nat
  PROVE  Used(k, n, b) \in Int
  <1> DEFINE c == 1 + CeilLog2(b)
             t == Thresh(b) + 1
             y == n - k * t
  <1>1. b \in Nat \ {0} /\ c \in Nat /\ t \in Nat
    BY OperandType, CeilLogSpec, ThreshRange DEF MaxLog
  <1>2. Used(k, n, b) = k * c + (y \div b)
    BY DEF Used
  <1> HIDE DEF c, t
  <1>3. k * c \in Int /\ k * t \in Int
    BY <1>1, Distribute
  <1>4. y \in Int
    BY <1>3
  <1> HIDE DEF y
  <1>5. y \div b \in Int
    BY <1>1, <1>4, DivRem
  <1> QED
    BY <1>2, <1>3, <1>5

\* One more posting uses its share at most.
LEMMA UsedStep ==
  ASSUME NEW b \in Operand, NEW k \in Nat, NEW n \in Nat, NEW x \in Nat \ {0},
         NEW k1, k1 = k + 1, NEW n1, n1 = n + x
  PROVE  Used(k, n, b) + Share(x, b) <= Used(k1, n1, b)
  <1> DEFINE c == 1 + CeilLog2(b)
             t == Thresh(b) + 1
             y == n - k * t
             z == x - t
             y1 == n1 - k1 * t
  <1>1. b \in Nat \ {0} /\ c \in Nat /\ t \in Nat
    BY OperandType, CeilLogSpec, ThreshRange DEF MaxLog
  <1>2. Used(k, n, b) = k * c + (y \div b)
    BY DEF Used
  <1>3. Used(k1, n1, b) = k1 * c + (y1 \div b)
    BY ONLY TRUE DEF Used
  <1>4. Share(x, b) = c + (z \div b)
    BY DEF Share
  <1> HIDE DEF c, t
  <1>5. 1 * t = t /\ 1 * c = c /\ 1 \in Int /\ k \in Int
    BY <1>1
  <1>6. k1 * t = k * t + t /\ k1 * c = k * c + c
    BY <1>1, <1>5, Distribute
  <1>7. k * t \in Int /\ k * c \in Int
    BY <1>1, Distribute
  <1>8. y \in Int /\ z \in Int /\ y1 = y + z
    BY <1>1, <1>6, <1>7
  <1> HIDE DEF y, z, y1
  <1>9. (y \div b) + (z \div b) <= y1 \div b
    BY <1>1, <1>8, DivSuperadditive
  <1>10. y \div b \in Int /\ z \div b \in Int /\ y1 \div b \in Int
    BY <1>1, <1>8, DivRem
  <1> QED
    BY ONLY <1>1, <1>2, <1>3, <1>4, <1>6, <1>7, <1>9, <1>10

\* A partial entry with room for the rest uses no more than the whole entry.
LEMMA UsedWhole ==
  ASSUME NEW b \in Operand, NEW M \in Nat, NEW p \in Nat,
         NEW k \in 0..p, NEW n \in 0..M, p - k <= M - n
  PROVE  Used(k, n, b) <= BblockBoundB(M, p, b)
  <1> DEFINE c == CeilLog2(b)
             t == Thresh(b)
             m == p - k
             y == n - k * (t + 1)
             w == M - p * (t + 1)
  <1>1. b \in Nat \ {0} /\ c \in Nat /\ t \in Nat /\ t < b
    BY OperandType, CeilLogSpec, ThreshRange DEF MaxLog
  <1>2. k \in Nat /\ n \in Nat /\ m \in Nat /\ p = k + m /\ m <= M - n
    OBVIOUS
  <1>3. /\ p * (t + 1) = k * (t + 1) + m * (t + 1)
        /\ p * (1 + c) = k * (1 + c) + m * (1 + c)
        /\ k * (t + 1) \in Int /\ k * (1 + c) \in Int
        /\ m * (t + 1) \in Int /\ m * (1 + c) \in Int
    <2>1. /\ k \in Int /\ m \in Int /\ t + 1 \in Int /\ 1 + c \in Int
      BY <1>1, <1>2
    <2> HIDE DEF t, c, m
    <2> QED
      BY <1>2, <2>1, Distribute
  <1>4. m * (t + 1) <= m * b /\ m * b \in Int /\ m <= m * (1 + c)
    <2>1. /\ t + 1 \in Int /\ b \in Int /\ 1 \in Int /\ 1 + c \in Int
          /\ t + 1 <= b /\ 1 <= 1 + c
      BY <1>1
    <2> HIDE DEF t, c, m
    <2>2. /\ (t + 1) * m <= b * m /\ 1 * m <= (1 + c) * m
      BY <1>2, <2>1, TimesMonotone
    <2> QED
      BY <1>2, <2>1, <2>2, SMT
  <1>5. y \in Int /\ w \in Int /\ y + m - m * b <= w
    BY <1>1, <1>2, <1>3, <1>4
  <1>6. /\ Used(k, n, b) = k * (1 + c) + (y \div b)
        /\ BblockBoundB(M, p, b) = p * (1 + c) + CDiv(w, b)
    BY DEF Used, BblockBoundB
  <1> HIDE DEF y, w, c, t, m
  <1> DEFINE d == y \div b
  <1>0. Used(k, n, b) = k * (1 + c) + d
    BY <1>6
  <1>7. d \in Int /\ d * b <= y
    BY <1>1, <1>5, DivRem, SMT
  <1>8. (d - m) * b = d * b - m * b /\ d * b \in Int
    BY <1>1, <1>2, <1>7, SMT
  <1>9. d - m \in Int /\ (d - m) * b <= w
    BY <1>2, <1>4, <1>5, <1>7, <1>8
  <1>10. d - m <= w \div b
    BY <1>1, <1>5, <1>9, DivGreatest
  <1>11. w \div b \in Int /\ CDiv(w, b) \in Int /\ w \div b <= CDiv(w, b)
    BY <1>1, <1>5, DivRem, CDivAbove
  <1> HIDE DEF d
  <1> QED
    BY <1>0, <1>2, <1>3, <1>4, <1>6, <1>7, <1>10, <1>11
----------------------------------------------------------------------------
(* Decoding.                                                               *)

\* The decoder of a minimal binary code stops after as many bits as the encoder
\* wrote, with the value it was given.
LEMMA BinaryRoundTrip ==
  ASSUME NEW b \in Operand, NEW x \in 1..b
  PROVE  BinaryDecode(BinaryEncode(x, b), b)
           = [value |-> x, used |-> BinaryEncode(x, b).nbits]
  <1> DEFINE c == CeilLog2(b)
             t == Thresh(b)
  <1>1. /\ b \in Nat \ {0} /\ c \in Nat /\ t \in Nat
        /\ b <= Shl(c) /\ t = Shl(c) - b
    BY OperandType, CeilLogSpec, ThreshRange DEF MaxLog, Thresh
  <1>2. Shl(0) = 1
    BY DEF Shl, Pow2
  <1>3. CASE b = 1
    <2>1. c = 0
      <3>1. ASSUME c # 0 PROVE FALSE
        <4>1. 0 \in 0..(c - 1)
          BY <1>1, <3>1
        <4>2. Shl(0) < b
          BY <4>1, CeilLogSpec
        <4> QED
          BY <1>2, <1>3, <4>2
      <3> QED
        BY <3>1
    <2>2. x = 1 /\ t = 0
      BY <1>1, <1>2, <1>3, <2>1
    <2> HIDE DEF c, t
    <2>3. BinaryEncode(x, b).nbits = 0
      BY <2>1, <2>2 DEF BinaryEncode, c, t
    <2> QED
      BY <1>3, <2>2, <2>3 DEF BinaryDecode
  <1>4. CASE b # 1
    <2> HIDE DEF c, t
    <2>1. CASE x - 1 < t
      <3>1. BinaryEncode(x, b) = [nbits |-> c - 1, value |-> x - 1]
        BY <2>1 DEF BinaryEncode, c, t
      <3>2. ~(x - 1 >= t) /\ (x - 1) + 1 = x
        BY <1>1, <2>1
      <3> QED
        BY <1>4, <3>1, <3>2 DEF BinaryDecode, c, t
    <2>2. CASE ~(x - 1 < t)
      <3>1. PICK v : v = x - 1 + t
        OBVIOUS
      <3>2. BinaryEncode(x, b) = [nbits |-> c, value |-> v]
        BY <2>2, <3>1 DEF BinaryEncode, c, t
      <3>3. /\ v \div 2 >= t /\ v - t + 1 = x /\ c # c - 1 /\ (c - 1) + 1 = c
        <4>1. x - 1 >= t /\ x \in Nat
          BY <1>1, <2>2
        <4> QED
          BY <1>1, <3>1, <4>1
      <3> QED
        BY <1>4, <3>2, <3>3 DEF BinaryDecode, c, t
    <2> QED
      BY <2>1, <2>2
  <1> QED
    BY <1>3, <1>4

\* Reading a Bblock code word gives the gap that was written, and takes all of
\* its bits and no others.
LEMMA BblockRoundTrip ==
  ASSUME NEW b \in Operand, NEW x \in Nat \ {0}
  PROVE  /\ BblockDecode(BblockEncode(x, b), b) = x
         /\ BblockEncode(x, b).binary.nbits
              = BinaryDecode(BblockEncode(x, b).binary, b).used
  <1> DEFINE q == (x - 1) \div b
             r == (x - 1) % b
  <1>1. b \in Nat \ {0} /\ x - 1 \in Int
    BY OperandType
  <1>2. q \in Int /\ r \in 0..(b - 1) /\ x - 1 = b * q + r
    BY ONLY <1>1, DivRem
  <1>3. r + 1 \in 1..b
    BY <1>1, <1>2
  <1>4. BblockEncode(x, b) = [unary |-> q + 1, binary |-> BinaryEncode(r + 1, b)]
    BY DEF BblockEncode
  <1> HIDE DEF q, r
  <1>5. BinaryDecode(BinaryEncode(r + 1, b), b)
          = [value |-> r + 1, used |-> BinaryEncode(r + 1, b).nbits]
    BY <1>3, BinaryRoundTrip
  <1>6. BblockDecode(BblockEncode(x, b), b) = ((q + 1) - 1) * b + (r + 1)
    BY <1>4, <1>5 DEF BblockDecode
  <1>7. ((q + 1) - 1) * b = b * q
    BY <1>1, <1>2, SMT
  <1>8. b * q \in Int
    BY <1>1, <1>2, SMT
  <1> QED
    BY <1>2, <1>4, <1>5, <1>6, <1>7, <1>8

----------------------------------------------------------------------------
(* Induction.                                                              *)

\* A nonempty set of naturals has a least element.
LEMMA LeastNat ==
  ASSUME NEW T, T \subseteq Nat, T # {}
  PROVE  \E n \in T : \A m \in T : n <= m
  <1> DEFINE R == OpToRel(<, Nat)
  <1>1. IsWellFoundedOn(R, Nat)
    BY NatLessThanWellFounded
  <1>2. \A x, y \in Nat : y < x => <<y, x>> \in R
    BY DEF OpToRel
  <1> HIDE DEF R
  <1>3. PICK x \in T : \A y \in T : ~(<<y, x>> \in R)
    BY <1>1, WFMin
  <1>4. \A m \in T : ~(m < x) /\ m \in Nat /\ x \in Nat
    BY <1>2, <1>3
  <1>5. \A m \in T : x <= m
    BY <1>4
  <1> QED
    BY <1>3, <1>5

\* A set that holds 0, and with every natural the next one, holds them all.
LEMMA NatInductionOnSet ==
  ASSUME NEW G, 0 \in G, \A n \in Nat : n \in G => n + 1 \in G
  PROVE  Nat \subseteq G
  <1> SUFFICES ASSUME Nat \ G # {} PROVE FALSE
    OBVIOUS
  <1>1. PICK n \in Nat \ G : \A m \in Nat \ G : n <= m
    BY LeastNat
  <1>2. n # 0 /\ n - 1 \in Nat /\ (n - 1) + 1 = n /\ ~(n <= n - 1)
    BY <1>1
  <1>3. n - 1 \in G
    BY <1>1, <1>2
  <1> QED
    BY <1>1, <1>2, <1>3

\* A family that holds the empty set, and with every part of S that part and one
\* more element of S, holds S, when S is finite.
LEMMA FiniteInductionOnSet ==
  ASSUME NEW S, IsFiniteSet(S), NEW G, {} \in G,
         \A T \in SUBSET S : \A x \in S \ T : T \in G => T \cup {x} \in G
  PROVE  S \in G
  <1> DEFINE H == {n \in Nat : \A T \in SUBSET S : Cardinality(T) = n => T \in G}
  <1>1. \A T \in SUBSET S : IsFiniteSet(T) /\ Cardinality(T) \in Nat
    BY FS_Subset, FS_CardinalityType
  <1>2. 0 \in H
    BY <1>1, FS_EmptySet
  <1>3. ASSUME NEW n \in Nat, n \in H PROVE n + 1 \in H
    <2> SUFFICES ASSUME NEW T \in SUBSET S, Cardinality(T) = n + 1 PROVE T \in G
      OBVIOUS
    <2>1. T # {}
      <3>1. Cardinality(T) # 0
        OBVIOUS
      <3> QED
        BY <3>1, FS_EmptySet
    <2>2. PICK x \in T : TRUE
      BY <2>1
    <2>3. Cardinality(T \ {x}) = n /\ T \ {x} \in SUBSET S
      <3>1. Cardinality(T \ {x}) = Cardinality(T) - 1
        BY <1>1, FS_RemoveElement
      <3> QED
        BY <3>1
    <2>4. T \ {x} \in G
      BY <1>3, <2>3
    <2>5. PICK r : r = T \ {x}
      OBVIOUS
    <2>6. r \in SUBSET S /\ x \in S \ r /\ r \in G /\ r \cup {x} = T
      BY <2>2, <2>3, <2>4, <2>5
    <2>7. r \cup {x} \in G
      BY <2>6
    <2> QED
      BY <2>6, <2>7
  <1> HIDE DEF H
  <1>4. Nat \subseteq H
    BY <1>2, <1>3, NatInductionOnSet
  <1>5. Cardinality(S) \in H
    BY <1>1, <1>4
  <1> QED
    BY <1>5 DEF H
----------------------------------------------------------------------------
(* Sums over finite sets.                                                  *)

Pick(s) == CHOOSE x \in s : TRUE

\* One step of the recursion behind SumFunctionOnSet.
SumBody(h, f, s) == IF s = {} THEN 0 ELSE f[Pick(s)] + h[s \ {Pick(s)}]

\* h solves the recursion for the sets of D.
Solves(h, f, D) == h = [s \in D |-> SumBody(h, f, s)]

LEMMA SumUnfolded ==
  ASSUME NEW f, NEW S
  PROVE  SumFunctionOnSet(f, S) = (CHOOSE h : Solves(h, f, SUBSET S))[S]
  BY DEF SumFunctionOnSet, FoldFunctionOnSet, MapThenFoldSet, Solves, SumBody, Pick

\* The recursion has a solution ...
LEMMA SumExists ==
  ASSUME NEW f, NEW S, IsFiniteSet(S)
  PROVE  \E h : Solves(h, f, SUBSET S)
  <1> DEFINE D(n) == {s \in SUBSET S : Cardinality(s) <= n}
             G == {n \in Nat : \E h : Solves(h, f, D(n))}
  <1>1. \A s \in SUBSET S : IsFiniteSet(s) /\ Cardinality(s) \in Nat
    BY FS_Subset, FS_CardinalityType
  <1>2. 0 \in G
    <2> DEFINE h == [s \in D(0) |-> 0]
    <2>1. \A s \in D(0) : s = {}
      BY <1>1, FS_EmptySet
    <2>2. Solves(h, f, D(0))
      BY <2>1 DEF SumBody, Solves
    <2> QED
      BY <2>2
  <1>3. ASSUME NEW n \in Nat, n \in G PROVE n + 1 \in G
    <2>1. PICK h : Solves(h, f, D(n))
      BY <1>3
    <2> DEFINE g == [s \in D(n + 1) |-> SumBody(h, f, s)]
    <2>2. ASSUME NEW s \in D(n + 1) PROVE SumBody(g, f, s) = SumBody(h, f, s)
      <3>1. CASE s = {}
        BY <3>1 DEF SumBody
      <3>2. CASE s # {}
        <4> DEFINE r == s \ {Pick(s)}
        <4>1. Pick(s) \in s
          BY <3>2 DEF Pick
        <4>2. Cardinality(r) = Cardinality(s) - 1 /\ r \in SUBSET S
          BY <1>1, <4>1, FS_RemoveElement
        <4>3. r \in D(n) /\ r \in D(n + 1)
          BY <1>1, <4>2
        <4>4. h[r] = SumBody(h, f, r) /\ g[r] = SumBody(h, f, r)
          BY <2>1, <4>3 DEF Solves
        <4> QED
          BY <3>2, <4>4 DEF SumBody
      <3> QED
        BY <3>1, <3>2
    <2>3. Solves(g, f, D(n + 1))
      BY <2>2, Zenon DEF Solves
    <2> HIDE DEF D
    <2>4. \E k : Solves(k, f, D(n + 1))
      BY <2>3, Zenon
    <2> QED
      BY <2>4
  <1> HIDE DEF G
  <1>4. Cardinality(S) \in G
    BY <1>1, <1>2, <1>3, NatInductionOnSet
  <1>5. D(Cardinality(S)) = SUBSET S
    BY FS_Subset
  <1> HIDE DEF D
  <1> QED
    BY <1>4, <1>5 DEF G

\* ... and only one.
LEMMA SumUnique ==
  ASSUME NEW f, NEW S, IsFiniteSet(S), NEW T \in SUBSET S,
         NEW h, Solves(h, f, SUBSET S),
         NEW g, Solves(g, f, SUBSET T)
  PROVE  g[T] = h[T]
  <1> DEFINE G == {n \in Nat : \A s \in SUBSET T : Cardinality(s) = n => g[s] = h[s]}
  <1>1. \A s \in SUBSET T : IsFiniteSet(s) /\ Cardinality(s) \in Nat /\ s \in SUBSET S
    BY FS_Subset, FS_CardinalityType
  <1>2. 0 \in G
    <2>1. ASSUME NEW s \in SUBSET T, Cardinality(s) = 0 PROVE g[s] = h[s]
      <3>1. s = {}
        BY <1>1, <2>1, FS_EmptySet
      <3>2. g[s] = SumBody(g, f, s) /\ h[s] = SumBody(h, f, s)
        BY <1>1 DEF Solves
      <3> QED
        BY <3>1, <3>2 DEF SumBody
    <2> QED
      BY <2>1
  <1>3. ASSUME NEW n \in Nat, n \in G PROVE n + 1 \in G
    <2>1. ASSUME NEW s \in SUBSET T, Cardinality(s) = n + 1 PROVE g[s] = h[s]
      <3> DEFINE r == s \ {Pick(s)}
      <3>0. s # {}
        <4>1. Cardinality(s) # 0
          BY <2>1
        <4> QED
          BY <4>1, FS_EmptySet
      <3>1. s # {} /\ Pick(s) \in s
        BY <3>0 DEF Pick
      <3>2. Cardinality(r) = n /\ r \in SUBSET T
        <4>1. Cardinality(r) = Cardinality(s) - 1
          BY <1>1, <3>1, FS_RemoveElement
        <4> QED
          BY <2>1, <4>1
      <3>3. g[r] = h[r]
        BY <1>3, <3>2
      <3>4. g[s] = SumBody(g, f, s) /\ h[s] = SumBody(h, f, s)
        BY <1>1 DEF Solves
      <3> QED
        BY <3>1, <3>3, <3>4 DEF SumBody
    <2> HIDE DEF G
    <2> QED
      BY <2>1 DEF G
  <1> HIDE DEF G
  <1>4. Nat \subseteq G
    BY <1>2, <1>3, NatInductionOnSet
  <1>5. Cardinality(T) \in G
    BY <1>1, <1>4
  <1> QED
    BY <1>5 DEF G

\* The sum of a part of S, by any solution for S.
LEMMA SumOfPart ==
  ASSUME NEW f, NEW S, IsFiniteSet(S), NEW T \in SUBSET S,
         NEW h, Solves(h, f, SUBSET S)
  PROVE  SumFunctionOnSet(f, T) = h[T]
  <1>1. IsFiniteSet(T)
    BY FS_Subset
  <1> DEFINE g == CHOOSE g : Solves(g, f, SUBSET T)
  <1>2. Solves(g, f, SUBSET T)
    BY <1>1, SumExists
  <1> HIDE DEF g
  <1>3. T \in SUBSET T
    OBVIOUS
  <1>4. g[T] = h[T]
    BY ONLY <1>2, SumUnique, IsFiniteSet(S), T \in SUBSET S, Solves(h, f, SUBSET S)
  <1>5. SumFunctionOnSet(f, T) = g[T]
    BY SumUnfolded, Zenon DEF g
  <1> QED
    BY <1>4, <1>5

LEMMA SumEmpty ==
  ASSUME NEW f
  PROVE  SumFunctionOnSet(f, {}) = 0
  <1>1. IsFiniteSet({}) /\ {} \in SUBSET {}
    BY FS_EmptySet
  <1>2. PICK h : Solves(h, f, SUBSET {})
    BY <1>1, SumExists
  <1>3. SumFunctionOnSet(f, {}) = h[{}]
    BY <1>1, <1>2, SumOfPart
  <1> QED
    BY <1>1, <1>2, <1>3 DEF Solves, SumBody

\* An element taken out, the one the recursion picks.
LEMMA SumPick ==
  ASSUME NEW f, NEW S, IsFiniteSet(S), S # {}
  PROVE  \E x \in S : SumFunctionOnSet(f, S) = f[x] + SumFunctionOnSet(f, S \ {x})
  <1>1. PICK h : Solves(h, f, SUBSET S)
    BY SumExists
  <1>2. PICK x \in S : x = Pick(S)
    BY DEF Pick
  <1>3. PICK r : r = S \ {x}
    OBVIOUS
  <1>4. SumFunctionOnSet(f, S) = h[S] /\ SumFunctionOnSet(f, r) = h[r]
    <2>1. S \in SUBSET S /\ r \in SUBSET S
      BY <1>3
    <2> QED
      BY <1>1, <2>1, SumOfPart
  <1>5. h[S] = f[x] + h[r]
    <2>1. h[S] = SumBody(h, f, S)
      BY <1>1 DEF Solves
    <2> QED
      BY <1>2, <1>3, <2>1 DEF SumBody
  <1> QED
    BY <1>3, <1>4, <1>5

\* The sum of integers is one ...
LEMMA SumInt ==
  ASSUME NEW S, IsFiniteSet(S), NEW f, \A x \in S : f[x] \in Int
  PROVE  SumFunctionOnSet(f, S) \in Int
  <1> DEFINE G == {n \in Nat : \A T \in SUBSET S :
                     Cardinality(T) = n => SumFunctionOnSet(f, T) \in Int}
  <1>1. \A T \in SUBSET S : IsFiniteSet(T) /\ Cardinality(T) \in Nat
    BY FS_Subset, FS_CardinalityType
  <1>2. 0 \in G
    <2>1. ASSUME NEW T \in SUBSET S, Cardinality(T) = 0
          PROVE  SumFunctionOnSet(f, T) \in Int
      <3>1. T = {}
        BY <1>1, <2>1, FS_EmptySet
      <3> QED
        BY <3>1, SumEmpty
    <2> QED
      BY <2>1
  <1>3. ASSUME NEW n \in Nat, n \in G PROVE n + 1 \in G
    <2>1. ASSUME NEW T \in SUBSET S, Cardinality(T) = n + 1
          PROVE  SumFunctionOnSet(f, T) \in Int
      <3>1. T # {} /\ IsFiniteSet(T)
        <4>1. Cardinality(T) # 0
          BY <2>1
        <4> QED
          BY <1>1, <4>1, FS_EmptySet
      <3>2. PICK x \in T : SumFunctionOnSet(f, T) = f[x] + SumFunctionOnSet(f, T \ {x})
        BY <3>1, SumPick
      <3>3. PICK r : r = T \ {x}
        OBVIOUS
      <3>4. Cardinality(r) = n /\ r \in SUBSET S
        <4>1. Cardinality(T \ {x}) = Cardinality(T) - 1
          BY <3>1, FS_RemoveElement
        <4> QED
          BY <2>1, <3>3, <4>1
      <3>5. SumFunctionOnSet(f, r) \in Int /\ f[x] \in Int
        BY <1>3, <3>4
      <3> QED
        BY <3>2, <3>3, <3>5
    <2> QED
      BY <2>1
  <1> HIDE DEF G
  <1>4. Cardinality(S) \in G
    BY <1>1, <1>2, <1>3, NatInductionOnSet
  <1> QED
    BY <1>4 DEF G

\* ... and any element can be taken out of it.
LEMMA SumTake ==
  ASSUME NEW S, IsFiniteSet(S), NEW f, \A x \in S : f[x] \in Int, NEW y \in S
  PROVE  SumFunctionOnSet(f, S) = f[y] + SumFunctionOnSet(f, S \ {y})
  <1> DEFINE G == {n \in Nat : \A T \in SUBSET S : \A z \in T : Cardinality(T) = n =>
                     SumFunctionOnSet(f, T) = f[z] + SumFunctionOnSet(f, T \ {z})}
  <1>1. \A T \in SUBSET S : /\ IsFiniteSet(T) /\ Cardinality(T) \in Nat
                            /\ SumFunctionOnSet(f, T) \in Int
    BY FS_Subset, FS_CardinalityType, SumInt
  <1>2. 0 \in G
    <2>1. ASSUME NEW T \in SUBSET S, NEW z \in T, Cardinality(T) = 0 PROVE FALSE
      BY <1>1, <2>1, FS_EmptySet
    <2> QED
      BY <2>1
  <1>3. ASSUME NEW n \in Nat, n \in G PROVE n + 1 \in G
    <2>1. ASSUME NEW T \in SUBSET S, NEW z \in T, Cardinality(T) = n + 1
          PROVE  SumFunctionOnSet(f, T) = f[z] + SumFunctionOnSet(f, T \ {z})
      <3>1. IsFiniteSet(T) /\ T # {}
        BY <1>1
      <3>2. PICK x \in T : SumFunctionOnSet(f, T) = f[x] + SumFunctionOnSet(f, T \ {x})
        BY <3>1, SumPick
      <3>3. CASE x = z
        BY <3>2, <3>3
      <3>4. CASE x # z
        <4>1. PICK a, b, c : a = T \ {x} /\ b = T \ {z} /\ c = a \ {z}
          OBVIOUS
        <4>2. /\ a \in SUBSET S /\ b \in SUBSET S /\ c \in SUBSET S
              /\ z \in a /\ x \in b /\ c = b \ {x}
          BY <3>4, <4>1
        <4>3. Cardinality(a) = n /\ Cardinality(b) = n
          <5>1. /\ Cardinality(T \ {x}) = Cardinality(T) - 1
                /\ Cardinality(T \ {z}) = Cardinality(T) - 1
            BY <3>1, FS_RemoveElement
          <5> QED
            BY <2>1, <4>1, <5>1
        <4>4. SumFunctionOnSet(f, a) = f[z] + SumFunctionOnSet(f, c)
          BY <1>3, <4>1, <4>2, <4>3
        <4>5. SumFunctionOnSet(f, b) = f[x] + SumFunctionOnSet(f, c)
          BY <1>3, <4>2, <4>3
        <4>6. f[x] \in Int /\ f[z] \in Int /\ SumFunctionOnSet(f, c) \in Int
          BY <1>1, <4>2
        <4> QED
          BY <3>2, <4>1, <4>4, <4>5, <4>6
      <3> QED
        BY <3>3, <3>4
    <2> QED
      BY <2>1
  <1> HIDE DEF G
  <1>4. Cardinality(S) \in G
    BY <1>1, <1>2, <1>3, NatInductionOnSet
  <1> QED
    BY <1>4 DEF G

LEMMA SumAdd ==
  ASSUME NEW S, IsFiniteSet(S), NEW x, x \notin S,
         NEW f, \A y \in S \cup {x} : f[y] \in Int
  PROVE  SumFunctionOnSet(f, S \cup {x}) = SumFunctionOnSet(f, S) + f[x]
  <1>1. PICK T : T = S \cup {x}
    OBVIOUS
  <1>2. IsFiniteSet(T) /\ x \in T /\ T \ {x} = S
    BY <1>1, FS_AddElement
  <1>3. SumFunctionOnSet(f, T) = f[x] + SumFunctionOnSet(f, S)
    BY <1>1, <1>2, SumTake
  <1>4. f[x] \in Int /\ SumFunctionOnSet(f, S) \in Int
    BY SumInt
  <1> QED
    BY <1>1, <1>3, <1>4
----------------------------------------------------------------------------
(* Comparing sums.                                                         *)

LEMMA SumMonotone ==
  ASSUME NEW S, IsFiniteSet(S), NEW f, NEW g,
         \A x \in S : f[x] \in Int /\ g[x] \in Int /\ f[x] <= g[x]
  PROVE  SumFunctionOnSet(f, S) <= SumFunctionOnSet(g, S)
  <1> DEFINE G == {T \in SUBSET S : SumFunctionOnSet(f, T) <= SumFunctionOnSet(g, T)}
  <1>1. {} \in G
    BY SumEmpty
  <1>2. ASSUME NEW T \in SUBSET S, NEW x \in S \ T, T \in G PROVE T \cup {x} \in G
    <2>1. PICK U : U = T \cup {x}
      OBVIOUS
    <2>2. IsFiniteSet(T) /\ U \in SUBSET S
      BY <2>1, FS_Subset
    <2>3. /\ SumFunctionOnSet(f, U) = SumFunctionOnSet(f, T) + f[x]
          /\ SumFunctionOnSet(g, U) = SumFunctionOnSet(g, T) + g[x]
      BY <2>1, <2>2, SumAdd
    <2>4. /\ SumFunctionOnSet(f, T) \in Int /\ SumFunctionOnSet(g, T) \in Int
          /\ f[x] \in Int /\ g[x] \in Int /\ f[x] <= g[x]
      BY <2>2, SumInt
    <2>5. SumFunctionOnSet(f, T) <= SumFunctionOnSet(g, T)
      BY <1>2
    <2> QED
      BY <2>1, <2>2, <2>3, <2>4, <2>5
  <1> HIDE DEF G
  <1>3. S \in G
    BY <1>1, <1>2, FiniteInductionOnSet
  <1> QED
    BY <1>3 DEF G

LEMMA SumSame ==
  ASSUME NEW S, IsFiniteSet(S), NEW f, NEW g,
         \A x \in S : f[x] \in Int /\ g[x] = f[x]
  PROVE  SumFunctionOnSet(f, S) = SumFunctionOnSet(g, S)
  <1>1. /\ SumFunctionOnSet(f, S) <= SumFunctionOnSet(g, S)
        /\ SumFunctionOnSet(g, S) <= SumFunctionOnSet(f, S)
    BY SumMonotone
  <1>2. SumFunctionOnSet(f, S) \in Int /\ SumFunctionOnSet(g, S) \in Int
    BY SumInt
  <1> QED
    BY <1>1, <1>2

LEMMA SumZero ==
  ASSUME NEW S, IsFiniteSet(S), NEW f, \A x \in S : f[x] = 0
  PROVE  SumFunctionOnSet(f, S) = 0
  <1> DEFINE G == {T \in SUBSET S : SumFunctionOnSet(f, T) = 0}
  <1>1. {} \in G
    BY SumEmpty
  <1>2. ASSUME NEW T \in SUBSET S, NEW x \in S \ T, T \in G PROVE T \cup {x} \in G
    <2>1. /\ IsFiniteSet(T) /\ T \cup {x} \in SUBSET S
          /\ \A y \in T \cup {x} : f[y] \in Int
      BY FS_Subset
    <2>2. SumFunctionOnSet(f, T \cup {x}) = SumFunctionOnSet(f, T) + f[x]
      BY <2>1, SumAdd
    <2> QED
      BY <1>2, <2>1, <2>2
  <1> HIDE DEF G
  <1>3. S \in G
    BY <1>1, <1>2, FiniteInductionOnSet
  <1> QED
    BY <1>3 DEF G

LEMMA SumNat ==
  ASSUME NEW S, IsFiniteSet(S), NEW f, \A x \in S : f[x] \in Nat
  PROVE  SumFunctionOnSet(f, S) \in Nat
  <1> DEFINE z == [x \in S |-> 0]
  <1>1. SumFunctionOnSet(z, S) = 0
    BY SumZero
  <1>2. SumFunctionOnSet(z, S) <= SumFunctionOnSet(f, S)
    <2>1. \A x \in S : z[x] \in Int /\ f[x] \in Int /\ z[x] <= f[x]
      OBVIOUS
    <2> HIDE DEF z
    <2> QED
      BY <2>1, SumMonotone
  <1>3. SumFunctionOnSet(f, S) \in Int
    BY SumInt
  <1> QED
    BY <1>1, <1>2, <1>3

\* A part sums to no more than the whole.
LEMMA SumSubset ==
  ASSUME NEW S, IsFiniteSet(S), NEW f, \A x \in S : f[x] \in Nat, NEW T \in SUBSET S
  PROVE  SumFunctionOnSet(f, T) <= SumFunctionOnSet(f, S)
  <1> DEFINE G == {U \in SUBSET (S \ T) :
                     SumFunctionOnSet(f, T) <= SumFunctionOnSet(f, T \cup U)}
             R == S \ T
  <1>0. IsFiniteSet(T) /\ IsFiniteSet(R) /\ SumFunctionOnSet(f, T) \in Int
    BY FS_Subset, SumInt
  <1>1. {} \in G
    <2>1. T \cup {} = T
      OBVIOUS
    <2> QED
      BY <1>0, <2>1
  <1>2. ASSUME NEW U \in SUBSET R, NEW x \in R \ U, U \in G PROVE U \cup {x} \in G
    <2>1. PICK V : V = T \cup U
      OBVIOUS
    <2>2. /\ V \in SUBSET S /\ x \notin V /\ x \in S /\ IsFiniteSet(V)
          /\ V \cup {x} = T \cup (U \cup {x}) /\ \A y \in V \cup {x} : f[y] \in Int
      BY <2>1, FS_Subset
    <2>3. SumFunctionOnSet(f, V \cup {x}) = SumFunctionOnSet(f, V) + f[x]
      BY <2>2, SumAdd
    <2>4. SumFunctionOnSet(f, V) \in Int /\ f[x] \in Nat
      BY <2>2, SumInt
    <2>5. SumFunctionOnSet(f, T) <= SumFunctionOnSet(f, V)
      BY <1>2, <2>1
    <2>6. SumFunctionOnSet(f, T) <= SumFunctionOnSet(f, V \cup {x})
      BY <1>0, <2>3, <2>4, <2>5
    <2> QED
      BY <2>2, <2>6
  <1>3. T \cup R = S
    OBVIOUS
  <1>4. R \in G
    <2> HIDE DEF G
    <2> QED
      BY <1>0, <1>1, <1>2, FiniteInductionOnSet
  <1> QED
    BY <1>3, <1>4

\* One more for every element of T.
LEMMA SumCount ==
  ASSUME NEW S, IsFiniteSet(S), NEW T \in SUBSET S, NEW f, NEW g,
         \A x \in S : f[x] \in Int /\ g[x] = f[x] + IF x \in T THEN 1 ELSE 0
  PROVE  SumFunctionOnSet(g, S) = SumFunctionOnSet(f, S) + Cardinality(T)
  <1> DEFINE G == {U \in SUBSET S : SumFunctionOnSet(g, U)
                                      = SumFunctionOnSet(f, U) + Cardinality(U \cap T)}
  <1>1. {} \in G
    <2>1. {} \cap T = {} /\ Cardinality({}) = 0
      BY FS_EmptySet
    <2> QED
      BY <2>1, SumEmpty
  <1>2. ASSUME NEW U \in SUBSET S, NEW x \in S \ U, U \in G PROVE U \cup {x} \in G
    <2>1. PICK V, c, d : /\ V = U \cup {x} /\ c = Cardinality(U \cap T)
                         /\ d = Cardinality(V \cap T)
      OBVIOUS
    <2>2. /\ V \in SUBSET S /\ IsFiniteSet(U) /\ IsFiniteSet(U \cap T)
          /\ \A y \in U \cup {x} : f[y] \in Int /\ g[y] \in Int
      BY <2>1, FS_Subset
    <2>3. /\ SumFunctionOnSet(f, V) = SumFunctionOnSet(f, U) + f[x]
          /\ SumFunctionOnSet(g, V) = SumFunctionOnSet(g, U) + g[x]
      BY <2>1, <2>2, SumAdd
    <2>4. /\ SumFunctionOnSet(f, U) \in Int /\ f[x] \in Int /\ c \in Nat
          /\ g[x] = f[x] + IF x \in T THEN 1 ELSE 0
      BY <2>1, <2>2, SumInt, FS_CardinalityType
    <2>5. d = c + IF x \in T THEN 1 ELSE 0
      <3>1. CASE x \in T
        <4>1. V \cap T = (U \cap T) \cup {x} /\ x \notin U \cap T
          BY <2>1, <3>1
        <4> QED
          BY <2>1, <2>2, <3>1, <4>1, FS_AddElement
      <3>2. CASE x \notin T
        <4>1. V \cap T = U \cap T
          BY <2>1, <3>2
        <4> QED
          BY <2>1, <2>4, <3>2, <4>1
      <3> QED
        BY <3>1, <3>2
    <2>6. SumFunctionOnSet(g, U) = SumFunctionOnSet(f, U) + c
      BY <1>2, <2>1
    <2>7. SumFunctionOnSet(g, V) = SumFunctionOnSet(f, V) + d
      BY <2>3, <2>4, <2>5, <2>6
    <2> QED
      BY <2>1, <2>2, <2>7
  <1> HIDE DEF G
  <1>3. S \in G
    BY <1>1, <1>2, FiniteInductionOnSet
  <1>4. S \cap T = T
    OBVIOUS
  <1> QED
    BY <1>3, <1>4 DEF G

\* Differences add up to the last value less the first.
LEMMA SumTelescopes ==
  ASSUME NEW p \in Nat, NEW g, \A i \in 0..p : g[i] \in Int,
         NEW x, \A i \in 1..p : x[i] = g[i] - g[i - 1]
  PROVE  SumFunctionOnSet(x, 1..p) = g[p] - g[0]
  <1> DEFINE G == {n \in Nat : n <= p => SumFunctionOnSet(x, 1..n) = g[n] - g[0]}
  <1>1. 0 \in G
    <2>1. 1..0 = {} /\ g[0] - g[0] = 0
      OBVIOUS
    <2> QED
      BY <2>1, SumEmpty
  <1>2. ASSUME NEW n \in Nat, n \in G PROVE n + 1 \in G
    <2>1. SUFFICES ASSUME n + 1 <= p
                   PROVE  SumFunctionOnSet(x, 1..(n + 1)) = g[n + 1] - g[0]
      OBVIOUS
    <2>2. SumFunctionOnSet(x, 1..n) = g[n] - g[0]
      <3>1. n <= p
        BY <2>1
      <3> QED
        BY <1>2, <3>1
    <2>3. PICK m : m = n + 1
      OBVIOUS
    <2>4. /\ 1..m = (1..n) \cup {m} /\ m \notin 1..n /\ m - 1 = n
          /\ m \in 1..p /\ n \in 0..p /\ m \in 0..p /\ 0 \in 0..p
          /\ \A i \in (1..n) \cup {m} : i \in 1..p /\ i \in 0..p /\ i - 1 \in 0..p
      BY <2>1, <2>3
    <2>5. IsFiniteSet(1..n)
      BY FS_Interval
    <2>6. \A i \in (1..n) \cup {m} : x[i] \in Int
      BY <2>4
    <2>7. SumFunctionOnSet(x, (1..n) \cup {m}) = SumFunctionOnSet(x, 1..n) + x[m]
      BY <2>4, <2>5, <2>6, SumAdd
    <2>8. x[m] = g[m] - g[n] /\ g[m] \in Int /\ g[n] \in Int /\ g[0] \in Int
      <3>1. x[m] = g[m] - g[m - 1] /\ g[m - 1] = g[n]
        BY <2>4
      <3>2. g[m] \in Int /\ g[n] \in Int /\ g[0] \in Int
        BY <2>4
      <3> QED
        BY <3>1, <3>2
    <2>9. SumFunctionOnSet(x, 1..m) = g[m] - g[0]
      <3>1. SumFunctionOnSet(x, 1..m) = SumFunctionOnSet(x, (1..n) \cup {m})
        <4>1. 1..m = (1..n) \cup {m}
          BY <2>4
        <4> QED
          BY ONLY <4>1, Zenon
      <3>2. PICK s, t : /\ s = SumFunctionOnSet(x, (1..n) \cup {m})
                        /\ t = SumFunctionOnSet(x, 1..n)
        OBVIOUS
      <3>3. s = t + x[m] /\ t = g[n] - g[0]
        BY ONLY <2>2, <2>7, <3>2, Zenon
      <3>4. s = g[m] - g[0]
        BY ONLY <2>8, <3>3
      <3> QED
        BY ONLY <3>1, <3>2, <3>4, Zenon
    <2> QED
      BY <2>3, <2>9
  <1>3. Nat \subseteq G
    <2> HIDE DEF G
    <2> QED
      BY <1>1, <1>2, NatInductionOnSet
  <1>4. p \in G /\ p <= p
    BY <1>3
  <1> QED
    BY <1>4

\* What is 0 adds nothing.
LEMMA SumSupport ==
  ASSUME NEW S, IsFiniteSet(S), NEW T \in SUBSET S, NEW f, \A x \in S : f[x] \in Int,
         \A x \in S \ T : f[x] = 0
  PROVE  SumFunctionOnSet(f, S) = SumFunctionOnSet(f, T)
  <1> DEFINE G == {U \in SUBSET (S \ T) : SumFunctionOnSet(f, T \cup U) = SumFunctionOnSet(f, T)}
  <1>1. {} \in G
    <2>1. T \cup {} = T
      OBVIOUS
    <2> QED
      BY <2>1
  <1>2. ASSUME NEW U \in SUBSET (S \ T), NEW x \in (S \ T) \ U, U \in G
        PROVE  U \cup {x} \in G
    <2>1. PICK V : V = T \cup U
      OBVIOUS
    <2>2. /\ V \subseteq S /\ x \notin V /\ x \in S /\ V \cup {x} = T \cup (U \cup {x})
          /\ f[x] = 0 /\ U \cup {x} \in SUBSET (S \ T)
      BY <2>1
    <2>3. IsFiniteSet(V)
      BY <2>2, FS_Subset
    <2>4. SumFunctionOnSet(f, V \cup {x}) = SumFunctionOnSet(f, V) + f[x]
      BY <2>2, <2>3, SumAdd
    <2>5. SumFunctionOnSet(f, V) \in Int
      BY <2>2, <2>3, SumInt
    <2>6. SumFunctionOnSet(f, V) = SumFunctionOnSet(f, T)
      BY <1>2, <2>1
    <2>7. SumFunctionOnSet(f, V \cup {x}) = SumFunctionOnSet(f, T)
      BY ONLY <2>2, <2>4, <2>5, <2>6
    <2> QED
      BY <2>2, <2>7
  <1> HIDE DEF G
  <1>3. IsFiniteSet(S \ T)
    BY FS_Subset
  <1>4. S \ T \in G
    BY <1>1, <1>2, <1>3, FiniteInductionOnSet
  <1>5. T \cup (S \ T) = S
    OBVIOUS
  <1> QED
    BY <1>4, <1>5 DEF G

\* A sequence's sum grows by what is added at its end.
LEMMA SumNext ==
  ASSUME NEW m \in Nat, NEW n, n = m + 1, NEW f, NEW g,
         \A i \in 1..m : f[i] \in Int /\ g[i] = f[i], g[n] \in Int
  PROVE  SumFunctionOnSet(g, 1..n) = SumFunctionOnSet(f, 1..m) + g[n]
  <1>1. IsFiniteSet(1..m)
    BY FS_Interval
  <1>2. SumFunctionOnSet(f, 1..m) = SumFunctionOnSet(g, 1..m)
    BY <1>1, SumSame
  <1>3. 1..n = (1..m) \cup {n} /\ n \notin 1..m
    OBVIOUS
  <1>4. \A i \in (1..m) \cup {n} : g[i] \in Int
    OBVIOUS
  <1>5. SumFunctionOnSet(g, (1..m) \cup {n}) = SumFunctionOnSet(g, 1..m) + g[n]
    BY <1>1, <1>3, <1>4, SumAdd
  <1> QED
    BY ONLY <1>2, <1>3, <1>5, Zenon

\* A common factor can be taken out.
LEMMA SumScaled ==
  ASSUME NEW S, IsFiniteSet(S), NEW c \in Int, NEW f, NEW g,
         \A x \in S : f[x] \in Int /\ g[x] = c * f[x]
  PROVE  SumFunctionOnSet(g, S) = c * SumFunctionOnSet(f, S)
  <1> DEFINE G == {T \in SUBSET S : SumFunctionOnSet(g, T) = c * SumFunctionOnSet(f, T)}
  <1>1. {} \in G
    <2>1. SumFunctionOnSet(g, {}) = 0 /\ SumFunctionOnSet(f, {}) = 0 /\ c * 0 = 0
      BY SumEmpty
    <2> QED
      BY <2>1
  <1>2. ASSUME NEW T \in SUBSET S, NEW x \in S \ T, T \in G PROVE T \cup {x} \in G
    <2>1. IsFiniteSet(T) /\ T \cup {x} \in SUBSET S
      BY FS_Subset
    <2>2. \A y \in T \cup {x} : f[y] \in Int /\ g[y] \in Int
      <3>1. \A y \in S : f[y] \in Int /\ c * f[y] \in Int
        OBVIOUS
      <3> QED
        BY <3>1
    <2>3. PICK s, t, u, v : /\ s = SumFunctionOnSet(f, T) /\ t = SumFunctionOnSet(g, T)
                            /\ u = f[x] /\ v = g[x]
      OBVIOUS
    <2>4. /\ SumFunctionOnSet(f, T \cup {x}) = s + u
          /\ SumFunctionOnSet(g, T \cup {x}) = t + v
      BY <2>1, <2>2, <2>3, SumAdd
    <2>5. s \in Int /\ u \in Int /\ t = c * s /\ v = c * u
      <3>1. s \in Int
        BY <2>1, <2>2, <2>3, SumInt
      <3>2. t = c * s
        BY <1>2, <2>3
      <3> QED
        BY <2>3, <3>1, <3>2
    <2>6. t + v = c * (s + u)
      BY ONLY c \in Int, <2>5
    <2> QED
      BY <2>1, <2>4, <2>6
  <1> HIDE DEF G
  <1>3. S \in G
    BY <1>1, <1>2, FiniteInductionOnSet
  <1> QED
    BY <1>3 DEF G
=============================================================================
