----------------------------- MODULE BlockCode -----------------------------
(***************************************************************************)
(* The integer codes of lib/bitio_m.h and lib/bitio_gen.c that inverted    *)
(* files are written with: unary, minimal binary, gamma and the Golomb     *)
(* ("Bblock") code, their lengths in bits, the code parameters the builder *)
(* picks and the bounds it reserves space by.  A code word is a record of  *)
(* its parts rather than a string of bits: a unary part is its length, a   *)
(* binary part its number of bits and its value.                           *)
(*                                                                         *)
(* C's int arithmetic is on 32 bits: shifts run over 0..MaxLog, and every  *)
(* theorem about this module asks its operands to lie below 1 << MaxLog.   *)
(***************************************************************************)
EXTENDS Integers

MaxLog == 30

Pow2 == << 1, 2, 4, 8, 16, 32, 64, 128, 256, 512, 1024, 2048, 4096, 8192,
           16384, 32768, 65536, 131072, 262144, 524288, 1048576, 2097152,
           4194304, 8388608, 16777216, 33554432, 67108864, 134217728,
           268435456, 536870912, 1073741824 >>

\* 1 << k
Shl(k) == Pow2[k + 1]

\* FLOORLOG_2: the number of right shifts that empty x, less one; -1 for 0.
FloorLog2(x) ==
  IF x = 0 THEN -1
  ELSE CHOOSE k \in 0..MaxLog : Shl(k) <= x /\ x - Shl(k) < Shl(k)

\* CEILLOG_2: the number of bits that hold the x values 0 .. x-1.
CeilLog2(x) ==
  CHOOSE k \in 0..MaxLog : x <= Shl(k) /\ \A j \in 0..(k - 1) : Shl(j) < x

\* C's division, which truncates towards zero (TLA+'s rounds down).
CDiv(a, b) == IF a >= 0 THEN a \div b ELSE -((-a) \div b)

----------------------------------------------------------------------------
(* Lengths of code words, in bits.                                         *)

UnaryLength(x) == x

\* Variant: the length for codes that start at 0.
GammaLengthFromZero(x) == 2 * FloorLog2(x - 1) + 1

GammaLength(x) == 2 * FloorLog2(x) + 1

\* The first Thresh(b) of the b values of a minimal binary code are a bit short.
Thresh(b) == Shl(CeilLog2(b)) - b

BinaryLength(x, b) ==
  IF x - 1 < Thresh(b) THEN CeilLog2(b) - 1 ELSE CeilLog2(b)

BblockLength(x, b) ==
  UnaryLength((x - 1) \div b + 1) + BinaryLength(((x - 1) % b) + 1, b)

----------------------------------------------------------------------------
(* Encoding and decoding of a Bblock code word.                            *)

BinaryEncode(x, b) ==
  IF x - 1 < Thresh(b)
  THEN [nbits |-> CeilLog2(b) - 1, value |-> x - 1]
  ELSE [nbits |-> CeilLog2(b), value |-> x - 1 + Thresh(b)]

BblockEncode(x, b) ==
  [unary |-> (x - 1) \div b + 1, binary |-> BinaryEncode(((x - 1) % b) + 1, b)]

\* The decoder reads CeilLog2(b) - 1 bits, and one more only when they are not
\* below the threshold; `used` is what it consumed of the code word.
BinaryDecodeLate(code, b) ==     \* variant: ">" for ">=" at the threshold
  IF b = 1 THEN [value |-> 1, used |-> 0]
  ELSE LET short == CeilLog2(b) - 1
           head  == IF code.nbits = short THEN code.value ELSE code.value \div 2
       IN IF head > Thresh(b)
          THEN [value |-> code.value - Thresh(b) + 1, used |-> short + 1]
          ELSE [value |-> head + 1, used |-> short]

BinaryDecode(code, b) ==
  IF b = 1 THEN [value |-> 1, used |-> 0]
  ELSE LET short == CeilLog2(b) - 1
           head  == IF code.nbits = short THEN code.value ELSE code.value \div 2
       IN IF head >= Thresh(b)
          THEN [value |-> code.value - Thresh(b) + 1, used |-> short + 1]
          ELSE [value |-> head + 1, used |-> short]

BblockDecode(code, b) ==
  (code.unary - 1) * b + BinaryDecode(code.binary, b).value

----------------------------------------------------------------------------
(* Code parameters and space bounds for p gaps that add up to at most N.   *)

\* (int)(0.5 + 0.6931471 * N / p), at least 1.
BblockInit(N, p) ==
  LET b == (5000000 * p + 6931471 * N) \div (10000000 * p)
  IN IF b = 0 THEN 1 ELSE b

\* The largest power of two not above (N-p)/p, at least 1.
BblockInitW(N, p) ==
  LET logb == FloorLog2((N - p) \div p)
  IN IF logb < 0 THEN 1 ELSE Shl(logb)

\* Variant: no room for the bit that ends each unary part.
BblockBoundNoStop(N, p, b) ==
  p * CeilLog2(b) + CDiv(N - p * (Thresh(b) + 1), b)

BblockBoundB(N, p, b) ==
  p * (1 + CeilLog2(b)) + CDiv(N - p * (Thresh(b) + 1), b)

BblockBound(N, p) == BblockBoundB(N, p, BblockInitW(N, p))

\* log2(1.0001 * N / p) in 4096ths: a 15-bit mantissa, squared once a bit.
Log2Ratio(N, p) ==
  LET Normal(m, log) == IF m >= Shl(15) THEN [m |-> m \div 2, log |-> log + 1]
                        ELSE [m |-> m, log |-> log]
      e == FloorLog2(N \div p)
      m0 == (N * Shl(14)) \div (p * Shl(e))
      step[i \in 0..12] ==
        IF i = 0 THEN Normal(m0 + m0 \div 10000, e)
        ELSE LET prev == step[i - 1]
             IN Normal((prev.m * prev.m) \div Shl(14), 2 * prev.log)
  IN step[12].log

\* (int)(p * (2 * log2(1.0001 * N / p) + 1)): the gamma codes of p counts that
\* add up to N.  12 fraction bits give the C double's result for N up to 430.
\* Variant: a bit short for every count.
GammaBoundNoStop(N, p) == (2 * p * Log2Ratio(N, p)) \div Shl(12)

GammaBound(N, p) == p + ((2 * p * Log2Ratio(N, p)) \div Shl(12))
============================================================================
