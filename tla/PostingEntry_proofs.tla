------------------------- MODULE PostingEntry_proofs -------------------------
(***************************************************************************)
(* The gap codes of an entry stay inside the bits reserved for them, for   *)
(* every number of documents below 1 << 30, every set of documents and     *)
(* both code parameters.                                                   *)
(***************************************************************************)
EXTENDS PostingEntry, ArithmeticTheorems, SequenceTheorems

\* What every step needs to know of the values it reads.
Shape ==
  /\ where \in {"memory", "disk"}
  /\ level \in {1, 2}
  /\ N \in 1..MaxN
  /\ fcnt \in 1..N
  /\ docs \in Seq(1..N)
  /\ Len(docs) <= fcnt
  /\ gapbits \in Nat

\* The postings still to come need a document each.
RoomLeft == fcnt - Len(docs) <= N - Last

\* The inductive form of GapsFit: after k postings up to document Last, the
\* gap codes have used at most the bound of an entry of k postings over Last
\* documents.
PartialFit == gapbits <= Used(Len(docs), Last, Param)

IInv == Shape /\ RoomLeft /\ PartialFit
----------------------------------------------------------------------------
LEMMA ParamRange ==
  ASSUME Shape
  PROVE  Param \in Operand /\ Last \in 0..N /\ N \in 1..(Shl(MaxLog) - 1)
  <1>0. Shl(MaxLog) \in Nat
    BY ShlType DEF MaxLog
  <1>1. N \in 1..(Shl(MaxLog) - 1)
    BY <1>0, EntryBounds DEF Shape
  <1>2. Param \in Operand
    BY <1>1, BblockInitRange, BblockInitWRange DEF Shape, Param
  <1>3. Last \in 0..N
    BY DEF Shape, Last
  <1> QED
    BY <1>1, <1>2, <1>3

----------------------------------------------------------------------------
LEMMA InitIInv == Init => IInv
  <1> SUFFICES ASSUME Init PROVE IInv
    OBVIOUS
  <1>1. Shape
    BY DEF Init, Shape
  <1>2. Param \in Operand
    BY <1>1, ParamRange
  <1>3. Len(docs) = 0 /\ Last = 0
    BY DEF Init, Last
  <1> QED
    BY <1>1, <1>2, <1>3, UsedZero DEF Init, IInv, Shape, RoomLeft, PartialFit

LEMMA StepIInv == IInv /\ [Next]_vars => IInv'
  <1> SUFFICES ASSUME IInv, [Next]_vars PROVE IInv'
    OBVIOUS
  <1>1. Param \in Operand /\ Last \in 0..N /\ N \in Nat /\ fcnt \in Nat
    BY ParamRange DEF IInv, Shape
  <1>2. ASSUME NEW d \in 1..N, NEW tf \in 1..left, Posting(d, tf)
        PROVE  IInv'
    <2>1. /\ UNCHANGED <<where, level, N, fcnt>> /\ Param' = Param
          /\ docs' = Append(docs, d) /\ d > Last
          /\ fcnt - Len(docs) - 1 >= 0 /\ N - d >= fcnt - Len(docs) - 1
          /\ gapbits' = gapbits + BblockLength(d - Last, Param)
      BY <1>2 DEF Posting, params, Param
    <2>2. /\ docs' \in Seq(1..N) /\ Len(docs') = Len(docs) + 1
          /\ Last' = d /\ Len(docs) \in Nat
      <3>1. docs \in Seq(1..N) /\ Len(docs) \in Nat
        BY DEF IInv, Shape
      <3>2. /\ docs' \in Seq(1..N) /\ docs' # <<>>
            /\ Len(docs') = Len(docs) + 1 /\ docs'[Len(docs) + 1] = d
        BY ONLY <2>1, <3>1, d \in 1..N, AppendProperties
      <3>3. Last' = docs'[Len(docs')]
        BY <3>2, Zenon DEF Last
      <3> QED
        BY <3>1, <3>2, <3>3
    <2>3. d - Last \in Nat \ {0} /\ Last + (d - Last) = d
      BY <1>1, <2>1
    <2>4. /\ BblockLength(d - Last, Param) \in Nat
          /\ BblockLength(d - Last, Param) <= Share(d - Last, Param)
      BY <1>1, <2>3, BblockLengthBound
    <2>5. Shape'
      BY <1>1, <2>1, <2>2, <2>4 DEF IInv, Shape
    <2>6. RoomLeft'
      BY <1>1, <2>1, <2>2 DEF RoomLeft
    <2>7. PartialFit'
      <3> DEFINE u == Used(Len(docs), Last, Param)
                 v == Used(Len(docs'), Last', Param)
                 s == Share(d - Last, Param)
      <3>0. /\ Len(docs) \in Nat /\ Len(docs') \in Nat
            /\ Last \in Nat /\ Last' \in Nat /\ Last' = Last + (d - Last)
        BY <1>1, <2>2, <2>3
      <3>1. u + s <= v
        BY <1>1, <2>2, <2>3, <3>0, UsedStep
      <3>2. gapbits \in Nat /\ gapbits <= u
        BY DEF IInv, Shape, PartialFit
      <3>3. u \in Int /\ s \in Int /\ v \in Int
        BY <1>1, <2>3, <3>0, ShareType, UsedType
      <3> HIDE DEF u, v, s
      <3>4. gapbits' <= v
        BY <2>1, <2>4, <3>1, <3>2, <3>3 DEF s
      <3> QED
        BY <2>1, <2>2, <3>4 DEF PartialFit, v
    <2> QED
      BY <2>5, <2>6, <2>7 DEF IInv
  <1>3. CASE UNCHANGED vars
    BY <1>3 DEF vars, IInv, Shape, RoomLeft, PartialFit, Last, Param
  <1> QED
    BY <1>2, <1>3 DEF Next

LEMMA IInvGapsFit == IInv => GapsFit
  <1> SUFFICES ASSUME IInv PROVE GapsFit
    OBVIOUS
  <1>1. /\ Param \in Operand /\ Last \in 0..N /\ N \in Nat /\ fcnt \in Nat
        /\ Len(docs) \in 0..fcnt /\ fcnt - Len(docs) <= N - Last
        /\ gapbits \in Nat /\ gapbits <= Used(Len(docs), Last, Param)
    BY ParamRange DEF IInv, Shape, RoomLeft, PartialFit
  <1>2. Used(Len(docs), Last, Param) <= BblockBoundB(N, fcnt, Param)
    BY <1>1, UsedWhole
  <1>3. /\ Used(Len(docs), Last, Param) \in Int
        /\ BblockBoundB(N, fcnt, Param) \in Int
    <2>1. Len(docs) \in Nat /\ Last \in Nat
      BY <1>1
    <2> QED
      BY <1>1, <2>1, UsedType, BoundType
  <1> QED
    BY <1>1, <1>2, <1>3 DEF GapsFit, GapSpace

\* ivf.pass2 and the bounds of lib/bitio_gen.c: whichever documents hold a
\* word, its gap codes never leave the region reserved for them.
THEOREM GapsAlwaysFit == Spec => []GapsFit
  BY InitIInv, StepIInv, IInvGapsFit, PTL DEF Spec
----------------------------------------------------------------------------
(* Type correctness.                                                       *)

\* What TypeOK needs besides Shape.
Counted ==
  /\ wcnt \in 0..MaxWcnt /\ left \in 0..wcnt
  /\ Len(codes) = Len(docs) /\ \E S : codes \in Seq(S)
  /\ tfbits \in Nat

LEMMA InitCounted == Init => Counted
  <1> SUFFICES ASSUME Init PROVE Counted
    OBVIOUS
  <1>1. <<>> \in Seq({}) /\ Len(<<>>) = 0 /\ N \in Nat /\ fcnt \in 1..N
    BY EntryBounds, ShlType DEF Init, MaxLog
  <1>2. wcnt \in fcnt..MaxWcnt /\ MaxWcnt \in 0..(Shl(MaxLog) - 1) /\ Shl(MaxLog) \in Nat
    BY EntryBounds, ShlType DEF Init, MaxLog
  <1>3. wcnt \in 0..MaxWcnt /\ wcnt \in 0..wcnt
    BY <1>1, <1>2
  <1> QED
    BY <1>1, <1>3 DEF Init, Counted

LEMMA StepCounted == IInv /\ Counted /\ [Next]_vars => Counted'
  <1> SUFFICES ASSUME IInv, Counted, [Next]_vars PROVE Counted'
    OBVIOUS
  <1>1. /\ fcnt \in Nat /\ Len(docs) \in Nat /\ MaxWcnt \in 0..(Shl(MaxLog) - 1)
        /\ Shl(MaxLog) \in Nat /\ docs \in Seq(1..N)
    <2>1. docs \in Seq(1..N) /\ fcnt \in 1..N /\ N \in Nat
      BY ParamRange DEF IInv, Shape
    <2>2. MaxWcnt \in 0..(Shl(MaxLog) - 1) /\ Shl(MaxLog) \in Nat
      BY EntryBounds, ShlType DEF MaxLog
    <2> QED
      BY <2>1, <2>2
  <1>2. ASSUME NEW d \in 1..N, NEW tf \in 1..left, Posting(d, tf)
        PROVE  Counted'
    <2>1. /\ docs' = Append(docs, d) /\ left' = left - tf /\ wcnt' = wcnt
          /\ codes' = Append(codes, BblockEncode(d - Last, Param))
          /\ tfbits' = tfbits + (IF level = 1 THEN 0 ELSE TfLength(tf))
      BY <1>2 DEF Posting, params
    <2>2. /\ Len(docs') = Len(docs) + 1 /\ Len(codes') = Len(codes) + 1
          /\ \E S : codes' \in Seq(S)
      <3>1. PICK S : codes \in Seq(S)
        BY DEF Counted
      <3>2. PICK x : x = BblockEncode(d - Last, Param)
        OBVIOUS
      <3>3. codes \in Seq(S \cup {x}) /\ x \in S \cup {x}
        BY <3>1, SeqMonotonic
      <3>4. codes' \in Seq(S \cup {x}) /\ Len(codes') = Len(codes) + 1
        BY <2>1, <3>2, <3>3, AppendProperties
      <3>5. Len(docs') = Len(docs) + 1
        BY <1>1, <2>1, AppendProperties
      <3> QED
        BY <3>4, <3>5
    <2>3. wcnt \in Nat /\ left \in 0..wcnt /\ tf \in 1..left /\ left - tf \in 0..wcnt
      BY <1>1 DEF Counted
    <2>4. TfLength(tf) \in Nat
      <3>1. tf \in Operand
        BY <1>1, <2>3 DEF Counted, Operand
      <3> QED
        BY <2>3, <3>1, FloorLogSpec DEF TfLength, GammaLength, UnaryLength, MaxLog
    <2> QED
      BY <1>1, <2>1, <2>2, <2>3, <2>4 DEF Counted
  <1>3. CASE UNCHANGED vars
    BY <1>3 DEF vars, Counted
  <1> QED
    BY <1>2, <1>3 DEF Next

\* Every variable keeps its type: in particular no length of a code word, and
\* no count of what is left, is ever negative.
THEOREM TypesAlwaysOK == Spec => []TypeOK
  <1>1. Init => IInv /\ Counted
    BY InitIInv, InitCounted
  <1>2. IInv /\ Counted /\ [Next]_vars => IInv' /\ Counted'
    BY StepIInv, StepCounted
  <1>3. IInv /\ Counted => TypeOK
    <2> SUFFICES ASSUME IInv, Counted PROVE TypeOK
      OBVIOUS
    <2>1. MaxWcnt \in Nat
      BY EntryBounds, ShlType DEF MaxLog
    <2> QED
      BY <2>1 DEF IInv, Shape, Counted, TypeOK
  <1> QED
    BY <1>1, <1>2, <1>3, PTL DEF Spec
----------------------------------------------------------------------------
(* Decoding an entry.                                                      *)

Before(i) == IF i = 1 THEN 0 ELSE docs[i - 1]

\* Every document lies behind the one before it, and its code word is that of
\* the distance.
CodesOK ==
  \A i \in 1..Len(docs) : /\ docs[i] - Before(i) \in Nat \ {0}
                         /\ codes[i] = BblockEncode(docs[i] - Before(i), Param)

LEMMA StepCodesOK == IInv /\ Counted /\ CodesOK /\ [Next]_vars => CodesOK'
  <1> SUFFICES ASSUME IInv, Counted, CodesOK, [Next]_vars PROVE CodesOK'
    OBVIOUS
  <1>1. ASSUME NEW d \in 1..N, NEW tf \in 1..left, Posting(d, tf)
        PROVE  CodesOK'
    <2>1. PICK k, x : k = Len(docs) + 1 /\ x = BblockEncode(d - Last, Param)
      OBVIOUS
    <2>2. /\ docs' = Append(docs, d) /\ codes' = Append(codes, x)
          /\ Param' = Param /\ d > Last
      BY <1>1, <2>1 DEF Posting, params, Param
    <2>3. PICK S : codes \in Seq(S)
      BY DEF Counted
    <2>4. /\ docs \in Seq(1..N) /\ Len(docs) \in Nat /\ Last \in 0..N /\ N \in Nat
          /\ Len(codes) = Len(docs)
      BY ParamRange DEF IInv, Shape, Counted
    <2>5. /\ Len(docs') = k /\ docs'[k] = d
          /\ \A i \in 1..Len(docs) : docs'[i] = docs[i]
      BY <2>1, <2>2, <2>4, AppendProperties
    <2>6. codes'[k] = x /\ \A i \in 1..Len(docs) : codes'[i] = codes[i]
      <3>1. codes \in Seq(S \cup {x}) /\ x \in S \cup {x}
        BY <2>3, SeqMonotonic
      <3> QED
        BY <2>1, <2>2, <2>4, <3>1, AppendProperties
    <2>7. \A i \in 1..Len(docs) : Before(i)' = Before(i)
      BY <2>4, <2>5, SMTT(60) DEF Before
    <2>8. Before(k)' = Last
      <3>1. CASE docs = <<>>
        BY <2>1, <2>4, <3>1 DEF Before, Last
      <3>2. CASE docs # <<>>
        <4>1. Len(docs) # 0
          BY <2>4, <3>2, EmptySeq
        <4>2. k # 1 /\ k - 1 = Len(docs) /\ Len(docs) \in 1..Len(docs)
          BY <2>1, <2>4, <4>1
        <4> QED
          BY <2>5, <3>2, <4>2 DEF Before, Last
      <3> QED
        BY <3>1, <3>2
    <2>9. ASSUME NEW i \in 1..k
          PROVE  /\ docs'[i] - Before(i)' \in Nat \ {0}
                 /\ codes'[i] = BblockEncode(docs'[i] - Before(i)', Param)
      <3>1. CASE i = k
        BY <2>1, <2>2, <2>4, <2>5, <2>6, <2>8, <3>1
      <3>2. CASE i # k
        <4>1. i \in 1..Len(docs)
          BY <2>1, <2>4, <3>2
        <4> QED
          BY <2>5, <2>6, <2>7, <4>1 DEF CodesOK
      <3> QED
        BY <3>1, <3>2
    <2> QED
      BY <2>2, <2>5, <2>9 DEF CodesOK
  <1>2. CASE UNCHANGED vars
    BY <1>2 DEF vars, CodesOK, Before, Param
  <1> QED
    BY <1>1, <1>2 DEF Next

\* BIO_Bblock_Decode (lib/bitio_gen.c) reads an entry back as it was written, to
\* the bit, whichever documents hold the word and whichever of the two code
\* parameters the region was laid out for.
THEOREM EntriesReadBack == Spec => []RoundTrip
  <1>1. Init => IInv /\ Counted /\ CodesOK
    BY InitIInv, InitCounted DEF Init, CodesOK
  <1>2. IInv /\ Counted /\ CodesOK /\ [Next]_vars => IInv' /\ Counted' /\ CodesOK'
    BY StepIInv, StepCounted, StepCodesOK
  <1>3. IInv /\ CodesOK => RoundTrip
    <2> SUFFICES ASSUME IInv, CodesOK, NEW i \in 1..Len(docs)
                 PROVE  /\ docs[i] = Before(i) + BblockDecode(codes[i], Param)
                        /\ codes[i].binary.nbits = BinaryDecode(codes[i].binary, Param).used
      BY DEF RoundTrip, Before
    <2>1. PICK x : x = docs[i] - Before(i)
      OBVIOUS
    <2>2. x \in Nat \ {0} /\ codes[i] = BblockEncode(x, Param) /\ Param \in Operand
      BY <2>1, ParamRange DEF CodesOK, IInv
    <2>3. /\ BblockDecode(codes[i], Param) = x
          /\ codes[i].binary.nbits = BinaryDecode(codes[i].binary, Param).used
      BY <2>2, BblockRoundTrip
    <2>4. docs[i] \in Int /\ Before(i) \in Int
      <3>1. docs \in Seq(1..N) /\ Len(docs) \in Nat
        BY DEF IInv, Shape
      <3>2. \A k \in 1..Len(docs) : docs[k] \in Int
        <4>1. \A k \in 1..Len(docs) : docs[k] \in 1..N
          BY <3>1, ElementOfSeq
        <4> QED
          BY <4>1
      <3>3. i # 1 => i - 1 \in 1..Len(docs)
        BY <3>1
      <3> QED
        BY <3>2, <3>3 DEF Before
    <2> QED
      BY <2>1, <2>3, <2>4
  <1> QED
    BY <1>1, <1>2, <1>3, PTL DEF Spec
----------------------------------------------------------------------------
(* The counts in memory.                                                   *)

\* Unary counts have used a bit for every occurrence coded so far; level 1 has
\* no counts.
UnaryOK ==
  /\ where = "memory" => tfbits <= wcnt - left
  /\ level = 1 => tfbits = 0

LEMMA StepUnaryOK == IInv /\ Counted /\ UnaryOK /\ [Next]_vars => UnaryOK'
  <1> SUFFICES ASSUME IInv, Counted, UnaryOK, [Next]_vars PROVE UnaryOK'
    OBVIOUS
  <1>1. ASSUME NEW d \in 1..N, NEW tf \in 1..left, Posting(d, tf), where = "memory"
        PROVE  tfbits' <= wcnt' - left'
    <2>1. /\ left' = left - tf /\ wcnt' = wcnt
          /\ tfbits' = tfbits + (IF level = 1 THEN 0 ELSE TfLength(tf))
      BY <1>1 DEF Posting, params
    <2>2. TfLength(tf) = tf
      BY <1>1 DEF TfLength, UnaryLength
    <2>3. wcnt \in Nat /\ left \in Nat /\ tfbits \in Nat /\ tf \in Nat
      <3>1. MaxWcnt \in Nat
        BY EntryBounds, ShlType DEF MaxLog
      <3> QED
        BY <3>1 DEF Counted
    <2> QED
      BY <1>1, <2>1, <2>2, <2>3 DEF UnaryOK
  <1>2. ASSUME NEW d \in 1..N, NEW tf \in 1..left, Posting(d, tf)
        PROVE  where' = where /\ (level' = 1 => tfbits' = 0)
    <2>1. level = 1 => tfbits = 0
      BY DEF UnaryOK
    <2> QED
      BY <1>2, <2>1 DEF Posting, params
  <1>3. CASE UNCHANGED vars
    BY <1>3 DEF vars, UnaryOK
  <1> QED
    BY <1>1, <1>2, <1>3 DEF Next, UnaryOK

\* process_doc of pass 2 (ivf.pass2.c:809-828) writes the counts of a word in unary:
\* they never take more than a bit an occurrence.  (The gamma counts of the file
\* are bounded through a logarithm, and stay with TLC.)
THEOREM MemoryCountsFit == Spec => [](where = "memory" => CountsFit)
  <1>1. Init => IInv /\ Counted /\ UnaryOK
    <2> SUFFICES ASSUME Init PROVE UnaryOK
      BY InitIInv, InitCounted
    <2>1. wcnt \in Nat
      BY InitCounted, EntryBounds, ShlType DEF Counted, MaxLog
    <2> QED
      BY <2>1 DEF Init, UnaryOK
  <1>2. IInv /\ Counted /\ UnaryOK /\ [Next]_vars => IInv' /\ Counted' /\ UnaryOK'
    BY StepIInv, StepCounted, StepUnaryOK
  <1>3. IInv /\ Counted /\ UnaryOK => (where = "memory" => CountsFit)
    <2> SUFFICES ASSUME IInv, Counted, UnaryOK, where = "memory" PROVE CountsFit
      OBVIOUS
    <2>1. wcnt \in Nat /\ left \in Nat /\ tfbits \in Nat /\ level \in {1, 2}
      <3>1. MaxWcnt \in Nat
        BY EntryBounds, ShlType DEF MaxLog
      <3> QED
        BY <3>1 DEF Counted, IInv, Shape
    <2> QED
      BY <2>1 DEF CountsFit, TfSpace, UnaryOK
  <1> QED
    BY <1>1, <1>2, <1>3, PTL DEF Spec
=============================================================================
