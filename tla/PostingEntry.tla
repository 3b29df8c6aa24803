---------------------------- MODULE PostingEntry ----------------------------
(***************************************************************************)
(* One word's entry of an inverted file while it is being written: `fcnt`  *)
(* postings over `N` documents, `wcnt` occurrences in all, each posting a  *)
(* Bblock-coded gap followed (inversion level 2) by the count of the word  *)
(* in the document.  The writer never checks for space.  It relies on a    *)
(* region reserved beforehand from N, fcnt and wcnt alone:                 *)
(*   - "memory": the region of ivf.pass2's MemoryBuffer, laid out by       *)
(*     LoadCounts and filled by process_doc (power-of-two parameter, unary *)
(*     counts);                                                            *)
(*   - "disk": the region of the .invf file, laid out by init_ivf_2 and    *)
(*     filled by DiskMerge (ln 2 * N/p parameter, gamma counts).           *)
(***************************************************************************)
EXTENDS BlockCode, Sequences

CONSTANTS MaxN,     \* bound: documents of an entry
          MaxFcnt,  \* bound: postings of an entry that stores counts
          MaxWcnt   \* bound: occurrences in all of such an entry

ASSUME EntryBounds == /\ MaxN \in 1..(Shl(MaxLog) - 1)
                      /\ MaxFcnt \in Nat
                      /\ MaxWcnt \in 0..(Shl(MaxLog) - 1)

VARIABLES where,    \* "memory" or "disk"
          level,    \* InvfLevel
          N, fcnt, wcnt,  \* what the region was reserved from
          docs,     \* the documents coded so far (history)
          left,     \* occurrences not coded yet
          codes,    \* the Bblock code words written
          gapbits, tfbits   \* bits written: gaps, counts

vars == <<where, level, N, fcnt, wcnt, docs, left, codes, gapbits, tfbits>>
params == <<where, level, N, fcnt, wcnt>>

Param == IF where = "disk" THEN BblockInit(N, fcnt) ELSE BblockInitW(N, fcnt)

TfLength(tf) == IF where = "disk" THEN GammaLength(tf) ELSE UnaryLength(tf)

GapSpace == BblockBoundB(N, fcnt, Param)

TfSpace ==
  IF level = 1 THEN 0
  ELSE IF where = "disk" THEN GammaBound(wcnt, fcnt) ELSE wcnt

Last == IF docs = <<>> THEN 0 ELSE docs[Len(docs)]

Init ==
  /\ where \in {"memory", "disk"}
  /\ level \in {1, 2}
  /\ N \in 1..MaxN
  /\ fcnt \in 1..N
  /\ wcnt \in fcnt..MaxWcnt
  /\ level = 1 => wcnt = fcnt
  /\ level = 2 => fcnt <= MaxFcnt
  /\ docs = <<>>
  /\ left = wcnt
  /\ codes = <<>>
  /\ gapbits = 0
  /\ tfbits = 0

\* The next document d with the word, which holds it tf times.  The postings
\* still to come need a document each, and the counts add up to wcnt.
Posting(d, tf) ==
  LET rest == fcnt - Len(docs) - 1
  IN /\ rest >= 0
     /\ d > Last
     /\ N - d >= rest
     /\ IF rest = 0 THEN tf = left ELSE left - tf >= rest
     /\ docs' = Append(docs, d)
     /\ left' = left - tf
     /\ codes' = Append(codes, BblockEncode(d - Last, Param))
     /\ gapbits' = gapbits + BblockLength(d - Last, Param)
     /\ tfbits' = tfbits + (IF level = 1 THEN 0 ELSE TfLength(tf))
     /\ UNCHANGED params

Next == \E d \in 1..N, tf \in 1..left : Posting(d, tf)

Spec == Init /\ [][Next]_vars

----------------------------------------------------------------------------

TypeOK ==
  /\ where \in {"memory", "disk"} /\ level \in {1, 2}
  /\ N \in 1..MaxN /\ fcnt \in 1..N /\ wcnt \in Nat
  /\ docs \in Seq(1..N) /\ Len(docs) <= fcnt
  /\ left \in Nat
  /\ Len(codes) = Len(docs)
  /\ gapbits \in Nat
  /\ tfbits \in Nat

\* The gap codes of an entry never outgrow the bits BIO_Bblock_Bound_b
\* reserves for them, whichever documents hold the word.
GapsFit == gapbits <= GapSpace

\* The counts (unary in memory, gamma on disk) never outgrow their share.
CountsFit == tfbits <= TfSpace

\* Decoding the code words of an entry yields the documents that were coded:
\* the truncated binary code's early stop never swallows a bit of the next
\* code word nor leaves one behind.
RoundTrip ==
  /\ \A i \in 1..Len(docs) :
       docs[i] = (IF i = 1 THEN 0 ELSE docs[i - 1])
                   + BblockDecode(codes[i], Param)
  /\ \A i \in 1..Len(docs) :
       codes[i].binary.nbits = BinaryDecode(codes[i].binary, Param).used
============================================================================
