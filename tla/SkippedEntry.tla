---------------------------- MODULE SkippedEntry ----------------------------
(***************************************************************************)
(* Entries of an inverted file with skips: how mg_invf_rebuild reads one    *)
(* and writes another (text/mg_invf_rebuild.c), and the parameters that it  *)
(* and the query program (CalcBlks of text/invf_get.c) work out for a word. *)
(*                                                                         *)
(* An entry of p postings with skips of k is cut into blocks of k.  Every   *)
(* block but the last starts with a header: the distance to the document of *)
(* its last posting, whose own gap is then left out, and the bits to the    *)
(* end of the block.  An entry is a sequence of codes, each with the bit it *)
(* begins at; a Golomb code has its parameter, a gamma code has 0.          *)
(***************************************************************************)
EXTENDS BlockCode, Sequences, FiniteSetsExt

CONSTANTS num_of_docs,        \* documents of the collection
          static_num_of_docs  \* documents it was first built with

ASSUME DocsAssumption ==
         /\ num_of_docs \in 1..(Shl(MaxLog) - 1)
         /\ static_num_of_docs \in 1..num_of_docs

\* Occurrences of a word with these counts.
Total(counts) == MapThenSumSet(LAMBDA j : counts[j], DOMAIN counts)

\* The pointers between two headers of a word with p postings; 0 is for none.
\* ifh is the header of the file: its mode and parameters.
SkipSize(ifh, p) ==
  CASE ifh.mode = 1 -> IF p <= ifh.k THEN 0 ELSE ifh.k
    [] ifh.mode = 2 ->
         IF p <= ifh.mins THEN 0
         ELSE Max({ifh.mins} \cup {r \in 1..(2 * p) : r * r * ifh.max_nodes <= 4 * p})
    [] OTHER -> 0

CalcBlks(ifh, level, p, wcnt) ==
  LET k == SkipSize(ifh, p)
      blocks == (p + k - 1) \div k
      len == BblockBound(num_of_docs, p) + IF level >= 2 THEN wcnt ELSE 0
  IN [k       |-> k,
      blk     |-> BblockInit(static_num_of_docs, p),
      dn_blk  |-> IF k = 0 THEN 0 ELSE BblockInit(num_of_docs, blocks),
      len_blk |-> IF k = 0 THEN 0 ELSE BblockInit(len, blocks)]

\* Does posting j (from 0) of p start a block with a header, and is it the last
\* of one?
HeaderAt(j, p, k) == k > 0 /\ j % k = 0 /\ j + k < p
LastOfBlock(j, p, k) == k > 0 /\ j % k = k - 1 /\ j # p - 1
----------------------------------------------------------------------------
(* Reading an entry from its start to its end.  A reader that finds another *)
(* code than it looks for reads nonsense; it is stuck then.                 *)

Start == [t |-> 1, doc_num |-> 0, next_mjr_dn |-> 0, ok |-> TRUE, bits |-> 0, ii |-> <<>>]

\* The first posting of a block takes the header with it.
Headed(codes, s, c) ==
  IF s.t + 1 \in DOMAIN codes /\ codes[s.t].b = c.dn_blk /\ codes[s.t + 1].b = c.len_blk
  THEN [s EXCEPT !.t = s.t + 2, !.next_mjr_dn = s.doc_num + codes[s.t].x]
  ELSE [s EXCEPT !.ok = FALSE]

\* The gap and the count of a posting.  At level 1 there are no counts, and
\* count_bits is memory that was never written: junk.
ReadPosting(codes, s, level, c, last, junk) ==
  LET isgap == ~last
      t     == IF isgap THEN s.t + 1 ELSE s.t
      tf    == level >= 2
      found == /\ isgap => s.t \in DOMAIN codes /\ codes[s.t].b = c.blk
               /\ tf => t \in DOMAIN codes /\ codes[t].b = 0
      doc   == IF last THEN s.next_mjr_dn ELSE s.doc_num + codes[s.t].x
      count == IF tf THEN codes[t].x ELSE 0
      gap   == BblockLength(doc - s.doc_num, c.blk)
      cbits == IF tf THEN GammaLength(count) ELSE 0
  IN IF ~found THEN [s EXCEPT !.ok = FALSE]
     ELSE [s EXCEPT !.t = IF tf THEN t + 1 ELSE t,
                    !.doc_num = doc,
                    !.bits = @ + gap + cbits,
                    !.ii = Append(@, [doc_num |-> doc, count |-> count,
                                      bits_so_far |-> s.bits,
                                      count_bits |-> IF tf THEN cbits ELSE junk])]

\* A round of the first loop of mg_invf_rebuild (and CosineDecode), over posting j
\* (from 0).
ReadStep(codes, s, j, level, p, c, junk) ==
  LET h == IF HeaderAt(j, p, c.k) THEN Headed(codes, s, c) ELSE s
  IN IF ~s.ok \/ ~h.ok THEN [s EXCEPT !.ok = FALSE]
     ELSE ReadPosting(codes, h, level, c, LastOfBlock(j, p, c.k), junk)

ReadEntry(codes, level, p, c, junk) ==
  LET at[j \in 0..p] ==
        IF j = 0 THEN Start ELSE ReadStep(codes, at[j - 1], j - 1, level, p, c, junk)
  IN at[p]
----------------------------------------------------------------------------
(* Writing an entry.                                                        *)

Empty == [codes |-> <<>>, bits |-> 0, bits_so_far |-> 0, last_major |-> 0,
          doc_num |-> 0, ok |-> TRUE]

\* A code of x; the encoders stop the program for an x below 1.
Put(s, x, b) ==
  IF ~s.ok \/ x < 1 THEN [s EXCEPT !.ok = FALSE]
  ELSE [s EXCEPT !.codes = Append(@, [at |-> s.bits, b |-> b, x |-> x]),
                 !.bits = @ + IF b = 0 THEN GammaLength(x) ELSE BblockLength(x, b)]

\* Variant: the bits are counted from the start of the entry.
BlockStartKept(s, ii, j, k) == [s EXCEPT !.last_major = ii[j + k].doc_num]

\* After a header: where the next block begins.
BlockStart(s, ii, j, k) ==
  [s EXCEPT !.last_major = ii[j + k].doc_num, !.bits_so_far = ii[j + k + 1].bits_so_far]

\* The header of the block that begins at posting j (from 0).
PutHeader(s, ii, j, c) ==
  LET last == ii[j + c.k]
      s1 == Put(s, last.doc_num - s.last_major, c.dn_blk)
      s2 == Put(s1, last.bits_so_far + last.count_bits - s.bits_so_far, c.len_blk)
  IN BlockStart(s2, ii, j, c.k)

\* Variant: the gap of the last posting of a block is written after all.
LeftOutNever(j, p, k) == FALSE

LeftOut(j, p, k) == LastOfBlock(j, p, k)

\* A round of the second loop of mg_invf_rebuild, over posting j (from 0).
WriteStep(s, ii, j, level, c) ==
  LET p  == Len(ii)
      s1 == IF HeaderAt(j, p, c.k) THEN PutHeader(s, ii, j, c) ELSE s
      s2 == IF LeftOut(j, p, c.k) THEN s1
            ELSE Put(s1, ii[j + 1].doc_num - s1.doc_num, c.blk)
      s3 == [s2 EXCEPT !.doc_num = ii[j + 1].doc_num]
  IN IF level >= 2 THEN Put(s3, ii[j + 1].count, 0) ELSE s3

WriteEntry(ii, level, c) ==
  LET after[j \in 0..Len(ii)] ==
        IF j = 0 THEN Empty ELSE WriteStep(after[j - 1], ii, j - 1, level, c)
  IN after[Len(ii)]

\* The postings read, without the bookkeeping.
PostingsOf(ii) == [j \in DOMAIN ii |-> [doc |-> ii[j].doc_num, tf |-> ii[j].count]]
============================================================================
