----------------------------- MODULE Inversion -----------------------------
(***************************************************************************)
(* The two-pass construction of an inverted file (text/ivf.pass1.c and     *)
(* text/ivf.pass2.c).                                                      *)
(*                                                                         *)
(* Pass 1 reads the collection, counts every word and cuts the collection  *)
(* into chunks: after a document that brings the pointers of a chunk to    *)
(* `checknum` it works out the memory the chunk will need, and closes the  *)
(* chunk when that nears invf_buffer_size.  A chunk's description is the   *)
(* number of its documents, the memory it needs and the counts of every    *)
(* word met so far, in order of first occurrence.                          *)
(*                                                                         *)
(* Pass 2 reads the same collection again.  LoadCounts lays out a region   *)
(* of a memory buffer for every word of the next chunk, the documents are  *)
(* coded into these regions, and a finished chunk is dumped to a scratch   *)
(* file or, with all the dumped ones, merged into the inverted file, where *)
(* every word has a region too.  At the end the file is compacted in       *)
(* place.                                                                  *)
(*                                                                         *)
(* A word is its rank in the dictionary.  At level 3 a "document" is a     *)
(* paragraph: process_doc is called once for each.                         *)
(***************************************************************************)
EXTENDS BlockCode, Sequences, FiniteSets, SequencesExt

CONSTANTS Words,        \* ranks of the words documents are made of
          Documents,    \* the documents: how often each word occurs in one
          MaxDocs,      \* bound: documents of a collection
          BufferSizes,  \* values of invf_buffer_size (-m), in bytes
          ChunkLimits   \* values of ChunkLimit (-c)

ASSUME WordsAssumption == Words \subseteq Nat /\ IsFiniteSet(Words)
ASSUME DocumentsAssumption == Documents \subseteq [Words -> Nat]
\* A document's counts are operands of the gamma code.
ASSUME CountsAssumption == \A d \in Documents : \A w \in Words : d[w] < Shl(MaxLog)
ASSUME MaxDocsAssumption == MaxDocs \in 1..(Shl(MaxLog) - 1)
\* Below 15 bytes pass 1 would divide by a memory requirement of 0.
ASSUME OptionsAssumption ==
         BufferSizes \subseteq (Nat \ 0..14) /\ ChunkLimits \subseteq Nat

VARIABLES
  InvfLevel, invf_buffer_size, ChunkLimit,   \* command line options
  stage,       \* "pass1", "built", "pass2", "merge", "done" or "failed"
  text,        \* the collection, as far as it was read in pass 1
  totals,      \* documents and occurrences of every word after each document
  cuts,        \* documents read at the end of every chunk (totals and cuts are
               \* history: only the properties read them)
  ent,         \* pass 1: hash_rec of every word
  first_occr,  \* pass 1: the words in order of first occurrence
  lcallnum,    \* pass 1: documents of the chunk
  ptrcnt,      \* pass 1: pointers of the chunk, first occurrences left out
  checknum,    \* pass 1: pointers at which memory is looked at
  max_mem,     \* pass 1: memory the largest chunk needs
  chunk_file,  \* the .invf.chunk file
  at,          \* pass 2: chunk descriptions read
  callnum,     \* pass 2: documents read
  docs_left, next_docs_left,
  BufToUse, MemBufSize,
  wr,          \* pass 2: word_rec, lg_bs and the buffer region of every word
  chunk_data,  \* pass 2: what is kept of every chunk not merged yet
  chunks,      \* pass 2: the scratch file of dumped chunks
  Disk_pos, disk_chunks,
  isr,         \* pass 2: invf_state_rec and the file region of every word
  no_of_ptrs,
  invf_idx     \* the .invf.idx file

options == <<InvfLevel, invf_buffer_size, ChunkLimit>>
pass1 == <<text, totals, cuts, ent, first_occr, lcallnum, ptrcnt, checknum, max_mem,
           chunk_file>>
memory == <<at, callnum, docs_left, next_docs_left, BufToUse, MemBufSize, wr,
            no_of_ptrs>>
disk == <<chunk_data, chunks, Disk_pos, disk_chunks, isr>>
vars == <<options, stage, pass1, memory, disk, invf_idx>>

NoCounts == [wcnt |-> 0, fcnt |-> 0, lwcnt |-> 0, lfcnt |-> 0]
Bytes(bits) == (bits + 7) \div 8
----------------------------------------------------------------------------
(* Pass 1.                                                                 *)

\* The ten-percent mark (a third less of it at level 3) of the first check.
FirstCheck ==
  IF InvfLevel = 3 THEN invf_buffer_size \div 15 ELSE invf_buffer_size \div 10

WordsOf(d) == {w \in Words : d[w] > 0}
Known == Range(first_occr)

\* The orders in which the words of d not met before may come.
FirstOccurrences(d) ==
  LET fresh == WordsOf(d) \ Known IN Bijection(1..Cardinality(fresh), fresh)

Counted(d) ==
  [w \in Words |->
     IF d[w] = 0 THEN ent[w]
     ELSE [wcnt  |-> ent[w].wcnt + d[w],  fcnt  |-> ent[w].fcnt + 1,
           lwcnt |-> ent[w].lwcnt + d[w], lfcnt |-> ent[w].lfcnt + 1]]

\* Bits that a word with p postings and wcnt occurrences needs in a chunk of N
\* documents.
\* Variant: a bit for every posting, not for every occurrence.
RegionLengthOfPostings(N, p, wcnt) ==
  (IF p = 0 THEN 0 ELSE BblockBound(N, p)) + (IF InvfLevel >= 2 THEN p ELSE 0)

RegionLength(N, p, wcnt) ==
  (IF p = 0 THEN 0 ELSE BblockBound(N, p)) + (IF InvfLevel >= 2 THEN wcnt ELSE 0)

mem_reqd(e, N) ==
  Bytes(SumFunctionOnSet([w \in Words |-> RegionLength(N, e[w].lfcnt, e[w].lwcnt)],
                         Words))

\* What dump_dict writes: lfcnt is left out where lwcnt gives it away.
Description(e, words, N, mem) ==
  [docs   |-> N, mem |-> mem,
   counts |-> [i \in DOMAIN words |->
                 LET h == e[words[i]]
                 IN IF h.lwcnt >= 2 THEN <<h.lwcnt, h.lfcnt>> ELSE <<h.lwcnt>>]]

\* Variant: the need of the last chunk and not the largest.
LastNeed(mem) == mem

LargestNeed(mem) == IF mem > max_mem THEN mem ELSE max_mem

dump_dict(e, words, N, mem) ==
  /\ chunk_file' = Append(chunk_file, Description(e, words, N, mem))
  /\ cuts' = Append(cuts, Len(text'))
  /\ max_mem' = LargestNeed(mem)
  /\ ent' = [w \in Words |-> [e[w] EXCEPT !.lwcnt = 0, !.lfcnt = 0]]
  /\ lcallnum' = 0
  /\ ptrcnt' = 0

\* The next check comes after 3/4 of the pointers that should still fit.
NextCheck(mem, ptrs) ==
  LET c == checknum
             + (3 * checknum * (invf_buffer_size - mem)) \div (4 * mem)
  IN IF c <= ptrs THEN ptrs + 1 ELSE c

\* process_doc of pass 1.
ProcessDoc1(d, fresh) ==
  LET e     == Counted(d)
      words == first_occr \o fresh
      ptrs  == ptrcnt + Cardinality(WordsOf(d) \cap Known)
      N     == lcallnum + 1
      mem   == mem_reqd(e, N)
      full  == mem * 1000 >= invf_buffer_size * 999
  IN /\ stage = "pass1"
     /\ Len(text) < MaxDocs
     /\ text' = Append(text, d)
     /\ totals' = Append(totals, [w \in Words |-> [f |-> e[w].fcnt, w |-> e[w].wcnt]])
     /\ first_occr' = words
     /\ \/ /\ ptrs >= checknum
           /\ full
           /\ dump_dict(e, words, N, mem)
           /\ checknum' = FirstCheck
        \/ /\ ~(ptrs >= checknum /\ full)
           /\ ent' = e
           /\ lcallnum' = N
           /\ ptrcnt' = ptrs
           /\ checknum' = IF ptrs >= checknum THEN NextCheck(mem, ptrs) ELSE checknum
           /\ UNCHANGED <<max_mem, chunk_file, cuts>>
     /\ UNCHANGED <<options, stage, memory, disk, invf_idx>>

\* done_ivf_1: the rest is a chunk too.  Shrinking an empty hash table to no
\* words at all gives a null pointer, and the build stops.
Done1 ==
  /\ stage = "pass1"
  /\ text' = text
  /\ \/ /\ lcallnum > 0
        /\ dump_dict(ent, first_occr, lcallnum, mem_reqd(ent, lcallnum))
     \/ /\ lcallnum = 0
        /\ UNCHANGED <<chunk_file, cuts, max_mem, ent, lcallnum, ptrcnt>>
  /\ stage' = IF first_occr = <<>> THEN "failed" ELSE "built"
  /\ UNCHANGED <<options, totals, first_occr, checknum, memory, disk, invf_idx>>
----------------------------------------------------------------------------
(* Pass 2: chunks in memory.                                               *)

Vocabulary == Known

\* Variant: the last description is taken for the end of the file.
DocsOfChunkEarly(n) == IF n + 1 < Len(chunk_file) THEN chunk_file[n + 1].docs ELSE 0

\* The number of documents of the chunk after the first n; 0 ends the file.
DocsOfChunk(n) == IF n < Len(chunk_file) THEN chunk_file[n + 1].docs ELSE 0

\* Variant: no room for the counts.
DiskRegionOfGaps(w) == 8 * Bytes(BblockBoundB(Len(text), ent[w].fcnt, isr[w].B))

\* init_ivf_2: a region of the file for every word, after 8 bytes of magic
\* number and a gap of 200.
DiskRegion(w) ==
  8 * Bytes(BblockBoundB(Len(text), ent[w].fcnt, isr[w].B)
              + IF InvfLevel >= 2 THEN GammaBound(ent[w].wcnt, ent[w].fcnt) ELSE 0)

\* Variant: no gap after the magic number.
DiskStartNoGap(w) ==
  8 * 8 + SumFunctionOnSet([v \in Vocabulary |-> DiskRegion(v)],
                           {v \in Vocabulary : v < w})

DiskStart(w) ==
  8 * 208 + SumFunctionOnSet([v \in Vocabulary |-> DiskRegion(v)],
                             {v \in Vocabulary : v < w})

init_ivf_2 ==
  /\ stage = "built"
  /\ stage' = "pass2"
  /\ next_docs_left' = DocsOfChunk(0)
  /\ isr' = [w \in Words |->
              [Disk_Last |-> 0, used |-> 0, codes |-> <<>>,
               B |-> IF w \in Vocabulary THEN BblockInit(Len(text), ent[w].fcnt)
                     ELSE 1]]
  /\ UNCHANGED <<options, pass1, at, callnum, docs_left, BufToUse, MemBufSize, wr,
                 no_of_ptrs, chunk_data, chunks, Disk_pos, disk_chunks, invf_idx>>

\* occur_to_lexical and the decoding of a chunk's counts: the counts come in
\* order of first occurrence, for the words met by then.
CountsIn(c, w) ==
  IF \E i \in DOMAIN c.counts : first_occr[i] = w
  THEN LET code == c.counts[CHOOSE i \in DOMAIN c.counts : first_occr[i] = w]
       IN [wcnt |-> code[1], fcnt |-> IF code[1] >= 2 THEN code[2] ELSE code[1]]
  ELSE [wcnt |-> 0, fcnt |-> 0]

\* The region of the memory buffer a word gets for chunk c.
Region(c, w) ==
  LET n == CountsIn(c, w)
  IN IF n.wcnt = 0 THEN 0 ELSE RegionLength(c.docs, n.fcnt, n.wcnt)

RegionStart(c, w) ==
  SumFunctionOnSet([v \in Words |-> Region(c, v)], {v \in Words : v < w})

\* What the chunk state file keeps: the distance to the region of the previous
\* word of the chunk.
Delta(c, w) ==
  LET before == {v \in Words : v < w /\ CountsIn(c, v).fcnt > 0}
  IN RegionStart(c, w) - IF before = {} THEN 0 ELSE RegionStart(c, Max(before))

LoadCounts ==
  LET c == chunk_file[at + 1]
      bits == SumFunctionOnSet([w \in Words |-> Region(c, w)], Words)
  IN /\ stage = "pass2"
     /\ docs_left = 0
     /\ callnum < Len(text)
     /\ MemBufSize' = IF MemBufSize > 0 THEN MemBufSize
                      ELSE Max({8 * Cardinality(Vocabulary), max_mem})
     /\ \/ /\ next_docs_left = 0
           /\ stage' = "failed"
           /\ UNCHANGED <<at, docs_left, next_docs_left, BufToUse, wr, chunk_data>>
        \/ /\ next_docs_left > 0
           /\ at' = at + 1
           /\ docs_left' = next_docs_left
           /\ next_docs_left' = DocsOfChunk(at + 1)
           /\ BufToUse' = c.mem
           /\ wr' = [w \in Words |->
                      LET n == CountsIn(c, w)
                      IN [start |-> RegionStart(c, w), used |-> 0, codes |-> <<>>,
                          last |-> callnum,
                          b |-> IF n.fcnt = 0 THEN 1
                                ELSE Shl(FloorLog2(BblockInitW(next_docs_left, n.fcnt)))]]
           /\ chunk_data' =
                Append(chunk_data,
                       [start_doc |-> callnum, N |-> next_docs_left, disk_pos |-> 0,
                        params |-> [w \in Words |->
                                      [p |-> CountsIn(c, w).fcnt, delta |-> Delta(c, w)]]])
           /\ stage' = IF Bytes(bits) > c.mem THEN "failed" ELSE stage
     /\ UNCHANGED <<options, pass1, callnum, no_of_ptrs, chunks, Disk_pos,
                    disk_chunks, isr, invf_idx>>

\* process_doc of pass 2: a pointer and a unary count for every word, bit by
\* bit wherever the word's region has got to.
ProcessDoc2 ==
  LET d == text[callnum + 1]
      coded(w) ==
        LET gap == callnum + 1 - wr[w].last
            tf  == IF InvfLevel >= 2 THEN d[w] ELSE 0
        IN [start |-> wr[w].start,
            last  |-> callnum + 1,
            b     |-> wr[w].b,
            used  |-> wr[w].used + BblockLength(gap, wr[w].b) + tf,
            codes |-> Append(wr[w].codes,
                             [gap |-> BblockEncode(gap, wr[w].b), tf |-> tf])]
  IN /\ stage = "pass2"
     /\ docs_left > 0
     /\ callnum < Len(text)
     /\ wr' = [w \in Words |-> IF d[w] > 0 THEN coded(w) ELSE wr[w]]
     /\ callnum' = callnum + 1
     /\ no_of_ptrs' = no_of_ptrs + Cardinality(WordsOf(d))
     /\ docs_left' = docs_left - 1
     /\ stage' = IF docs_left = 1 THEN "merge" ELSE "pass2"
     /\ UNCHANGED <<options, pass1, at, next_docs_left, BufToUse, MemBufSize, disk,
                    invf_idx>>
----------------------------------------------------------------------------
(* Pass 2: chunks on disk.                                                 *)

\* The coded regions of the memory buffer, by their place in it.
Image == {[start |-> wr[w].start, codes |-> wr[w].codes] :
            w \in {v \in Words : wr[v].codes # <<>>}}

\* Variant: the limit is noticed a chunk late.
MergeLate == disk_chunks > ChunkLimit \/ next_docs_left = 0

\* MergeIn calls DiskMerge after the last chunk and when the scratch file holds
\* ChunkLimit chunks, and DumpChunk otherwise.
MergeNow == disk_chunks = ChunkLimit \/ next_docs_left = 0

\* Dumping a chunk overwrites what the scratch file held there.
DumpChunk ==
  LET end == Disk_pos + BufToUse
  IN /\ stage = "merge"
     /\ ~MergeNow
     /\ chunk_data' = [chunk_data EXCEPT ![Len(chunk_data)].disk_pos = Disk_pos]
     /\ chunks' = {f \in chunks : f.pos + f.len <= Disk_pos \/ f.pos >= end}
                    \cup {[pos |-> Disk_pos, len |-> BufToUse, image |-> Image]}
     /\ Disk_pos' = end
     /\ disk_chunks' = disk_chunks + 1
     /\ stage' = "pass2"
     /\ UNCHANGED <<options, pass1, memory, isr, invf_idx>>

\* Variant: the distance of w itself is left out.
ChunkPtrBefore(j, w) ==
  SumFunctionOnSet([v \in Words |-> chunk_data[j].params[v].delta],
                   {v \in Words : v < w /\ chunk_data[j].params[v].p > 0})

\* Where chunk j has the codes of w, from the distances kept of it.
ChunkPtr(j, w) ==
  SumFunctionOnSet([v \in Words |-> chunk_data[j].params[v].delta],
                   {v \in Words : v <= w /\ chunk_data[j].params[v].p > 0})

\* The codes found there: the last chunk is still in memory.
CodesAt(j, ptr) ==
  LET image == IF j = Len(chunk_data) THEN Image
               ELSE (CHOOSE f \in chunks : f.pos = chunk_data[j].disk_pos).image
  IN (CHOOSE r \in image : r.start = ptr).codes

\* Variant: the first gap of a chunk is left as if the entry began there.
FromStart(start_doc, s) == start_doc

\* What the first gap of a chunk grows by: it counts from the last document of
\* the entry s, and not from the start of the chunk.
Rebased(start_doc, s) == start_doc - s.Disk_Last

\* The entry s of word w goes on with the p pointers of chunk j, recoded.
Extended(s, j, w) ==
  LET c == chunk_data[j]
      p == c.params[w].p
      b == Shl(FloorLog2(BblockInitW(c.N, p)))
      in == CodesAt(j, ChunkPtr(j, w))
      x == [k \in 1..p |-> BblockDecode(in[k].gap, b)
                             + IF k = 1 THEN Rebased(c.start_doc, s) ELSE 0]
      bits == [k \in 1..p |-> BblockLength(x[k], s.B)
                                + IF InvfLevel >= 2 THEN GammaLength(in[k].tf) ELSE 0]
  IN IF p = 0 THEN s
     ELSE [s EXCEPT !.Disk_Last = @ + SumFunctionOnSet(x, 1..p),
                    !.used      = @ + SumFunctionOnSet(bits, 1..p),
                    !.codes     = @ \o [k \in 1..p |->
                                         [gap |-> BblockEncode(x[k], s.B),
                                          tf  |-> in[k].tf]]]

\* Variant: the chunk that is still in memory is forgotten.
DumpedChunks == disk_chunks

\* How many chunks a merge reads.
MergedChunks == Len(chunk_data)

\* The entry of w after the first n of them.
MergedEntry(w, n) ==
  LET entry[j \in 0..n] ==
        IF j = 0 THEN isr[w] ELSE Extended(entry[j - 1], j, w)
  IN entry[n]

DiskMerge ==
  /\ stage = "merge"
  /\ MergeNow
  /\ isr' = [w \in Words |-> MergedEntry(w, MergedChunks)]
  /\ chunk_data' = <<>>
  /\ Disk_pos' = 0
  /\ disk_chunks' = 0
  /\ stage' = "pass2"
  /\ UNCHANGED <<options, pass1, memory, chunks, invf_idx>>

\* done_ivf_2: the regions are moved up, a byte at a time and in place, behind
\* the 8 bytes of magic number and the 160 of the header.
done_ivf_2 ==
  /\ stage = "pass2"
  /\ callnum = Len(text)
  /\ invf_idx' =
       [w \in Vocabulary |->
          168 + SumFunctionOnSet([v \in Vocabulary |-> Bytes(isr[v].used)],
                                 {v \in Vocabulary : v < w})]
  /\ stage' = "done"
  /\ UNCHANGED <<options, pass1, memory, disk>>
----------------------------------------------------------------------------
Init ==
  /\ InvfLevel \in {1, 2, 3}
  /\ invf_buffer_size \in BufferSizes
  /\ ChunkLimit \in ChunkLimits
  /\ stage = "pass1"
  /\ text = <<>> /\ totals = <<>> /\ cuts = <<>>
  /\ ent = [w \in Words |-> NoCounts]
  /\ first_occr = <<>>
  /\ lcallnum = 0 /\ ptrcnt = 0 /\ max_mem = 0
  /\ checknum = FirstCheck
  /\ chunk_file = <<>>
  /\ at = 0 /\ callnum = 0 /\ docs_left = 0 /\ next_docs_left = 0
  /\ BufToUse = 0 /\ MemBufSize = 0
  /\ wr = [w \in Words |->
             [start |-> 0, used |-> 0, codes |-> <<>>, last |-> 0, b |-> 1]]
  /\ chunk_data = <<>> /\ chunks = {} /\ Disk_pos = 0 /\ disk_chunks = 0
  /\ isr = [w \in Words |-> [Disk_Last |-> 0, used |-> 0, codes |-> <<>>, B |-> 1]]
  /\ no_of_ptrs = 0
  /\ invf_idx = <<>>

Pass1 == \E d \in Documents : \E fresh \in FirstOccurrences(d) : ProcessDoc1(d, fresh)

Pass2 ==
  init_ivf_2 \/ LoadCounts \/ ProcessDoc2 \/ DumpChunk \/ DiskMerge \/ done_ivf_2

Next == Pass1 \/ Done1 \/ Pass2

\* The input ends, and pass 2 runs on.
Fairness == WF_vars(Done1) /\ WF_vars(Pass2)

Spec == Init /\ [][Next]_vars /\ Fairness
----------------------------------------------------------------------------
(* Properties.                                                             *)

TypeOK ==
  /\ InvfLevel \in {1, 2, 3}
  /\ stage \in {"pass1", "built", "pass2", "merge", "done", "failed"}
  /\ text \in Seq([Words -> Nat]) /\ Len(text) <= MaxDocs
  /\ ent \in [Words -> [wcnt : Nat, fcnt : Nat, lwcnt : Nat, lfcnt : Nat]]
  /\ first_occr \in Seq(Words)
  /\ lcallnum \in 0..MaxDocs /\ ptrcnt \in Nat /\ checknum \in Nat
  /\ at \in 0..Len(chunk_file) /\ callnum \in 0..Len(text)
  /\ docs_left \in 0..MaxDocs /\ next_docs_left \in 0..MaxDocs
  /\ \A w \in Words : /\ wr[w].used \in Nat /\ wr[w].last \in 0..callnum
                      /\ wr[w].b \in 1..MaxDocs
  /\ disk_chunks \in 0..ChunkLimit

\* Pass 2 codes a chunk into memory regions that were laid out from counts made
\* in pass 1, and never checks for space (ivf.pass2.c:809-828): no word's codes
\* ever run into the next word's region, wherever the chunks were cut.
NoOverrun ==
  at > 0 => \A w \in Words : wr[w].used <= Region(chunk_file[at], w)

\* The buffer is allocated once, from the largest need noted at the end of
\* pass 1 (ivf.pass2.c:493-501): every chunk and all its regions fit in it, and
\* neither FatalError of LoadCounts is ever reached.
BufferHolds ==
  /\ BufToUse <= MemBufSize
  /\ at > 0 => \A w \in Words : wr[w].start + wr[w].used <= 8 * BufToUse
  /\ stage = "failed" => Vocabulary = {}

\* Pass 2 asks for a chunk whenever the last one is used up and documents are
\* left (ivf.pass2.c:506-508, a FatalError otherwise): pass 1 has
\* then described one, the documents after its last full chunk included.
NextChunkKnown ==
  stage = "pass2" /\ docs_left = 0 /\ callnum < Len(text) => next_docs_left > 0

\* DiskMerge appends to a word's region of the .invf file without looking at
\* its end (ivf.pass2.c:646-704): however the collection was cut into chunks and
\* these into merges, the entry stays in its region.
DiskFits ==
  stage \notin {"pass1", "built", "failed"} =>
    \A w \in Vocabulary : isr[w].used <= DiskRegion(w)

\* done_ivf_2 reads and writes the same file (ivf.pass2.c:976-1012): it never
\* writes where it has still to read.
CompactionSafe ==
  stage = "done" => \A w \in Vocabulary : 8 * invf_idx[w] <= DiskStart(w)

\* chunk_data has ChunkLimit + 2 places (ivf.pass2.c:400), and a dumped chunk is
\* whole in the scratch file until it is merged.
DumpedKept ==
  /\ Len(chunk_data) <= ChunkLimit + 1
  /\ \A j \in 1..disk_chunks : \A w \in Words :
       chunk_data[j].params[w].p > 0 =>
         \E f \in chunks : /\ f.pos = chunk_data[j].disk_pos
                           /\ \E r \in f.image :
                                /\ r.start = ChunkPtr(j, w)
                                /\ Len(r.codes) = chunk_data[j].params[w].p

\* What a reader decodes of codes whose gaps count from document s.
Decoded(codes, s, B) ==
  LET doc[k \in 0..Len(codes)] ==
        IF k = 0 THEN s ELSE doc[k - 1] + BblockDecode(codes[k].gap, B)
  IN [k \in DOMAIN codes |-> [doc |-> doc[k], tf |-> codes[k].tf]]

Entry(w) == Decoded(isr[w].codes, 0, isr[w].B)

Abstract == INSTANCE InvertedIndex WITH
  level   <- InvfLevel,
  outcome <- CASE stage = "done" -> "published"
               [] stage = "failed" -> "abandoned"
               [] OTHER -> "building",
  index   <- IF stage = "done" THEN [w \in Vocabulary |-> Entry(w)] ELSE <<>>

\* The two passes implement InvertedIndex: the inverted file that comes out
\* lists exactly the documents and counts of the collection, wherever its
\* chunks were cut, dumped and merged.
ImplementsIndex == Abstract!Spec

\* Pass 2 gets through the chunks pass 1 described: it neither waits for a chunk
\* that does not come nor stops at a fatal error over a collection with words.
BuildEnds == <>(stage = "done" \/ (stage = "failed" /\ Vocabulary = {}))

\* The codes of w in the j-th chunk kept: in memory, or on the scratch file where
\* the distances kept lead.
CodesHeld(j, w) ==
  IF j > disk_chunks THEN wr[w].codes
  ELSE IF chunk_data[j].params[w].p = 0 THEN <<>>
  ELSE LET image == (CHOOSE f \in chunks : f.pos = chunk_data[j].disk_pos).image
       IN (CHOOSE r \in image : r.start = ChunkPtr(j, w)).codes

\* What a merge decodes of them, by the counts kept.
ReadBack(j, w) ==
  LET c == chunk_data[j]
  IN Decoded(CodesHeld(j, w), c.start_doc, Shl(FloorLog2(BblockInitW(c.N, c.params[w].p))))

\* Where chunk j begins; behind the last one, the documents coded.
Begins(j) == IF j \in DOMAIN chunk_data THEN chunk_data[j].start_doc ELSE callnum

\* p lists the documents after s up to e that hold w, in order, with their counts.
Lists(p, w, s, e) ==
  /\ \A k \in 2..Len(p) : p[k - 1].doc < p[k].doc
  /\ Range(p) = {[doc |-> n, tf |-> IF InvfLevel >= 2 THEN text[n][w] ELSE 0] :
                   n \in {m \in (s + 1)..e : text[m][w] > 0}}

\* The inverted file has the postings before the first chunk kept, and each of the
\* chunks kept its own.
ChunksHeld ==
  stage \in {"pass2", "merge", "done"} =>
    \A w \in Words :
      /\ Lists(Entry(w), w, 0, Begins(1))
      /\ \A j \in DOMAIN chunk_data : Lists(ReadBack(j, w), w, Begins(j), Begins(j + 1))

\* The header's number of pointers is the number of postings of the file.
PointersCounted ==
  stage = "done" =>
    no_of_ptrs = SumFunctionOnSet([w \in Vocabulary |-> Len(isr[w].codes)], Vocabulary)

\* While pass 2 runs the postings of the documents coded so far are in three places,
\* the inverted file, the scratch file and the memory buffer (ivf.pass2.c:584-704,
\* 809-828): read back by what is kept of the chunks, the three have every posting
\* once and in order, and the header counts them right (ivf.pass2.c:829).
PostingsHeld == ChunksHeld /\ PointersCounted

\* mg_passes.1:214 on -m: the "maximum amount of memory to use for the pass-2
\* file inversion", and mg_passes.1:371: "chunks that use no more than a set
\* amount of memory".
MemoryLimit == max_mem <= invf_buffer_size
============================================================================
