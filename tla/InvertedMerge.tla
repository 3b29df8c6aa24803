---------------------------- MODULE InvertedMerge ----------------------------
(***************************************************************************)
(* mg_invf_merge (text/mg_invf_merge.c): the merge of two inverted files   *)
(* and of their dictionaries, again and again.  The dictionaries are       *)
(* merged first, and leave for each word a mark (it is in the old one, in  *)
(* the new one or in both); then the entries are, by one of two methods.   *)
(* The slow one decodes every entry and codes it anew for the new number   *)
(* of documents.  The fast one, the default, copies the bytes of entries   *)
(* that get nothing new, as long as the old index says they are, and codes *)
(* the others for the number of documents of the first build, which the    *)
(* header keeps as static_num_of_docs.                                     *)
(*                                                                         *)
(* A file is a sequence of code words (BlockCode); a position in it is the *)
(* code word it stands before, an offset a number of bytes, and the        *)
(* offsets leave out the header's length.  The two files have one          *)
(* inversion level, 1 or 2, and no skips: init_merge_invf ends the program *)
(* otherwise.                                                              *)
(***************************************************************************)
EXTENDS BlockCode, Sequences, FiniteSets, Functions

CONSTANTS
  Word,       \* the words, numbers for the sake of their order
  Texts,      \* the documents: how often each word occurs in one
  MaxBuilt,   \* bound: documents of the collection mgbuild made
  MaxNew,     \* bound: documents of a merge
  MaxMerges   \* bound: merges

ASSUME InvertedMergeAssumption ==
  /\ Word \subseteq Nat /\ IsFiniteSet(Word)
  /\ Texts \subseteq [Word -> 0 .. Shl(MaxLog) - 1]
  /\ {MaxBuilt, MaxNew, MaxMerges} \subseteq Nat \ {0}
  /\ MaxBuilt + MaxMerges * MaxNew < Shl(MaxLog)

VARIABLES
  all,          \* history: the documents, in the order of their numbers
  old, new,     \* the two collections
  fast,         \* fastMerge
  phase,        \* "idle", "lexicon" or "invf"
  term_count,   \* the words read of each dictionary, the one in hand included
  marks,        \* mergedata and the fcntlists, and with them the merged dictionary
  at,           \* where each old and new inverted file is read next
  idxAt,        \* which number of the old index oldIdxValue is
  out,          \* the merged entries and their index, its last number left out
  weigh,        \* DocWeightBuffer: what each new document's weight is summed from
  merges        \* how many merges there have been

vars == <<all, old, new, fast, phase, term_count, marks, at, idxAt, out, weigh, merges>>

----------------------------------------------------------------------------
(* Codes.                                                                  *)

GammaEncode(x) == [unary |-> FloorLog2(x) + 1,
                   binary |-> [nbits |-> FloorLog2(x), value |-> x - Shl(FloorLog2(x))]]

GammaDecode(word) == Shl(word.unary - 1) + word.binary.value

\* The bits of the code words at some places.
Bits(words, places) ==
  SumFunctionOnSet([i \in places |-> words[i].unary + words[i].binary.nbits], places)

\* Zero bits up to the end of a byte.
Padded(words) ==
  LET over == Bits(words, DOMAIN words) % 8
  IN IF over = 0 THEN words
     ELSE Append(words, [unary |-> 0, binary |-> [nbits |-> 8 - over, value |-> 0]])

\* An entry's code words: gaps, each with a count from level 2 on.
Coded(list, b, level) ==
  [k \in 1 .. level * Len(list) |->
     LET p == list[(k + level - 1) \div level]
     IN IF level = 2 /\ k % 2 = 0 THEN GammaEncode(p.tf) ELSE BblockEncode(p.gap, b)]

\* n gaps and counts read from a position on, and the position behind them and
\* the rest of their last byte.
Decoded(file, pos, n, b, level) ==
  [i \in 1 .. n |-> LET p == pos + level * (i - 1)
                    IN [gap |-> BblockDecode(file[p], b),
                        tf  |-> IF level >= 2 THEN GammaDecode(file[p + 1]) ELSE 0]]

Behind(file, pos, n, level) ==
  LET end == pos + level * n
  IN IF Bits(file, pos .. end - 1) % 8 = 0 THEN end ELSE end + 1

\* How many code words, from a position on, some bytes of a file hold.
Held(file, pos, bytes) ==
  Cardinality({i \in pos .. Len(file) : Bits(file, pos .. i) <= 8 * bytes})

----------------------------------------------------------------------------
(* Collections.                                                            *)

\* What the index of some documents lists for a word.
Index(level) == INSTANCE InvertedIndex WITH
  Words <- Word, Documents <- Texts, text <- all, outcome <- "published", index <- <<>>

InOrder(set) ==
  [i \in 1 .. Cardinality(set) |-> CHOOSE x \in set : Cardinality({y \in set : y < x}) = i - 1]

\* A dictionary's record of a word: its documents and its occurrences.
Record(docs, w) ==
  [term |-> w, fcnt |-> Cardinality({d \in DOMAIN docs : docs[d][w] > 0}),
   wcnt |-> SumFunctionOnSet([d \in DOMAIN docs |-> docs[d][w]], DOMAIN docs)]

Dictionary(docs) ==
  LET words == InOrder({w \in Word : \E d \in DOMAIN docs : docs[d][w] > 0})
  IN [i \in DOMAIN words |-> Record(docs, words[i])]

Pointers(dict) == SumFunctionOnSet([i \in DOMAIN dict |-> dict[i].fcnt], DOMAIN dict)

Gaps(list) ==
  [i \in DOMAIN list |-> [gap |-> list[i].doc - (IF i = 1 THEN 0 ELSE list[i - 1].doc),
                          tf  |-> list[i].tf]]

\* The files of the first entries.
Files(entries) ==
  LET file[i \in 0 .. Len(entries)] == IF i = 0 THEN <<>> ELSE file[i - 1] \o entries[i]
  IN file

\* The collection mgbuild, or the first phase of mgmerge, makes of documents.
Build(docs, level) ==
  LET N    == Len(docs)
      dict == Dictionary(docs)
      file == Files([i \in DOMAIN dict |->
                       Padded(Coded(Gaps(Index(level)!Postings(docs, dict[i].term)),
                                    BblockInit(N, dict[i].fcnt), level))])
  IN [level |-> level, nDocs |-> N, static |-> N, dict |-> dict, ptrs |-> Pointers(dict),
      invf |-> file[Len(dict)],
      idx |-> [i \in 1 .. Len(dict) + 1 |-> Bits(file[i - 1], DOMAIN file[i - 1]) \div 8]]

Collections(max) == UNION {[1 .. n -> Texts] : n \in 1 .. max}

Nothing == [words |-> <<>>, idx |-> <<>>]

Init ==
  /\ all \in Collections(MaxBuilt)
  /\ \E level \in {1, 2} : old = Build(all, level)
  /\ new = old
  /\ fast = TRUE
  /\ phase = "idle"
  /\ term_count = [old |-> 0, new |-> 0]
  /\ marks = <<>>
  /\ at = [old |-> 1, new |-> 1]
  /\ idxAt = 1
  /\ out = Nothing
  /\ weigh = <<>>
  /\ merges = 0

----------------------------------------------------------------------------
(* A merge.                                                                *)

\* init_merge_invf, up to the first words and the first number of the old index.
Begin(docs) ==
  /\ phase = "idle"
  /\ merges < MaxMerges
  /\ new' = Build(docs, old.level)
  /\ all' = all \o docs
  /\ fast' \in BOOLEAN
  /\ phase' = "lexicon"
  /\ term_count' = [old |-> 1, new |-> 1]
  /\ marks' = <<>>
  /\ at' = [old |-> 1, new |-> 1]
  /\ idxAt' = 1
  /\ out' = Nothing
  /\ weigh' = [d \in DOMAIN docs |-> <<>>]
  /\ UNCHANGED <<old, merges>>

DoneOld == term_count.old > Len(old.dict)
DoneNew == term_count.new > Len(new.dict)

\* One round of the loop over the dictionaries.
MergeTerm ==
  LET o == old.dict[term_count.old]
      n == new.dict[term_count.new]
      type == CASE DoneOld -> "NEW"
                [] ~DoneOld /\ (DoneNew \/ o.term < n.term) -> "OLD"
                [] ~DoneOld /\ ~DoneNew /\ o.term = n.term -> "MERGE"
                [] ~DoneOld /\ ~DoneNew /\ o.term > n.term -> "NEW"
  IN /\ phase = "lexicon"
     /\ ~(DoneOld /\ DoneNew)
     /\ marks' = Append(marks,
          [type |-> type,
           term |-> IF type = "NEW" THEN n.term ELSE o.term,
           fcntOld |-> IF type = "NEW" THEN 0 ELSE o.fcnt,
           fcntNew |-> IF type = "OLD" THEN 0 ELSE n.fcnt,
           wcnt |-> (IF type = "NEW" THEN 0 ELSE o.wcnt) + (IF type = "OLD" THEN 0 ELSE n.wcnt)])
     /\ term_count' = [old |-> term_count.old + (IF type = "NEW" THEN 0 ELSE 1),
                       new |-> term_count.new + (IF type = "OLD" THEN 0 ELSE 1)]
     /\ UNCHANGED <<all, old, new, fast, phase, at, idxAt, out, weigh, merges>>

LexiconRead ==
  /\ phase = "lexicon"
  /\ DoneOld /\ DoneNew
  /\ phase' = "invf"
  /\ UNCHANGED <<all, old, new, fast, term_count, marks, at, idxAt, out, weigh, merges>>

\* Variant: the new documents' numbers are counted from the last old document.
OffsetWhole(last) == old.nDocs

\* What the first new document's number grows by.
Offset(last) == old.nDocs - last

\* The document n gaps lead to.
UpTo(list, n) == SumFunctionOnSet([i \in 1 .. n |-> list[i].gap], 1 .. n)

LastOf(list) == UpTo(list, Len(list))

\* The bytes put out so far: where the next entry starts.
BytesOut == Bits(out.words, DOMAIN out.words) \div 8

Put(words) == out' = [words |-> out.words \o words, idx |-> Append(out.idx, BytesOut)]

\* procEntry_slow: the old part of an entry, then the new one, decoded by their own
\* parameters and coded by the merged one, and then the padding.
EntrySlow(mark, oldN, mergeN) ==
  LET level == old.level
      fcnt  == mark.fcntOld + mark.fcntNew
      oldList == Decoded(old.invf, at.old, mark.fcntOld, BblockInit(oldN, mark.fcntOld), level)
      newList == Decoded(new.invf, at.new, mark.fcntNew, BblockInit(new.nDocs, mark.fcntNew), level)
      last    == LastOf(oldList)
      shifted == [i \in DOMAIN newList |->
                    IF i = 1 THEN [newList[i] EXCEPT !.gap = @ + Offset(last)] ELSE newList[i]]
      doc(i)   == last + UpTo(shifted, i) - old.nDocs
      weighed  == IF level = 1 THEN {} ELSE DOMAIN shifted
      parts(d) == InOrder({i \in weighed : doc(i) = d})
  IN /\ Put(Padded(Coded(oldList \o shifted, BblockInit(mergeN, fcnt), level)))
     /\ at' = [old |-> Behind(old.invf, at.old, mark.fcntOld, level),
               new |-> Behind(new.invf, at.new, mark.fcntNew, level)]
     /\ weigh' = [d \in DOMAIN weigh \cup {doc(i) : i \in weighed} |->
                    (IF d \in DOMAIN weigh THEN weigh[d] ELSE <<>>)
                    \o [k \in DOMAIN parts(d) |-> [tf |-> shifted[parts(d)[k]].tf, fcnt |-> fcnt]]]

\* procEntry_fast: an entry of the old file alone is copied, by the length between
\* two numbers of the old index.
EntryCopied ==
  LET len  == old.idx[idxAt + 1] - old.idx[idxAt]
      held == Held(old.invf, at.old, len)
  IN /\ Put(SubSeq(old.invf, at.old, at.old + held - 1))
     /\ at' = [at EXCEPT !.old = @ + held]
     /\ UNCHANGED weigh

\* Variant: the old index is read for the entries that are copied only.
NextIdxCopied(mark) == IF fast /\ mark.type = "OLD" THEN idxAt + 1 ELSE idxAt

\* The fast method reads a number of the old index for each word of the old file.
NextIdx(mark) == IF fast /\ mark.type # "NEW" THEN idxAt + 1 ELSE idxAt

ProcessEntry ==
  LET mark == marks[Len(out.idx) + 1]
  IN /\ phase = "invf"
     /\ Len(out.idx) < Len(marks)
     /\ idxAt' = NextIdx(mark)
     /\ \/ fast /\ mark.type = "OLD" /\ EntryCopied
        \/ fast /\ mark.type # "OLD" /\ EntrySlow(mark, old.static, old.static)
        \/ ~fast /\ EntrySlow(mark, old.static, old.nDocs + new.nDocs)
     /\ UNCHANGED <<all, old, new, fast, phase, term_count, marks, merges>>

\* Variant: the header always keeps the number of documents of the first build.
MergedStaticKept == old.static

MergedStatic == IF fast THEN old.static ELSE old.nDocs + new.nDocs

\* done_merge_invf: the headers.  The merged collection is the next merge's old one.
Done ==
  /\ phase = "invf"
  /\ Len(out.idx) = Len(marks)
  /\ old' = [level |-> old.level, nDocs |-> old.nDocs + new.nDocs, static |-> MergedStatic,
             dict |-> [i \in DOMAIN marks |-> [term |-> marks[i].term,
                                               fcnt |-> marks[i].fcntOld + marks[i].fcntNew,
                                               wcnt |-> marks[i].wcnt]],
             ptrs |-> old.ptrs + new.ptrs,
             invf |-> out.words,
             idx |-> Append(out.idx, BytesOut)]
  /\ phase' = "idle"
  /\ merges' = merges + 1
  /\ UNCHANGED <<all, new, fast, term_count, marks, at, idxAt, out, weigh>>

Next ==
  \/ \E docs \in Collections(MaxNew) : Begin(docs)
  \/ MergeTerm \/ LexiconRead \/ ProcessEntry \/ Done

Spec == Init /\ [][Next]_vars

----------------------------------------------------------------------------
(* Properties.                                                             *)

\* The dictionaries, files and buffers stay within their bounds: no read runs past
\* the end of a file, and DocWeightBuffer is written for new documents only.
TypeOK ==
  /\ phase \in {"idle", "lexicon", "invf"} /\ fast \in BOOLEAN
  /\ term_count.old \in 0 .. Len(old.dict) + 1 \/ phase = "idle"
  /\ term_count.new \in 0 .. Len(new.dict) + 1
  /\ Len(marks) <= Cardinality(Word)
  /\ phase # "idle" => /\ at.old \in 1 .. Len(old.invf) + 1
                       /\ idxAt \in 1 .. Len(old.idx)
                       /\ DOMAIN weigh = 1 .. new.nDocs
  /\ at.new \in 1 .. Len(new.invf) + 1
  /\ merges \in 0 .. MaxMerges

\* How many of the words up to the one in hand an old or new dictionary has.
Had(absent) == Cardinality({i \in 1 .. Len(out.idx) : marks[i].type # absent})

\* Before each entry, whichever of them were copied and which decoded, both files
\* are read from the place their index gives for the next word they have, and the
\* old index, where it is read at all, has been read up to there.
InStep ==
  phase = "invf" =>
    /\ Bits(old.invf, 1 .. at.old - 1) = 8 * old.idx[Had("NEW") + 1]
    /\ Bits(new.invf, 1 .. at.new - 1) = 8 * new.idx[Had("OLD") + 1]
    /\ fast => idxAt = Had("NEW") + 1

\* The entry of the i-th word, found and decoded as a query does: from the offset in
\* the index, by the static number of documents of the header.
Entry(i) ==
  LET start == Held(old.invf, 1, old.idx[i]) + 1
      fcnt  == old.dict[i].fcnt
      b     == BblockInit(old.static, fcnt)
      list  == Decoded(old.invf, start, fcnt, b, old.level)
  IN [list  |-> [j \in DOMAIN list |-> [doc |-> UpTo(list, j), tf |-> list[j].tf]],
      exact |-> \A j \in DOMAIN list :
                  LET word == old.invf[start + old.level * (j - 1)].binary
                  IN word.nbits = BinaryDecode(word, b).used]

\* After any number of merges, fast and slow in any order, the dictionary counts
\* what all documents hold, every entry decodes to the documents an inverted file
\* built of them all would list, old before new, and the weights of the new
\* documents were summed from each of their words and its merged count.
MergedAnswers ==
  phase = "idle" =>
    /\ old.nDocs = Len(all)
    /\ old.dict = Dictionary(all)
    /\ old.ptrs = Pointers(old.dict)
    /\ \A i \in DOMAIN old.dict :
         /\ Entry(i).list = Index(old.level)!Postings(all, old.dict[i].term)
         /\ Entry(i).exact
    /\ old.level = 2 => \A d \in DOMAIN weigh :
         LET text == all[Len(all) - Len(weigh) + d]
             held == InOrder({i \in DOMAIN old.dict : text[old.dict[i].term] > 0})
         IN weigh[d] = [k \in DOMAIN held |-> [tf   |-> text[old.dict[held[k]].term],
                                               fcnt |-> old.dict[held[k]].fcnt]]
==============================================================================
