----------------------------- MODULE BooleanGet -----------------------------
(***************************************************************************)
(* Boolean queries over an inverted file that may have skips               *)
(* (text/invf_get.c, bool_query.c, lists.c), and mg_invf_rebuild, which     *)
(* gives it other skips between queries.                                    *)
(*                                                                         *)
(* BooleanGet evaluates a query tree from its leaves.  Here it is a stack   *)
(* of lists: a term pushes one, the terms of an AND, of an OR inside an     *)
(* AND and of a difference change the list on top in place while their      *)
(* entries are read, and the list operations join the two on top.  means    *)
(* holds the set of documents that each list on the stack stands for.       *)
(*                                                                         *)
(* GetDocsOp is read step by step: its loop over the postings of a word     *)
(* jumps over a block when the next candidate lies behind it.               *)
(***************************************************************************)
EXTENDS SkippedEntry, SequencesExt

CONSTANTS Words,        \* the words queries are made of
          Entries,      \* candidate entries: documents and counts of a word
          Levels,       \* levels of inverted files
          Skips,        \* candidate headers: modes of skipping
          Junk,         \* values found in memory that was never written
          MaxRebuilds,  \* bound: runs of mg_invf_rebuild
          MaxOps        \* bound: steps of a query

ASSUME BooleanAssumption ==
  /\ "none" \notin Words
  /\ Levels \subseteq {1, 2, 3}
  /\ {MaxRebuilds, MaxOps} \subseteq Nat
\* A word is in some document and is counted there; len, by which the lengths of
\* its blocks are coded, is below 2^31 (mg_invf_rebuild.c:317-321, invf_get.c:457-461).
ASSUME EntriesAssumption ==
  \A e \in Entries :
    /\ e.docs \in Seq(1..num_of_docs) /\ e.docs # <<>>
    /\ \A m, n \in DOMAIN e.docs : m < n => e.docs[m] < e.docs[n]
    /\ DOMAIN e.counts = DOMAIN e.docs
    /\ \A n \in DOMAIN e.docs : e.counts[n] \in 1..(Shl(MaxLog) - 1)
    /\ \A len \in {BblockBound(num_of_docs, Len(e.docs)),
                    BblockBound(num_of_docs, Len(e.docs)) + Total(e.counts)} :
         len \in 0..(2 * (Shl(MaxLog) - 1) + 1)
ASSUME SkipsAssumption ==
  \A h \in Skips :
    /\ h.mode \in {0, 1, 2}
    /\ h.mode = 1 => h.k \in Nat
    /\ h.mode = 2 => h.mins \in Nat /\ h.max_nodes \in Nat

VARIABLES
  level, lists,  \* InvfLevel, and the entry every word really has
  ifh, invf,     \* header of the inverted file, and the codes of every word
  org,           \* the .ORG files: what invf held before the first rebuild
  rebuilds, ops, \* counters for the bounds
  stack, means,  \* lists of documents and the sets they stand for
  group,         \* documents of the terms of an open OR group; Closed if none
  pc, op, word, L,
  i, pos, next_start, next_doc_num, next_i, block_counter, CurrDoc, src, dest

file == <<level, lists, ifh, invf, org, rebuilds>>
query == <<ops, stack, means, group>>
get == <<op, word, L, i, pos, next_start, next_doc_num, next_i, block_counter,
         CurrDoc, src, dest>>
vars == <<file, query, pc, get>>

Closed == {0}    \* no document has the number 0
NoWord == "none"
NoSkips == [mode |-> 0]
NoFile == [ifh |-> NoSkips, invf |-> <<>>]
DocsOf(w) == ToSet(lists[w].docs)
CountOf(w) == Total(lists[w].counts)
p(w) == Len(lists[w].docs)
Blks(w) == CalcBlks(ifh, level, p(w), CountOf(w))
Parameters(h, w) == CalcBlks(h, level, p(w), CountOf(w))

\* A file as the inversion leaves it: without skips.
Plain(lv, lst, w) ==
  WriteEntry([j \in DOMAIN lst[w].docs |->
                [doc_num |-> lst[w].docs[j], count |-> lst[w].counts[j]]],
             lv, CalcBlks(NoSkips, lv, Len(lst[w].docs), 0)).codes

Init ==
  /\ level \in Levels
  /\ lists \in [Words -> Entries]
  /\ ifh = NoSkips /\ org = NoFile
  /\ invf = [w \in Words |-> Plain(level, lists, w)]
  /\ rebuilds = 0 /\ ops = 0
  /\ stack = <<>> /\ means = <<>> /\ group = Closed
  /\ pc = "idle" /\ op = "term" /\ word = NoWord /\ L = <<>>
  /\ i = 0 /\ pos = 0 /\ next_start = 0 /\ next_doc_num = 0 /\ next_i = 0
  /\ block_counter = 0 /\ CurrDoc = 0 /\ src = 0 /\ dest = 0
----------------------------------------------------------------------------
(* mg_invf_rebuild and mg_invf_dict, between queries.                       *)

\* The rebuild reads the .ORG file, or makes the file the .ORG file.
Rebuild(h, junk) ==
  LET in == IF org = NoFile THEN [ifh |-> ifh, invf |-> invf] ELSE org
      ii(w) == ReadEntry(in.invf[w], level, p(w), Parameters(in.ifh, w), junk).ii
      out == [w \in Words |-> WriteEntry(ii(w), level, Parameters(h, w))]
  IN /\ pc = "idle" /\ stack = <<>>
     /\ rebuilds < MaxRebuilds
     /\ rebuilds' = rebuilds + 1
     /\ org' = in
     /\ ifh' = h
     /\ IF \A w \in Words : out[w].ok
        THEN invf' = [w \in Words |-> out[w].codes] /\ pc' = pc
        ELSE invf' = invf /\ pc' = "stopped"
     /\ UNCHANGED <<level, lists, query, get>>

\* The .ORG files may be deleted.
DeleteOrg ==
  /\ pc = "idle" /\ stack = <<>>
  /\ org # NoFile
  /\ org' = NoFile
  /\ UNCHANGED <<level, lists, ifh, invf, rebuilds, query, pc, get>>
----------------------------------------------------------------------------
(* GetDocsOp.                                                               *)

\* It starts with an empty list for op_term and else with the one on top.
GetDocsOp(w, o, list) ==
  /\ pc = "idle"
  /\ ops < MaxOps
  /\ ops' = ops + 1
  /\ op' = o /\ word' = w /\ L' = list
  /\ i' = 0 /\ pos' = 0 /\ next_i' = 0 /\ next_start' = 0 /\ next_doc_num' = 0
  /\ block_counter' = Blks(w).k - 1
  /\ CurrDoc' = 0 /\ src' = 0 /\ dest' = 0
  /\ pc' = "loop"
  /\ UNCHANGED file

Done == i >= p(word) \/ (op # "term" /\ src >= Len(L))

\* Variant: a block whose last document is the candidate is skipped too.
BehindBlockOrAtEnd(doc) == doc >= next_doc_num

BehindBlock(doc) == doc > next_doc_num

\* Is the next candidate behind the block at hand?
MaySkip ==
  LET k == Blks(word).k
  IN /\ k > 0 /\ op # "term"
     /\ i + k < p(word)
     /\ next_doc_num >= 0
     /\ BehindBlock(L[src + 1].doc)

\* ShortCut: to the next block.
Hop ==
  /\ (pc = "loop" /\ ~Done) \/ pc = "posting"
  /\ MaySkip
  /\ i' = next_i
  /\ pos' = next_start
  /\ CurrDoc' = next_doc_num
  /\ block_counter' = Blks(word).k - 1
  /\ pc' = "header"
  /\ UNCHANGED <<file, query, op, word, L, next_start, next_doc_num, next_i, src, dest>>

CodeAt(at, b) == {c \in ToSet(invf[word]) : c.at = at /\ c.b = b}
CodeOf(at, b) == CHOOSE c \in CodeAt(at, b) : TRUE

\* Variant: the header does not count the block it heads.
SameBlock(k) == next_i

NextBlock(k) == next_i + k

\* The header of a block, at its first posting.
Header ==
  LET c == Blks(word)
      here == c.k > 0 /\ block_counter = c.k - 1
      headed == here /\ i + c.k < p(word)
      at2 == pos + BblockLength(CodeOf(pos, c.dn_blk).x, c.dn_blk)
      at3 == at2 + BblockLength(CodeOf(at2, c.len_blk).x, c.len_blk)
  IN /\ pc = "header" \/ (pc = "loop" /\ ~Done /\ ~MaySkip)
     /\ \/ /\ headed
           /\ CodeAt(pos, c.dn_blk) # {} /\ CodeAt(at2, c.len_blk) # {}
           /\ next_doc_num' = next_doc_num + CodeOf(pos, c.dn_blk).x
           /\ next_i' = NextBlock(c.k)
           /\ next_start' = at3 + CodeOf(at2, c.len_blk).x
           /\ pos' = at3
           /\ pc' = "posting"
        \/ /\ headed
           /\ CodeAt(pos, c.dn_blk) = {} \/ CodeAt(at2, c.len_blk) = {}
           /\ pc' = "lost"
           /\ UNCHANGED <<next_doc_num, next_i, next_start, pos>>
        \/ /\ ~headed
           /\ next_doc_num' = IF here THEN -1 ELSE next_doc_num
           /\ pc' = "posting"
           /\ UNCHANGED <<next_i, next_start, pos>>
     /\ UNCHANGED <<file, query, op, word, L, i, block_counter, CurrDoc, src, dest>>

\* The first candidate from s on that is not before doc.
Candidate(doc) == Min({s \in src..Len(L) : s = Len(L) \/ L[s + 1].doc >= doc})

\* What document doc does to the list.
Match(doc) ==
  LET s == Candidate(doc)
      hit == s < Len(L) /\ L[s + 1].doc = doc
      after == IF hit THEN s + 1 ELSE s
  IN CASE op = "term" ->
            /\ L' = Append(L, [doc |-> doc, or_included |-> FALSE])
            /\ UNCHANGED <<src, dest>>
       [] op = "and" ->
            /\ L' = IF hit THEN [L EXCEPT ![dest + 1] = L[s + 1]] ELSE L
            /\ dest' = IF hit THEN dest + 1 ELSE dest
            /\ src' = after
       [] op = "and_or" ->
            /\ L' = IF hit THEN [L EXCEPT ![s + 1].or_included = TRUE] ELSE L
            /\ src' = Min({t \in after..Len(L) : t = Len(L) \/ ~L[t + 1].or_included})
            /\ dest' = dest
       [] op = "diff" ->
            /\ L' = [n \in DOMAIN L |-> IF n \in (dest + 1)..(dest + s - src)
                                         THEN L[n - dest + src] ELSE L[n]]
            /\ dest' = dest + s - src
            /\ src' = after

\* Variant: the counter of the postings left in a block is not set back.
WithinBelow(n, k) == n

Within(n, k) == IF n < 0 THEN k - 1 ELSE n

Posting ==
  LET c == Blks(word)
      last == c.k > 0 /\ block_counter = 0 /\ i # p(word) - 1
      gap == CodeOf(pos, c.blk).x
      at2 == IF last THEN pos ELSE pos + BblockLength(gap, c.blk)
      doc == IF last THEN next_doc_num ELSE CurrDoc + gap
      found == /\ ~last => CodeAt(pos, c.blk) # {}
               /\ level >= 2 => CodeAt(at2, 0) # {}
  IN /\ pc = "posting"
     /\ ~MaySkip
     /\ \/ /\ found
           /\ CurrDoc' = doc
           /\ pos' = IF level >= 2 THEN at2 + GammaLength(CodeOf(at2, 0).x) ELSE at2
           /\ i' = i + 1
           /\ block_counter' = Within(block_counter - 1, c.k)
           /\ Match(doc)
           /\ pc' = "loop"
        \/ /\ ~found
           /\ pc' = "lost"
           /\ UNCHANGED <<CurrDoc, pos, i, block_counter, L, src, dest>>
     /\ UNCHANGED <<file, query, op, word, next_start, next_doc_num, next_i>>

\* The list that GetDocsOp returns.
Result ==
  CASE op = "and"  -> SubSeq(L, 1, dest)
    [] op = "diff" -> SubSeq(L, 1, dest) \o SubSeq(L, src + 1, Len(L))
    [] OTHER       -> L

Finish ==
  /\ pc = "loop" /\ Done
  /\ stack' = IF op = "term" THEN Append(stack, Result)
              ELSE Front(stack) \o <<Result>>
  /\ pc' = "idle" /\ op' = "term" /\ word' = NoWord /\ L' = <<>>
  /\ i' = 0 /\ pos' = 0 /\ next_start' = 0 /\ next_doc_num' = 0 /\ next_i' = 0
  /\ block_counter' = 0 /\ CurrDoc' = 0 /\ src' = 0 /\ dest' = 0
  /\ UNCHANGED <<file, ops, means, group>>
----------------------------------------------------------------------------
(* BooleanGet.                                                              *)

Top == stack[Len(stack)]
Meaning == means[Len(means)]

Term(w) ==
  /\ group = Closed
  /\ GetDocsOp(w, "term", <<>>)
  /\ means' = Append(means, DocsOf(w))
  /\ UNCHANGED <<stack, group>>

\* op_and_terms returns at once for an empty list.
AndTerm(w) ==
  /\ stack # <<>> /\ Top # <<>> /\ group = Closed
  /\ GetDocsOp(w, "and", Top)
  /\ means' = Front(means) \o <<Meaning \cap DocsOf(w)>>
  /\ UNCHANGED <<stack, group>>

OrTerm(w) ==
  /\ stack # <<>>
  /\ GetDocsOp(w, "and_or", Top)
  /\ group' = (group \ Closed) \cup DocsOf(w)
  /\ UNCHANGED <<stack, means>>

DiffTerm(w) ==
  /\ stack # <<>> /\ group = Closed
  /\ GetDocsOp(w, "diff", Top)
  /\ means' = Front(means) \o <<Meaning \ DocsOf(w)>>
  /\ UNCHANGED <<stack, group>>

\* Variant: the marks stay.
UnmarkNone(entry) == entry

Unmark(entry) == [entry EXCEPT !.or_included = FALSE]

\* What ReduceList keeps: the marked entries, and no marks.
Reduced(list) ==
  LET kept[n \in 0..Len(list)] ==
        IF n = 0 THEN <<>>
        ELSE IF list[n].or_included THEN Append(kept[n - 1], Unmark(list[n])) ELSE kept[n - 1]
  IN kept[Len(list)]

\* Ends an OR group: only the marked documents stay.
ReduceList ==
  /\ pc = "idle" /\ group # Closed
  /\ stack' = Front(stack) \o <<Reduced(Top)>>
  /\ means' = Front(means) \o <<Meaning \cap group>>
  /\ group' = Closed
  /\ UNCHANGED <<file, ops, pc, get>>

DocNums(list) == {list[n].doc : n \in DOMAIN list}

\* Where a list, from place s on, first has a document not before doc.
From(list, s, doc) == Min({t \in s..(Len(list) + 1) : t > Len(list) \/ list[t].doc >= doc})

\* A loop of lists.c goes through both lists at once: s.s1 and s.s2 are the places
\* in them, s.out is the list so far.  Each round of it takes an entry at least.
Rounds(l1, l2) == 0..(Len(l1) + Len(l2))
FromStart == [s1 |-> 1, s2 |-> 1, out |-> <<>>]

IntersectRound(l1, l2, s) ==
  LET hit   == l1[s.s1].doc = l2[s.s2].doc
      after == IF hit THEN s.s1 + 1 ELSE s.s1
      t2    == IF after > Len(l1) THEN s.s2 ELSE From(l2, s.s2, l1[after].doc)
      t1    == IF t2 > Len(l2) THEN after ELSE From(l1, after, l2[t2].doc)
  IN IF s.s1 > Len(l1) \/ s.s2 > Len(l2) THEN s
     ELSE [s1 |-> t1, s2 |-> t2, out |-> IF hit THEN Append(s.out, l1[s.s1]) ELSE s.out]

DiffRound(l1, l2, s) ==
  LET both == s.s2 <= Len(l2) /\ l1[s.s1].doc = l2[s.s2].doc
      only == s.s2 > Len(l2) \/ l1[s.s1].doc < l2[s.s2].doc
  IN IF s.s1 > Len(l1) THEN s
     ELSE [s1  |-> IF only \/ both THEN s.s1 + 1 ELSE s.s1,
           s2  |-> IF only THEN s.s2 ELSE s.s2 + 1,
           out |-> IF only THEN Append(s.out, l1[s.s1]) ELSE s.out]

MergeRound(l1, l2, s) ==
  LET first  == s.s1 <= Len(l1) /\ (s.s2 > Len(l2) \/ l1[s.s1].doc <= l2[s.s2].doc)
      second == s.s2 <= Len(l2) /\ (s.s1 > Len(l1) \/ l2[s.s2].doc <= l1[s.s1].doc)
  IN IF ~first /\ ~second THEN s
     ELSE [s1  |-> IF first THEN s.s1 + 1 ELSE s.s1,
           s2  |-> IF second THEN s.s2 + 1 ELSE s.s2,
           out |-> Append(s.out, IF first THEN l1[s.s1] ELSE l2[s.s2])]

IntersectLists(l1, l2) ==
  LET after[n \in Rounds(l1, l2)] ==
        IF n = 0 THEN FromStart ELSE IntersectRound(l1, l2, after[n - 1])
  IN after[Len(l1) + Len(l2)].out

DiffLists(l1, l2) ==
  LET after[n \in Rounds(l1, l2)] ==
        IF n = 0 THEN FromStart ELSE DiffRound(l1, l2, after[n - 1])
  IN after[Len(l1) + Len(l2)].out

MergeLists(l1, l2) ==
  LET after[n \in Rounds(l1, l2)] ==
        IF n = 0 THEN FromStart ELSE MergeRound(l1, l2, after[n - 1])
  IN after[Len(l1) + Len(l2)].out

\* The two lists on top are joined.
Join ==
  LET n == Len(stack)
      Joined(list, set) ==
        /\ stack' = SubSeq(stack, 1, n - 2) \o <<list>>
        /\ means' = SubSeq(means, 1, n - 2) \o <<set>>
  IN /\ pc = "idle" /\ group = Closed /\ n >= 2
     /\ \/ Joined(IntersectLists(stack[n - 1], Top), means[n - 1] \cap Meaning)
        \/ Joined(DiffLists(stack[n - 1], Top), means[n - 1] \ Meaning)
        \/ Joined(MergeLists(stack[n - 1], Top), means[n - 1] \cup Meaning)
     /\ UNCHANGED <<file, ops, group, pc, get>>

Next ==
  \/ \E h \in Skips, junk \in Junk : Rebuild(h, junk)
  \/ DeleteOrg
  \/ \E w \in Words : Term(w) \/ AndTerm(w) \/ OrTerm(w) \/ DiffTerm(w)
  \/ Hop \/ Header \/ Posting \/ Finish
  \/ ReduceList
  \/ Join

Spec == Init /\ [][Next]_vars
----------------------------------------------------------------------------
(* Properties.                                                              *)

Increasing(list) == \A m, n \in DOMAIN list : m < n => list[m].doc < list[n].doc

TypeOK ==
  /\ level \in Levels /\ lists \in [Words -> Entries]
  /\ rebuilds \in 0..MaxRebuilds /\ ops \in 0..MaxOps
  /\ pc \in {"idle", "loop", "header", "posting", "lost", "stopped"}
  /\ word \in Words <=> pc \in {"loop", "header", "posting", "lost"}
  /\ word \in Words => i \in 0..p(word) /\ block_counter \in -1..(Blks(word).k - 1)
  /\ CurrDoc \in 0..num_of_docs
  /\ next_doc_num \in -1..num_of_docs
  /\ dest \in 0..src /\ src \in 0..Len(L)
  /\ Len(means) \in {Len(stack), Len(stack) + 1}

\* A jump over a block (invf_get.c:567-577) seeks to a bit that mg_invf_rebuild
\* worked out (mg_invf_rebuild.c:455-462) from the file without these skips:
\* every code that GetDocsOp reads afterwards begins where it looks, whatever
\* the skips were before.
NeverLost == pc # "lost" /\ pc # "stopped"

\* A query finds with skips what its terms say (invf_get.c:559-691,
\* bool_query.c:139-237): every list is in order, has no document twice, and
\* holds the documents it should; the marks of an OR group are those of the
\* group, and none are left behind by one.
ListsRight ==
  pc = "idle" =>
    \A n \in DOMAIN stack :
      /\ Increasing(stack[n])
      /\ DocNums(stack[n]) = means[n]
      /\ \A e \in ToSet(stack[n]) :
           e.or_included = (n = Len(stack) /\ e.doc \in group)

\* mg_invf_rebuild changes the skips and nothing else (mg_invf_rebuild.c:397-470):
\* read from start to end an entry gives the documents and counts it always did.
RebuildKeeps ==
  pc # "stopped" =>
    \A w \in Words :
      LET s == ReadEntry(invf[w], level, p(w), Blks(w), 0)
      IN /\ s.ok
         /\ PostingsOf(s.ii) =
              [j \in DOMAIN lists[w].docs |->
                 [doc |-> lists[w].docs[j],
                  tf  |-> IF level >= 2 THEN lists[w].counts[j] ELSE 0]]

\* A jump to ShortCut (invf_get.c:567-577, 597-599) goes to the start of a
\* block, to the very bit if the loop has come there anyway, never back to where
\* the header sent it from, and passes over nothing that the list may hold:
\* every posting it leaves out is of a document before the next candidate.
HopsAhead ==
  [][pc' = "header" =>
       /\ i' >= i /\ i' % Blks(word).k = 0
       /\ i' = i => pc = "loop" /\ pos' = pos
       /\ \A j \in (i + 1)..i' : lists[word].docs[j] < L[src + 1].doc]_vars
============================================================================
