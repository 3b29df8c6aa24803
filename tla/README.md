# mg: a verification development

`mg` compresses a text collection, builds an inverted index for it in two passes
over the text, and answers boolean and ranked queries from the index.  This
directory holds TLA+ modules translated from its source, TLC configurations that
model-check them on small instances, and proofs checked by TLAPS.  Paths below
are relative to the root of the repository; `text/` stands for `src/text/`.

## 1. The system

`mgbuild` (a shell script) pipes a collection several times through `mg_passes`
and runs a number of small programs in between; every step reads and writes
files `<collection>.<suffix>`.  `mgquery` only reads them.  `mgmerge` builds a
second collection from new documents and merges it with the first.

| Part | State | Operations | What is hard | What makes it right |
|---|---|---|---|---|
| bit codes (`lib/bitio_m.h`, `lib/bitio_gen.c`) | none | encode, decode, length; bounds on the length of a whole entry | closed-form worst cases with truncating division and floating-point logs; every region below is sized by them | decoding inverts encoding; no sequence of gaps or counts is longer than its bound |
| inversion, pass 1 (`text/ivf.pass1.c`) | counts of every word, in all and in the chunk; the chunk descriptions | count a document; close a chunk; finish | chunks are cut by a forecast of pass 2's memory, made at adaptive intervals | descriptions cover the text exactly; the forecast is what pass 2 will need |
| inversion, pass 2 (`text/ivf.pass2.c`) | a memory buffer with a region per word; a scratch file of chunks; a region per word of the `.invf` file | `LoadCounts`, code a document, `DumpChunk`, `DiskMerge`, `done_ivf_2` | nothing is checked while writing; gaps are rebased and recoded across chunks; compaction in place | the finished file is the index of the text; no region is overrun |
| driver (`text/mg_passes.c`) | passes requested | init, process every document, done | passes in separate runs of the program must see the same text | order |
| text compression (`text/text.pass1.c`, `text.pass2.c`, `comp_dict.c`, `mg_compression_dict.c`, `mg_fast_comp_dict.c`) | word statistics, dictionaries, novel words | count, choose a dictionary, Huffman code, compress | words outside the dictionary, three methods for them; words and non-words alternate | decompression gives the text back |
| skips (`text/mg_invf_rebuild.c`) and postings (`text/invf_get.c`, `lists.c`) | an entry with block headers; candidate lists; accumulators | rebuild; fetch, AND, OR, AND-NOT; rank | jumps over blocks in the middle of a merge; limits on accumulators | a query through skips gives what it gives without them |
| boolean queries (`text/bool_*.c`, `term_lists.c`) | expression tree | parse, optimise, evaluate | rewriting in place, negation | optimised and plain trees stand for the same documents |
| weights (`text/mg_weights_build.c`, `weights.c`, `query.ranked.c`) | approximate weights, heap of best documents | build, look up, rank | approximation, limits | the best documents come out, in order |
| dictionaries (`text/mg_invf_dict.c`, `stem_search.c`, `lib/perf_hash.c`) | front-coded words, blocks | build, search | first and last block | every word is found, no other is |
| merging (`scripts/mgmerge.sh`, `mg_get_merge.sh`, `text/mg_text_merge.c`, `mg_invf_merge.c`) | the files of a collection and of the `MERGE` directory; time stamps; marks and places in two inverted files | steps of a script, several of them unchecked; entries that are copied and entries that are coded anew | a step that fails, two merges at a time, documents arriving meanwhile | no document is lost; the files always belong together |
| query program (`text/mgquery.c`, `backend.c`, `environment.c`, `text_get.c`) | environment stack, current query | commands | push and pop of the environment | – |
| images (`src/images/`) | pixel contexts, mark library | code, decode | numerical | lossless |

The parts share no memory: they interact through files, written by one program
and read by a later one.  Inside `mg_passes` the driver calls `init`, `process`
and `done` of the passes it was asked for; everything is sequential.  The hard
behaviour is therefore not concurrency but agreement over distance: pass 2
writes without a check into space that pass 1 counted, possibly a day earlier,
by another formula.  Real interleavings exist only between the merge scripts, the
programs that feed them and the query program.  `PROJECT.json` lists the hazards
line by line.

## 2. Modules

| Module | Models |
|---|---|
| `BlockCode` | the codes of `bitio_m.h` and the bounds of `bitio_gen.c`, as operators |
| `PostingEntry` | one inverted-file entry as it grows, in memory and on disk, against its bounds |
| `InvertedIndex` | abstract: documents arrive, then an index of them is published, or none |
| `Inversion` | both passes, chunk by chunk |
| `SkippedEntry` | an entry with skips: its parameters, and how `mg_invf_rebuild` reads and writes it |
| `BooleanGet` | rebuilds between queries, the loop of `GetDocsOp`, lists, evaluation of a query tree |
| `BoolOptimiser` | a boolean query from its parse tree through the passes of the optimiser to its answer |
| `Accumulators` | the four accumulator methods of ranked queries, term by term and posting by posting |
| `CosineHeap`, `RankedQuery` | the heap of `query.ranked.c` and the selection of documents; a ranked query as a whole |
| `MergedCollection` | abstract: a collection grows by whole batches of new documents |
| `MgMerge` | `mgmerge.sh` and its source of documents, over the files of several collections |
| `InvertedMerge` | `mg_invf_merge`: merge after merge of dictionaries and entries, on codes |
| `PostingEntry_proofs`, `Inversion_proofs`, `InversionIndex_proofs`, `BooleanGet_proofs`, `RankedQuery_proofs`, `MgMerge_proofs`, `InvertedMerge_proofs` | theorems |
| `ArithmeticTheorems` | the codes of `BlockCode`; sums over finite sets; induction over finite sets and naturals in a form the provers can use |
| `MCPostingEntry`, `MCInversion`, `MCBooleanGet`, `MCBoolOptimiser`, `MCRankedQuery`, `MCMgMerge`, `MCInvertedMerge` | small constants for TLC |

`BlockCode` is under `PostingEntry`, `Inversion`, `SkippedEntry` and
`InvertedMerge`; `BooleanGet` builds on `SkippedEntry`, `RankedQuery` on
`Accumulators` and `CosineHeap`.  `BoolOptimiser` hands over to `BooleanGet` at
the tree it leaves, which it evaluates on sets where `BooleanGet` does on lists.
`MgMerge` takes a file for the list of documents it is about; what its step
`InvfMerge` does inside the files is `InvertedMerge`.

### BlockCode

`BblockLength`, `GammaLength`, ... are the `*_LENGTH` macros; `BblockInit` and
`BblockInitW` choose the Golomb parameter for the disk and for memory;
`BblockBoundB` and `GammaBound` are the bounds.  A code is a pair or a record of
its fields, not a string of bits; the binary code keeps its two lengths and its
threshold.  C's division truncates towards zero and so does `CDiv`.  Powers of
two come from a table of 31, which is the width `int` gives them; the bounds'
logarithm `log2(x)` is computed in fixed point with 12 fractional bits, which
gives the result of the C `double` for up to 430 occurrences; the runs stay below.
The factor 0.6931471 is a fraction of integers.

### PostingEntry

State: where the entry is (`"memory"` or `"disk"`), the level, the sizes the
space is computed from (`N` documents, `fcnt` postings, `wcnt` occurrences), the
postings so far and the bits they use.  The one action adds any posting that
keeps `fcnt` and `wcnt` reachable, as pass 1 counted them.

### Inversion and InvertedIndex

A word is its rank in the dictionary, a document gives each word a number of
occurrences.  `ProcessDoc1` is pass 1's `process_doc`: it counts, and from
`checknum` pointers on works out `mem_reqd`; a chunk that is full is written by
`dump_dict`.  `Done1` is `done_ivf_1`, which writes what is left.  Pass 2 is
`init_ivf_2` (a region of the file per word), `LoadCounts` (a region of the
buffer per word of the next chunk), `ProcessDoc2`, `DumpChunk` or `DiskMerge` as
`MergeIn` decides, and `done_ivf_2`.  Regions are kept as lists of codes with the
number of bits used, next to the address the code would write them to, so that a
region that would be overrun shows as `used` beyond its length; pointers into a
dumped chunk are kept as the distances the code keeps (`Delta`, `ChunkPtr`).
The words a document brings for the first time come in any order
(`FirstOccurrences`), as the text may have them.

`InvertedIndex` knows nothing of chunks: its `Publish` gives, for every word,
the documents it occurs in with their counts.  `Inversion` implements it with
`index` being what a reader decodes from the finished file (`Abstract`).

### SkippedEntry and BooleanGet

An entry is a sequence of codes, each with the bit it starts at and the parameter
it is coded with; a reader that looks for a code where none with its parameter
starts is `"lost"`.  `ReadEntry` and `WriteEntry` are the two loops of
`mg_invf_rebuild`, a round of each being `ReadStep` and `WriteStep`, `CalcBlks`
the parameters both programs work out from the header of the file.  A value read from memory that was never written is a
constant from `Junk`.

`BooleanGet` has the inverted file, the `.ORG` files and a query under
evaluation: `Rebuild` and `DeleteOrg` act between queries; `Term`, `AndTerm`,
`OrTerm` and `DiffTerm` call `GetDocsOp`, whose loop is `Hop` (the jump to
`ShortCut`), `Header`, `Posting` and `Finish`; `ReduceList` ends an OR inside an
AND; `Join` is the three functions of `lists.c`, whose loops are taken round by
round (`IntersectRound`, `DiffRound`, `MergeRound`).  The recursion of the C function
is a stack of lists, so that every tree it can be given is a sequence of these
steps.  `means` is a history variable: the set each list should hold.
`ListsRight` compares the two, `NeverLost` says that every jump lands on a code,
`HopsAhead` that the jumps make progress and pass over no candidate,
`RebuildKeeps` that a rebuild changes nothing but skips.

Six postings with skips of 1, 2, 3 give entries whose last block is full, short
or missing; with two rebuilds a file is read under skips it was not first written
with, from the `.ORG` file and from its own successor.  Three terms are enough
for a group of two ORed terms under an AND, and for each list operation.

### BoolOptimiser

A node is a tag and the sequence of its children, in the C code a list of
siblings.  Each pass of `OptimiseBoolTree` is an action, in the order of the
`optimise_type`: 0 evaluates the parse tree, 1 (the default) ends in `DiffTree`,
`MarkOrTerms` and `AndOrSort`, 2 goes over disjunctive normal form.
`DNF_Distribute` is repeated until a pass changes nothing, and ends the program
after `ITER_LIMIT` of them.  `qsort` leaves the order of equals open; the model
keeps the order they had, which no property depends on.  A document is the set
of its words, and every set of words of the dictionary is a document, so that
two trees with the same answers are equivalent.  `SameMeaning` asks that of
every pass; `DnfAnswers`, `AndOfOrsAnswers` and `NoWrongDocument` are about what
`BooleanGet` makes of the last tree, which answers a negation, or "all", with
nothing.

### Accumulators, CosineHeap and RankedQuery

`BeginTerm` looks at the limit, sorts (and packs) the table if it is reached and
opens an entry; `Posting` is a round of the loop over it: a hop over a block, the
block's header, and a posting that is added to the table or, once the limit is
reached (`anding`), to the next accumulator that is its document's (`FirstFrom`:
those before it are left behind).  The entry is
the sequence of its documents and a place in it the number of postings before it:
the codes are those of `SkippedEntry`.  A posting is worth the term's weight,
0 for a word in every document; sums are whole numbers.  `total` is a history
variable: what the terms so far are worth to each document.

`CosineGet` is an operator, as it runs on its own: it fills the heap with the
first accumulators, offers the others, replaces approximate weights by exact
ones, offers again what could still get in, and empties the heap from the best.
Its divisions come out whole by the choice of sums and weights.

### MgMerge and MergedCollection

`Script` is the list of the script's commands; `pc` is a collection's place in
it.  A file is modelled by the documents it is about (the header's number of
documents, offsets or list of weights with it), a name by place, collection and
suffix: `base` the collection's own directory, `old`, `new` and `merge` the
three prefixes in `MERGE`.  Each `mv` is a step; each program is one, with the
files it leaves behind when it ends early because one cannot be opened.
`Checked` programs end the script when they fail, `Unchecked` ones do not.
`late` and `ready` are what the time stamps `.mgmergetime` and `.mgbuildtime`
say of the documents; a document may arrive at any step, and the script may be
interrupted before steps of its first phase.  A collection whose inverted file
was rebuilt with skips cannot be merged: `mg_invf_merge` refuses it, and the
script finds out at `mg_weights_build`.  Without new documents `mg_passes -N1`
fails (`text/ivf.pass1.c:758`) and the script ends at `mgmerge.sh:223`, with the text
dictionary in `MERGE`; the next merge of the collection finds it there.

`FilesAgree` and `ServedWhole` say of a collection at rest, and of the files a
query program finds during a merge, that they are of one generation (but for the
moves from the return of the new `.invf` to that of `.text.idx.wgt`, during which
a program may open a mixture: nothing in the script keeps it out);
`NothingDeleted` and `QuietKept` that no document is lost; `GrowsByBatches` that
`MergedCollection` is implemented.

### InvertedMerge

A file is a sequence of code words, each a unary and a binary part, with padding
up to bytes at the end of an entry.  `MergeTerm` is a round of the loop over the
dictionaries, `ProcessEntry` one entry: `EntryCopied`, or `EntrySlow` with the
parameters `processEntry` or `procEntry_fast` hands it.  The merged files are the
old ones of the next merge, fast or slow, so that entries are read that were
coded under several numbers of documents.  `InStep` compares the places in the
files with the offsets of the indexes; `MergedAnswers` decodes every entry as a
query does, and compares it with what `InvertedIndex` lists for all documents.

## 3. Runs

| Run | Bounds | Question |
|---|---|---|
| `posting` (`PostingEntry.cfg`) | up to 8 documents, 4 postings, 13 occurrences; both places, levels 1 and 2 | do codes fit their bounds, and decode? |
| `inversion` (`Inversion.cfg`) | 5 documents over 2 words, a buffer of 15 bytes, `ChunkLimit` of 0, 1, 2 | is the result the index of the text, and every space large enough? |
| `inversion_ends` (`InversionEnds.cfg`) | 3 documents | does every build end? |
| `inversion_memory` (`InversionMemory.cfg`) | 2 documents | is `-m` a limit? It is not: see below |
| `boolean_get` (`BooleanGet.cfg`) | two words with up to 6 postings among 7 documents; skips of 1, 2, 3 and by number of postings; two rebuilds, three terms in a query | do queries through skips find what they should, whatever skips the file had before? |
| `boolean_get_level1` (`BooleanGetLevel1.cfg`) | one rebuild, two terms | are skips right at level 1? They are not: see below |
| `bool_optimise` (`BoolOptimiser.cfg`) | every tree of up to two levels over two words, or such a tree and a third word, negated or not, or `_`; a word may be unknown; types 0, 1, 2 | does every rewriting keep the query, and is it answered? |
| `bool_optimise_tree` (`BoolOptimiserTree.cfg`) | the same | does type 1 reach every AND? It does not: see below |
| `ranked` (`RankedQuery.cfg`) | 4 documents, 3 terms (one of no weight), limits of 2, 3 and 9, skips of 1, 2 or none, four methods, 1 or 3 paragraphs | are sums exact and the documents the best, whatever the limit cuts short? |
| `mgmerge` (`MgMerge.cfg`) | two collections, one of which may have skips, each with up to two new documents arriving at any time; interruptions at steps 1 to 6 | do the files stay together, and is no document lost, when one collection merges at a time? |
| `mgmerge_deletes` (`MgMergeDeletes.cfg`) | two collections, one new document each, no interruption | may two collections merge at a time? They may not: see below |
| `inverted_merge` (`InvertedMerge.cfg`) | up to 3 documents, then two merges of up to 2, each fast or slow; two words, levels 1 and 2 | is the merged inverted file that of all the documents? |

Words occur up to 130 times in a document and the buffer is small, so that
chunks of one document occur next to chunks of
several, that merges take one, two or three chunks, and that a word is in some
chunks of a merge and not in others; 5 documents give up to 5 chunks and two
merges with a dumped chunk each.  13 occurrences let a count reach 8 in an entry
of several postings, where the gamma bound is tightest.

*Boolean queries.* Two levels bring every operator above and below every other,
and the third gives an AND or OR with such a tree on either side: distribution
then takes several passes, conjuncts of several negated words occur, and
constants climb more than one level.  `ITER_LIMIT` is 4 in place of 500: that
none of these queries reaches it is the stronger statement.  *Ranked queries.*
The smallest `max_accumulators` the program takes is 8 (`text/environment.c:387-391`);
limits of 2 and 3 with 4 documents scale it down, so that the limit falls within
the first, the second or the third term, within a term (the hash table then
overflows into its supplement) and at its end, and so that blocks are hopped over.
9 is never reached.  One of the sets of document weights makes the approximate
order differ from the exact one.  *Merges.* Two documents arriving after the first give two merges in
a row, or a merge that fails and one that makes up for it.  With 3, 4 and more
documents the Golomb parameter takes the values 1 to 5, so that a file coded with
the wrong number of documents is found out.

Each property is shown to depend on the code it is about: `PROJECT.json` names
for each a variant of one definition (the operators marked "variant" in the
modules) under which TLC finds the property violated.

**Fairness.** `Inversion` assumes weak fairness of `Done1` (the input of pass 1
ends) and of pass 2 as a whole (a sequential program runs on); `BuildEnds` is
the only property that uses it.  `BoolOptimiser` assumes weak fairness of its
next step, as one program that waits for nothing; only `Answered` uses it.  The
other modules state safety alone: a merge that is interrupted, or whose operator
does not start another, may stop anywhere.

**Finding.** The manual calls `-m` the "maximum amount of memory to use for the
pass-2 file inversion" (`text/mg_passes.1:214`, and `:370-372`).  Memory is only
looked at after a document that reaches `checknum`, and the chunk is closed with
that document in it (`text/ivf.pass1.c:445-465`); `inversion_memory` shows a
chunk that needs more.

**Finding.** `mg_invf_rebuild` builds "a new inverted file, with or without
skipping, from an old inverted file" (`text/mg_invf_rebuild.1:37`).  The length
in a block's header is worked out with `count_bits` (`text/mg_invf_rebuild.c:459`),
a field that is written at levels 2 and 3 only (`:424-428`), in memory that is not
cleared.  At level 1 the program stops with a length of 0 (`-k 1`, the field
happening to be 0), or writes lengths that lead queries astray;
`boolean_get_level1` shows it, with the field 0 or 5.

**Finding.** `mgmerge` "cannot edit or delete documents already in a database"
(`scripts/mgmerge.1:47-49`).  It ends with `rm -f` of everything in the directory
all collections share (`scripts/mgmerge.sh:320`).  A collection that is being
merged has its only text dictionary in there from the first command on (`:204`);
so has one whose merge stopped on the way, for instance at `:223`, for want of new
documents.  `mgmerge_deletes` shows the end of another collection's merge that
removes it from under a merge that has just begun.

**Finding.** `DiffTree` "will search throughout the tree for "and"-nodes"
(`text/bool_optimiser.c:756-757`).  It goes down from an AND that it has made a
difference of, and from nothing else (`:765-778`): an AND below an OR keeps its
negated words, which `BooleanGet` answers with nothing.  `bool_optimise_tree`
shows the query `c | ((a | a) & !b)`, of the default type, without the documents
that hold `a` alone.  For the queries the manual says this type is for, ANDs of
ORs of words (`text/mgquery.1:413-418`), `AndOfOrsAnswers` shows its answers right.

Two disagreements are listed under the hazards and have no run: `mgmerge.sh`
tells the source of documents that the merge is complete (`-cleanup`, `:258`)
before the merging programs run, so that a merge that fails behind it loses its
documents for later ones; and the list method of ranked queries packs its list
only when the limit is reached, so that otherwise a document is ranked by single
terms (`text/invf_get.c:1423-1431`, `:1518`).

## 4. Proofs

| Theorem | Module | Says |
|---|---|---|
| `TypesAlwaysOK`, `GapsAlwaysFit` | `PostingEntry_proofs` | the gaps of an entry fit in the space of `BIO_Bblock_Bound`, for every number of documents and postings |
| `EntriesReadBack` | `PostingEntry_proofs` | every entry, in memory or on disk, decodes to the postings that were coded |
| `MemoryCountsFit` | `PostingEntry_proofs` | in memory, the counts of an entry fit in the space pass 1 foresaw |
| `NoOverrunAlways` | `Inversion_proofs` | pass 2 never codes beyond a word's region of the memory buffer |
| `ChunksSuffice` | `Inversion_proofs` | pass 2 never wants a chunk that pass 1 has not described |
| `BuildImplementsIndex` | `InversionIndex_proofs` | `Inversion` implements `InvertedIndex`: a build publishes the index of its documents, or nothing |
| `PostingsAlwaysHeld`, `DumpedAlwaysKept`, `BufferAlwaysHolds`, `TypesRight` | `InversionIndex_proofs` | file, dumped chunks and buffer, decoded by what is kept of the chunks, list every posting coded so far once and in order; a dumped chunk is where the pointers lead, with all its codes; a chunk's regions lie in the buffer |
| `DiskAlwaysFits`, `DiskFitsLevelOne`, `CompactionAlwaysSafe` | `InversionIndex_proofs` | no entry outgrows its region of the file, and the compaction in place writes over nothing unread: at level 1; at levels 2 and 3 if `GammaRoom` |
| `QuietAlwaysKept`, `TypesRight` | `MgMerge_proofs` | no sequence of `Careful` merges loses a document that arrived outside of a merge's first phase |
| `FilesAlwaysAgree`, `AlwaysServedWhole` | `MgMerge_proofs` | a collection at rest has its nine files, of one generation; a query program that can open one during a merge finds text, index and dictionary of one generation, if merges are `Careful` (below) |
| `NothingEverDeleted`, `MergeImplementsPromise` | `MgMerge_proofs` | no document that can be read goes away; `MgMerge` implements `MergedCollection`; both if merges are `Careful` |
| `CodesFound` | `BooleanGet_proofs` | with skips, wherever a code is looked for there is the one that was meant |
| `QueriesRight` | `BooleanGet_proofs` | every list of a boolean query holds what its part of the query stands for |
| `PostingsKept`, `JumpsAhead`, `TypeCorrect` | `BooleanGet_proofs` | a rebuild changes nothing but skips; a jump goes ahead, past no candidate |
| `SumsAlwaysExact`, `AlwaysAllAccumulated` | `RankedQuery_proofs` | a document with an accumulator has in it all that the terms are worth to it; until the limit every document has one |
| `LimitAlwaysKept`, `RoomAlwaysEnough`, `AccumulatorTypes` | `RankedQuery_proofs` | behind the limit no accumulator comes or goes; no table is written beyond its end |
| `Accumulating`, `QueryAccumulates` | `RankedQuery_proofs` | the invariant behind them, and that a ranked query's terms are steps of `Accumulators` |
| `AnswersAlwaysBest` | `RankedQuery_proofs` | the heap of `CosineGet` answers with what a full sort by rank would put first, by approximate weights or exact ones |
| `TypeCorrect`, `FilesInStep` | `InvertedMerge_proofs` | a merge of inverted files never reads past an end, and however copied and decoded entries alternate both files are read in step with their indexes |
| `MergesAnswer` | `InvertedMerge_proofs` | after any number of fast and slow merges the files answer as an index built of all documents at once |

They hold for every value of the constants under the named assumptions: at most
2^30 - 1 documents (`MaxDocsAssumption`, `EntryBounds`, `DocsAssumption`), a
finite set of ranks (`WordsAssumption`), documents that map words to naturals
(`DocumentsAssumption`) below 2^30, the range of the gamma code
(`CountsAssumption`), buffers of at least 15 bytes (`OptionsAssumption`), limits
of at least 2 accumulators (`AccumulatorsAssumption`; the program takes 8 and
more), some paragraph to ask for and positive weights of documents, the
approximate ones no greater than the exact ones, as `GetLowerApproxDocWeight`
promises, and dividing the weights of the terms (`RankedAssumption`; the
quotients are floats in the code and whole numbers in the model), and,
of words with skips, entries that ascend and whose bits can be counted in 31 of
them (`EntriesAssumption`), with any mode and numbers in the headers
(`SkipsAssumption`); and, of merges of inverted files, finitely many words, which
occur in a document fewer than 2^30 times, in fewer than 2^30 documents in all
(`InvertedMergeAssumption`).  Three groups of theorems have one condition more.

  - Those of `BooleanGet_proofs` are for files with `HasCounts`: the levels are 2
    and 3, or `mg_invf_rebuild` is never run.  At level 1 it measures the blocks
    with memory it never wrote, and `boolean_get_level1` shows what follows.  No
    theorem bounds the number of terms, rebuilds, words or documents.

  - Those of `MgMerge_proofs` are for any set of collections and any number of
    documents (`MgMergeAssumption`) if `Careful`: a merge is started only when no
    other is under way or unfinished, and the script is interrupted in its first
    phase only.  `mgmerge_deletes` shows what happens to files without the first
    half of it; the script repairs nothing behind that phase.
  - `DiskAlwaysFits` and `CompactionAlwaysSafe` are for states with `GammaRoom`:
    the counts of a word take no more bits than `BIO_Gamma_Bound` of its totals,
    the space that `init_ivf_2` reserves for them.  It says nothing of what the
    passes do; it is a bound in logarithms, and TLC finds it true in every state
    of the `inversion` run.  Level 1 has no counts and needs no condition.

The invariants of these proofs were checked by TLC first, on every state of the
run concerned (`inversion`: 252 141 states, `mgmerge`: 132 944, `ranked`:
1 162 207, `boolean_get`: 539 346).  That of `InvertedMerge` asks for sequences of
documents and places that TLC would have to guess; of it, TLC checked the three
properties it is for (`inverted_merge`: 279 790 states).

*The Golomb bound.* `BblockBoundB` is a worst case over all entries with `p`
postings of `N` documents and says nothing of an entry half written.  The proof
uses `Used(k, s, b)`: what `k` gaps with sum `s` use at most, which grows by at
least `BblockLength(gap, b)` with every gap (`ArithmeticTheorems`) and at `k = p`,
`s <= N` is at most the bound.  `PostingEntry_proofs` carries it through the
entry (`RoomLeft`, `PartialFit`).

*Reading back.* A code is decoded by what it is made of: the binary part decides
between its two lengths by a threshold (`BinaryRoundTrip`), the Golomb and gamma
codes put a quotient before it (`BblockRoundTrip`).  An entry is a sequence of
such codes, each a gap to the document before, so that `RoundTrip` of an entry
one posting longer follows from that of the entry and of one code.

*Sums.* Much of the inversion is about sums: of bits over words, of counts over
chunks, of totals over documents.  The theorems on induction in the library take
an operator as a parameter, which the provers cannot instantiate; for a set they
can.  `ArithmeticTheorems` proves induction over naturals and over finite sets for the
members of a set that have a property (`NatInductionOnSet`,
`FiniteInductionOnSet`), from there that sums over finite sets exist and are
unique (`SumUnfolded`, `SumUnique`), and what is needed of them: adding an
element, monotony, sums of counts, of differences and of subsets.  The modules
define their sums with one recursive function, `SumFunctionOnSet`, for this.

*The regions of pass 2.* The space is computed from counts of pass 1, used in a
later pass over the same text.  `NoOverrun` is therefore far from inductive.
`IInv` adds: every count is the number of documents (occurrences) so far, kept as
running totals (`TotalsOK`); the counts of a chunk are the differences of totals
between its two cuts (`CountsOK`, `ChunksOK`); pass 2 reads between the same cuts
(`ReadOK`); and a word's used bits are bounded by `Used` of the postings coded so
far plus their occurrences (`CodedOK`).  The step of `ProcessDoc2` then is the
step of the Golomb bound.  `totals` and `cuts` are history variables for this.
For `ChunksSuffice` the last cut after pass 1 is the end of the text: `Done1`
leaves nothing over.

*The index.* `ImplementsIndex` compares a finished file with the documents, and
everything between the two is code: counts of pass 1, gaps within a chunk, gaps
rebased when a chunk is merged.  `Inv` of `InversionIndex_proofs` says at every
moment whose postings are where: what is coded in a word's region of the file is
the entry of the word for the documents of the merged chunks (`EntryUpTo`), each
dumped chunk is at its place in the scratch file with the postings of its
documents (`Dumped`), the buffer has those of the documents since.
A merge appends the postings of its chunks with the first gap rebased to the last
document of the file (`MergedEntry`, a recursive function over the chunks, by
induction over their number), and the last merge leaves the whole text.
`PostingsHeld` follows from `Inv` at every moment: decoded by the pointers and
counts kept of its chunk, each region of file, scratch file and buffer lists the
documents of its chunks that have the word, the next one those behind
(`ChunkReadBack`).
The first part of `InversionIndex_proofs` has the lemmas on coded entries: what
they decode to, what appending does to them, and the bits they take.  `BufferHolds` needs the same
sums over words as pass 1's forecast; `DiskFits` the Golomb bound, now for an
entry that grows by chunks and is coded for all documents; `CompactionSafe`
that an entry starts no later in the compacted file than the region it is read
from.

*Documents through a merge.* `QuietKept` names three places a document may be in
and says nothing of who puts it there next.  `IInv` of `MgMerge_proofs` says for
each step of the script where the text is: in its directory or in `MERGE`, never
in both or neither, its index with it (`TextPlaced`); that the new text holds all
that `mg_get_merge -text` offered by the time `-cleanup` withdraws the offer, and
stays until `mg_text_merge` appends it (`Accounted`); that documents on offer have
arrived, in one of the two sets (`Numbered`); and that collections at rest have
nothing in `MERGE` while another merges (`OneMerge`), which is what keeps its last
`rm` from taking their files.  A step of a program is then shown to write under
its own collection's name and, but for three of them, to write no text
(`WritesOwn`, `KeptStep`).

*Files through a merge.* `FilesAgree` is about moments when nothing happens, and
between two of them lie 27 steps that move nine files one at a time, each made by
a program from others.  `Whole` says what is where at each step: there are an old
and a new sequence of documents, and for each file the step at which it goes to
`MERGE`, is made and comes back (`Away`, `Made`, `Back`); before and after it is
of the old documents or of both (`Placed`), and what is new was neither in the
old text nor is on offer still (`Fresh`).  A collection
whose inverted file has skips stays in `MERGE` for good (`Stuck`): every merge
that is tried again fails in the same way, and less can be said of its files
than of the `Healthy` ones.  The promise, `Promise!Next`,
is kept by every step: the text that can be read stays or, at one step, grows by
the new documents.

*Accumulators.* `SumsExact` speaks of the time between terms; within one, a
document's sum lacks what the postings ahead are worth.  The invariant of
`RankedQuery_proofs` adds just that: for every document (once the limit is
reached, every document with an accumulator), its sum and what the postings
left are worth (`Due`) make up the total (`Summed`).  A hop takes postings away
unread, so it must be shown that none of them is due to an accumulator.  Hence
`Swept`: the table being sorted, the accumulators before `next` are of documents
the decoder has passed and the others are not; and `Decodes`: the decoder stands
behind a posting, with the next block's document ahead of it (`Known`) unless it
is about to read a header (`Fresh`), so that a block is hopped over only when the
next candidate is beyond it.  For `RoomEnough`, `Rooms` says that the supplement
has a place for each posting left of the term, which is what it was allocated
for; for `LimitKept`, that behind the limit nothing is added (`Limit`).

*The best documents.* `BestAnswers` says nothing of heaps: it compares the answers
with all accumulators there are.  The heap operations are proved for both
comparisons at once, by a `Key` that is smallest at the head: an entry that sinks
leaves a heap behind it wherever it stops (`Sinking`, `HeapifyIs`) and nothing is
lost or doubled (`Reordered`).  While accumulators are offered, `Offered`
says which of them are in the heap, that their sums are 0, and that of the others
behind the loop each has its quotient back in the table, no greater than the
head's; this is where the sum that is put back matters.  With exact weights
heads may become smaller at once, and quotients that were turned down may get in
again: `Tried` says that whatever is out of the heap has either been turned down
by its exact weight or still has its quotient, an upper bound of it, in the
table.  Heads only grow from there, so that what has been turned down
stays out (`TryIs`).  The heap, built anew with the greatest at its head, empties
in order (`Drained`), and where each document has one accumulator none is
dropped as a double (`Retrieved`).  Quotients are compared across the two
weights by `Exactly1`: `sum \div approx * approx` is the sum itself, since every
total is a multiple of the document's weight (`Multiples`).

*Skips.* An entry with skips is a sequence of codes that nobody can read alone:
where a block begins follows from the lengths in the headers before it, and the
last gap of a block is not there at all, but for the last block.  `Laying`, the invariant of the file, says
that there are places, one for each posting, at which the codes lie (`Layout`):
at the place of a posting its count, before it its gap unless it is left out, at
the head of a block the two codes of its header, of which the second is the
distance from behind them to the next head.  That the writer produces such a layout
is an induction over its rounds (`Standing`, `RoundIs`, `WriteLays`): behind posting `j`, what
it has remembered of the block (`last_major`, `bits_so_far`) gives, at the next
head, the bits that it will write until then.  They are measured on the entry as it
was *read*, whose blocks may have been others: `bits_so_far` counts the bits of an
entry without skips, as both loops leave the headers out of it.  The reader, in
turn, reads any layout back to the same postings (`ReadGives`), so that a rebuild
of a rebuild lays the entry out again (`RebuildLays`).

*Queries through skips.* `At` says where `GetDocsOp` is in the layout of its
entry: `i` postings are behind it, `pos` is their place or the head of a block,
`CurrDoc` is the last of their documents, and `next_start`, `next_doc_num` and
`next_i` tell of the next boundary (`Boundary`).  A jump then ends at a head
(`HopAt`), and every code that is looked for is found (`NeverLost`).  The list at
work is the one the term found (`l0`), changed: an AND or a difference has kept
those of its first `src` entries that the word has, or has not (`Kept`), an OR in an
AND has marked them (`Marked`); the entries before `src` are behind `CurrDoc`, the
others before it (`Behind`, `Before`).  A jump leaves postings unread and is
right because none of their documents is a candidate: all lie before the
document of entry `src`, which is what `JumpsAhead` says too.  At the end of the
term the list is right for its set (`RightList`), by `means` the one its part of
the query stands for.  The loops of `lists.c` keep, round by round, that the
entries taken from both lists so far make up what has been joined
(`Intersecting`, `Subtracting`, `Merging`), and in as many rounds as there are
entries they come to the end.  `BooleanInv` is `FileOK`, a layout for every word in
the file and in the `.ORG` file, with `QueryOK`, what has been said of the query.

*Merged files.* `MergedAnswers` speaks of one sequence of documents; the file it is
about was coded in several runs of the program, by parameters that nobody could
tell from the entries.  `Collection` says what all the same holds of a file, built
or merged: there are places (`Laid`), at which the entry of each word stands, made
of its gaps in *all* the documents by the number of documents in the header, whole
in bytes, and at the offset in the index.  A reader that starts there gets the list
back (`EntryRead`, `ListAnswers`); that the length in the index is the length in
code words (`HeldIs`) is why an entry can be copied by it.  The dictionaries are
marked in order (`Marking`), and at the end every word of either has one
mark (`Marked`).  While the entries are merged, `Passed` says for each of the two
files how many of its words the marks have used up, which is how far it has been
read (`ReadingFiles`), and what has been put out is laid out as the first entries
of the file of both texts (`FirstEntries`).  An entry then is right for one of two
reasons.  Copied, it has the gaps it had, since no new document holds the word, and
the header keeps the number of documents it was coded by (`CopiedAdvances`).
Coded anew, its gaps are those of the old list and those of the new one with the first
grown to reach back to the last old document (`GapsJoined`), coded by what the
header is going to say (`SlowAdvances`).  That number may be smaller than a gap, in
a file merged by the fast method: the codes are proved to decode for every gap and
every number (`GapCode`).  The weights of the new documents grow by a part for
each word, in the order of the dictionary (`Weighed`).

Only model-checked:

  - `CountsFit` on disk, and with it `GammaRoom`: the bound is a logarithm, in
    floating point, that the model has in fixed point, exact for as many
    occurrences as the runs have and not for all.
  - `BuildEnds` and `Answered`: liveness under fairness.
  - `BoolOptimiser`, whose trees are rewritten in depth by RECURSIVE operators, which
    the provers cannot expand; one of them, `AndDistribute`, calls itself on trees
    that are no part of the one it was given.
  - Level 1 with rebuilds, where `NeverLost` does not hold.

## 5. Not modelled

Within inversion: splitting a document into paragraphs and `.invf.paragraph`
(a document of the model is a paragraph at level 3), document weights, the text
format of the files, the growth of the hash table, exits for want of memory or
for totals beyond 32 bits, the idx file's entry for the end of file, a text that
differs between the passes, and the contents of a region after an overrun
(regions are separate; `NoOverrun` shows there is none).  Shrinking an empty hash
table to size 0 is taken to return a null pointer, as glibc does.

Within queries: the parsers, paragraph numbers and their conversion
(`AdjustParaDocs`, `Make_Exact_Root`, the joining of paragraphs in `CosineGet`),
`maxdocs` and `maxterms`, the packing of approximate weights and rounding of
floats, weights of 0 (`text/query.ranked.c:507` divides by them), a ranked query
without any known word (`HT_sort` then chains an entry that was never written,
`text/invf_get.c:251`), `max_accumulators` of `all`, the byte alignment of
entries in `SkippedEntry`, and an index or dictionary not renewed after a rebuild.
`max_accumulators` may be set to `all` (`text/environment.c:389`), which becomes -1
(`text/mgquery.c:1022`).  The array and the splay tree then simply have no limit.  The
hash table and the list are created for `(unsigned) -1` entries: the size in bytes,
an `unsigned` too, wraps to less than the table's own header, while `max` says that
2^32 - 1 entries fit (`text/invf_get.c:129-143`, `:302-311`), so that every entry is
written beyond the allocation and neither `LT_add` nor the supplementary table is ever
called for more.  `RoomEnough` is about limits of 8 and more, not about this.

Within merges: sources of documents other than `allfiles`, words that the text
dictionary lacks (spelt out by the default method), interruptions in the second
phase, which leave files that no program repairs, a `.invf.ORG` that is put into
`MERGE` by hand (`mg_invf_merge.c:152` would read it with the offsets of the file
with skips), and the values of weights: `InvertedMerge` keeps the counts they are
summed from.

The components not modelled at all, with the reason for each, are in
`PROJECT.json`.

## 6. Plan

Done: `BlockCode` and `PostingEntry`, with their bounds for gaps and the decoding
of entries proved; `Inversion`, proved to implement `InvertedIndex` and to stay
in its regions; skips and boolean queries (`SkippedEntry`, `BooleanGet`,
`BoolOptimiser`), with all properties of `BooleanGet` proved; ranked queries, with
all safety properties of `Accumulators` and `RankedQuery` proved; merging, with
`MgMerge` proved to implement `MergedCollection`, and `InvertedMerge` with all its
properties proved.  Next:

1. Text: `text.pass1.c`, `comp_dict.c`, `mg_compression_dict.c`, `text.pass2.c`,
   `text_get.c`; decompression inverts compression for each novel-word method.
2. Dictionaries (`mg_invf_dict.c`, `stem_search.c`): front coding in blocks and
   the search over them; approximate weights (`mg_weights_build.c`, `weights.c`).
3. The parser of boolean queries (`bool_parser.y`), the stack of environments
   (`environment.c`), the code lengths of `lib/huffman.c`.
4. Paragraphs: level 3 from `ivf.pass1.c` to `AdjustParaDocs`.
