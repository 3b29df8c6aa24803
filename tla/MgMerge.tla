------------------------------- MODULE MgMerge -------------------------------
(***************************************************************************)
(* scripts/mgmerge.sh, with the default source of new documents            *)
(* (`allfiles` of scripts/mg_get_merge.sh) and the file handling of the    *)
(* programs it runs.  The script moves the files of a collection into a    *)
(* directory MERGE that all collections share, one mv at a time, builds a  *)
(* second collection from the new documents, merges the two and moves the  *)
(* results back; it looks at the status of some of its programs only.      *)
(*                                                                         *)
(* Documents of a collection are numbered as they arrive, and a file is    *)
(* modelled by the documents it is about.  The contents of an inverted     *)
(* file and of its merge are in InvertedMerge.                             *)
(***************************************************************************)
EXTENDS Naturals, Sequences, FiniteSets, SequencesExt

CONSTANTS
  Coll,        \* the collections below $MGDATA
  Rebuilt,     \* the sets of collections whose inverted files may have been rebuilt with skips
  MaxDocs,     \* bound: documents that ever arrive in a collection
  Exclusive,   \* TRUE: a merge is started only with no other one under way or unfinished
  MayStop      \* the steps at which the script may be interrupted

ASSUME MgMergeAssumption ==
  /\ Rebuilt \subseteq SUBSET Coll
  /\ MaxDocs \in Nat \ {0}
  /\ Exclusive \in BOOLEAN
  /\ MayStop \in SUBSET Nat

VARIABLES
  fs,       \* the files: a function on names <<place, collection, suffix>>
  pc,       \* the script of each collection: 0, or the step it is at
  guess,    \* guess[c]: the merge runs without -w, so old weights are kept
  late,     \* documents newer than .mgmergetime
  ready,    \* documents newer than .mgbuildtime and not newer than .mgmergetime
  arrived,  \* how many documents have arrived
  quiet     \* history: documents that arrived outside of a merge's first phase

vars == <<fs, pc, guess, late, ready, arrived, quiet>>

----------------------------------------------------------------------------
(* The script.                                                             *)

Mv(from, to, suffix) == [do |-> "mv", from |-> from, to |-> to, suffix |-> suffix]

Run(tool) == [do |-> tool]

MoveAway ==
  << Mv("base", "old", "text"), Mv("base", "old", "text.idx"),
     Mv("base", "old", "invf"), Mv("base", "old", "invf.idx"),
     Mv("base", "old", "invf.dict"), Mv("base", "merge", "weight") >>

MoveBackAll(suffixes) ==
  [i \in DOMAIN suffixes |->
     Mv(CASE suffixes[i] = "text" -> "old" [] suffixes[i] = "text.dict" -> "new" [] OTHER -> "merge",
        "base", suffixes[i])]

\* Variants: the text is forgotten; the blocked dictionary comes last.
MoveBackNoText ==
  MoveBackAll(<<"text.idx", "text.dict", "invf", "invf.idx", "invf.dict",
                "invf.dict.blocked", "weight", "weight.approx", "text.idx.wgt">>)

MoveBackBlockedLast ==
  MoveBackAll(<<"text", "text.idx", "text.dict", "invf", "invf.idx", "invf.dict",
                "weight", "weight.approx", "text.idx.wgt", "invf.dict.blocked">>)

MoveBack ==
  MoveBackAll(<<"text", "text.idx", "text.dict", "invf", "invf.idx", "invf.dict",
                "invf.dict.blocked", "weight", "weight.approx", "text.idx.wgt">>)

Script ==
  << Mv("base", "new", "text.dict"), Run("init"), Run("pass1"),
     Run("perf_hash_build"), Run("pass2"), Run("cleanup") >>
  \o MoveAway
  \o << Run("text_merge"), Run("invf_merge"), Run("weights_build"), Run("invf_dict") >>
  \o MoveBack \o << Run("rm") >>

\* The step that runs a tool, and the one that brings a file back.
At(tool) == CHOOSE i \in DOMAIN Script : Script[i].do = tool

BackAt(suffix) ==
  CHOOSE i \in DOMAIN Script :
    Script[i].do = "mv" /\ Script[i].to = "base" /\ Script[i].suffix = suffix

FirstPhase == 0 .. At("cleanup")

----------------------------------------------------------------------------
(* Files.                                                                  *)

Exists(place, c, suffix) == <<place, c, suffix>> \in DOMAIN fs

Get(place, c, suffix) == fs[<<place, c, suffix>>]

Writes(files) == [name \in DOMAIN fs \cup DOMAIN files |->
                    IF name \in DOMAIN files THEN files[name] ELSE fs[name]]

\* The offsets of the documents of a text, a unit each, and the text's end.
Offsets(n) == [i \in 1 .. n + 1 |-> i - 1]

\* The collection mgbuild made of a first document.
Built(docs, skips) ==
  LET n == Len(docs)
      body == [ text |-> [n |-> n, docs |-> docs],
                idx  |-> [n |-> n, offs |-> Offsets(n)] ]
  IN [suffix \in {"text", "text.idx", "text.dict", "invf", "invf.idx", "invf.dict",
                  "invf.dict.blocked", "weight", "weight.approx", "text.idx.wgt"} |->
        CASE suffix = "text"         -> body.text
          [] suffix = "text.idx"     -> body.idx
          [] suffix = "text.dict"    -> "codes"
          [] suffix = "text.idx.wgt" -> [idx |-> body.idx, docs |-> docs]
          [] suffix = "invf"         -> [docs |-> docs, skips |-> skips]
          [] OTHER                   -> docs]

BuiltFiles(rebuilt) ==
  [name \in {<<"base", c, s>> : c \in Coll, s \in DOMAIN Built(<<1>>, FALSE)} |->
     Built(<<1>>, name[2] \in rebuilt)[name[3]]]

Init ==
  /\ \E rebuilt \in Rebuilt : fs = BuiltFiles(rebuilt)
  /\ pc = [c \in Coll |-> 0]
  /\ guess = [c \in Coll |-> TRUE]
  /\ late = [c \in Coll |-> {}]
  /\ ready = [c \in Coll |-> {}]
  /\ arrived = [c \in Coll |-> 1]
  /\ quiet = [c \in Coll |-> {}]

----------------------------------------------------------------------------
(* Steps of the script.                                                    *)

Does(c, tool) == pc[c] > 0 /\ Script[pc[c]].do = tool

\* `if ("$status" != "0") exit 1` after a checked program; none after others.
Checked(c, ok) ==
  pc' = [pc EXCEPT ![c] = IF ~ok THEN 0
                          ELSE IF pc[c] = Len(Script) THEN 0 ELSE pc[c] + 1]

Unchecked(c) == Checked(c, TRUE)

\* The operator starts a merge, with or without -w.
Start(c) ==
  /\ pc[c] = 0
  /\ Exclusive => \A other \in Coll \ {c} :
                    pc[other] = 0 /\ \A name \in DOMAIN fs : name[2] = other => name[1] = "base"
  /\ pc' = [pc EXCEPT ![c] = 1]
  /\ \E keep \in BOOLEAN : guess' = [guess EXCEPT ![c] = keep]
  /\ UNCHANGED <<fs, late, ready, arrived, quiet>>

\* mv: a file that is not there is not moved, and the script goes on.
Move(c) ==
  /\ Does(c, "mv")
  /\ LET step == Script[pc[c]]
         from == <<step.from, c, step.suffix>>
         to   == <<step.to, c, step.suffix>>
     IN fs' = IF from \in DOMAIN fs
              THEN [name \in (DOMAIN fs \ {from}) \cup {to} |->
                      IF name = to THEN fs[from] ELSE fs[name]]
              ELSE fs
  /\ Unchecked(c)
  /\ UNCHANGED <<guess, late, ready, arrived, quiet>>

\* Variants: .mgbuildtime is touched too; new documents stay in both sets.
GetInitBoth(c) ==
  /\ Does(c, "init")
  /\ ready' = [ready EXCEPT ![c] = {}]
  /\ late' = [late EXCEPT ![c] = {}]
  /\ Unchecked(c)
  /\ UNCHANGED <<fs, guess, arrived, quiet>>

GetInitKeepsLate(c) ==
  /\ Does(c, "init")
  /\ ready' = [ready EXCEPT ![c] = @ \cup late[c]]
  /\ Unchecked(c)
  /\ UNCHANGED <<fs, guess, late, arrived, quiet>>

\* mg_get_merge -init: touch .mgmergetime; the script looks at its status.
GetInit(c) ==
  /\ Does(c, "init")
  /\ ready' = [ready EXCEPT ![c] = @ \cup late[c]]
  /\ late' = [late EXCEPT ![c] = {}]
  /\ Unchecked(c)
  /\ UNCHANGED <<fs, guess, arrived, quiet>>

\* What mg_get_merge -text puts out, in the order find goes through the directory.
Text(c) == SetToSeq(ready[c])

\* mg_passes -N1: the dictionary of the new documents' words.  Without any words
\* done_ivf_1 fails before it writes one, and the script ends here.
PassOne(c) ==
  LET ok == Text(c) # <<>>
  IN /\ Does(c, "pass1")
     /\ fs' = IF ok THEN Writes([name \in {<<"new", c, "invf.dict">>} |-> Text(c)])
              ELSE fs
     /\ Checked(c, ok)
     /\ UNCHANGED <<guess, late, ready, arrived, quiet>>

\* mg_perf_hash_build: the hash function of the new documents' words.
PerfHashBuild(c) ==
  LET ok == Exists("new", c, "invf.dict")
  IN /\ Does(c, "perf_hash_build")
     /\ fs' = IF ok THEN Writes([name \in {<<"new", c, "invf.dict.hash">>} |->
                                   Get("new", c, "invf.dict")])
              ELSE fs
     /\ Checked(c, ok)
     /\ UNCHANGED <<guess, late, ready, arrived, quiet>>

\* mg_passes -T2 -N2: the new documents are coded by the old dictionary.
PassTwo(c) ==
  LET ok == \A s \in {"text.dict", "invf.dict", "invf.dict.hash"} : Exists("new", c, s)
      docs == Text(c)
      made == [ text |-> [n |-> Len(docs), docs |-> docs],
                idx  |-> [n |-> Len(docs), offs |-> Offsets(Len(docs))],
                invf |-> [docs |-> docs, skips |-> FALSE] ]
  IN /\ Does(c, "pass2")
     /\ fs' = IF ok
              THEN Writes([name \in {<<"new", c, s>> : s \in {"text", "text.idx", "invf", "invf.idx"}} |->
                             CASE name[3] = "text"     -> made.text
                               [] name[3] = "text.idx" -> made.idx
                               [] name[3] = "invf"     -> made.invf
                               [] OTHER                -> docs])
              ELSE fs
     /\ Checked(c, ok)
     /\ UNCHANGED <<guess, late, ready, arrived, quiet>>

\* Variant: only .mgmergetime is touched.
CleanupNoBuildTime(c) ==
  /\ Does(c, "cleanup")
  /\ ready' = [ready EXCEPT ![c] = @ \cup late[c]]
  /\ late' = [late EXCEPT ![c] = {}]
  /\ Unchecked(c)
  /\ UNCHANGED <<fs, guess, arrived, quiet>>

\* mg_get_merge -cleanup: touch .mgmergetime and .mgbuildtime.
Cleanup(c) ==
  /\ Does(c, "cleanup")
  /\ ready' = [ready EXCEPT ![c] = {}]
  /\ late' = [late EXCEPT ![c] = {}]
  /\ Unchecked(c)
  /\ UNCHANGED <<fs, guess, arrived, quiet>>

----------------------------------------------------------------------------
(* The merging programs.  open_file with MG_ABORT ends the program, with   *)
(* what it wrote before left behind.                                       *)

\* mg_text_merge: the new text is appended to the old file in place; the header
\* and the offsets come from the two index files.
MergedIndex(old, new) ==
  LET offset == old.offs[old.n + 1]
  IN [n |-> old.n + new.n,
      offs |-> SubSeq(old.offs, 1, old.n) \o [i \in 1 .. new.n + 1 |-> new.offs[i] + offset]]

\* Variant: the old file is opened as a new one.
AppendedTruncated(old, new) == [n |-> old.n + new.n, docs |-> new.docs]

Appended(old, new) == [n |-> old.n + new.n, docs |-> old.docs \o new.docs]

TextMerge(c) ==
  /\ Does(c, "text_merge")
  /\ IF \A p \in {"old", "new"}, s \in {"text", "text.idx"} : Exists(p, c, s)
     THEN LET idx == MergedIndex(Get("old", c, "text.idx"), Get("new", c, "text.idx"))
              text == Appended(Get("old", c, "text"), Get("new", c, "text"))
          IN fs' = Writes([name \in {<<"old", c, "text">>, <<"merge", c, "text.idx">>} |->
                             IF name[1] = "old" THEN text ELSE idx])
     ELSE UNCHANGED fs
  /\ Unchecked(c)
  /\ UNCHANGED <<guess, late, ready, arrived, quiet>>

\* mg_invf_merge writes first a dictionary with the old header, then an inverted
\* file, and an index; a merge is refused if the old inverted file has skips.  With
\* -w the weights of the new documents are appended to the old weights' file.
InvfWritten(c) ==
  LET dicts  == Exists("old", c, "invf.dict") /\ Exists("new", c, "invf.dict")
      files  == /\ dicts /\ Exists("old", c, "invf") /\ Exists("new", c, "invf")
                /\ ~Get("old", c, "invf").skips
      whole  == files /\ Exists("old", c, "invf.idx") /\ Exists("new", c, "invf.idx")
      weighs == guess[c] /\ Exists("merge", c, "weight")
      Both(s) == Get("old", c, s) \o Get("new", c, s)
      Invf(docs) == [docs |-> docs, skips |-> FALSE]
      suffixes ==
        CASE whole           -> {"invf", "invf.idx", "invf.dict"} \cup (IF weighs THEN {"weight"} ELSE {})
          [] files /\ ~whole -> {"invf", "invf.dict"}
          [] dicts /\ ~files -> {"invf.dict"}
          [] ~dicts          -> {}
  IN [name \in {<<"merge", c, s>> : s \in suffixes} |->
        CASE name[3] = "weight"            -> Get("merge", c, "weight") \o Get("new", c, "invf.dict")
          [] name[3] = "invf" /\ whole      -> Invf(Get("old", c, "invf").docs \o Get("new", c, "invf").docs)
          [] name[3] = "invf" /\ ~whole     -> Invf(<<>>)
          [] name[3] = "invf.dict" /\ ~whole -> Get("old", c, "invf.dict")
          [] OTHER                          -> Both(name[3])]

InvfMerge(c) ==
  /\ Does(c, "invf_merge")
  /\ fs' = Writes(InvfWritten(c))
  /\ Unchecked(c)
  /\ UNCHANGED <<guess, late, ready, arrived, quiet>>

\* After a merge without -w the script removes the old weights.  mg_weights_build
\* computes weights for all documents if there is no file of them, and needs the
\* inverted file for it.
WeightsKept(c) == guess[c] /\ Exists("merge", c, "weight")

Weighs(c) ==
  /\ Exists("merge", c, "invf.dict")
  /\ ~WeightsKept(c) => Exists("merge", c, "invf.idx") /\ Exists("merge", c, "invf")

\* An index with weights takes an .invf.paragraph where texts and index differ in number.
\* It is created before that is known, and stays empty.
Indexes(c) ==
  /\ Weighs(c) /\ Exists("merge", c, "text.idx")
  /\ Get("merge", c, "text.idx").n = Len(Get("merge", c, "invf.dict"))

WeightsWritten(c) ==
  LET weights == IF WeightsKept(c) THEN Get("merge", c, "weight") ELSE Get("merge", c, "invf").docs
      approx  == [i \in DOMAIN Get("merge", c, "invf.dict") |->
                    IF i \in DOMAIN weights THEN weights[i] ELSE 0]
  IN [name \in {<<"merge", c, s>> : s \in {"weight", "weight.approx", "text.idx.wgt"}} |->
        CASE name[3] = "weight"        -> weights
          [] name[3] = "weight.approx" -> approx
          [] name[3] = "text.idx.wgt" /\ Indexes(c) -> [idx |-> Get("merge", c, "text.idx"), docs |-> approx]
          [] OTHER                     -> [idx |-> [n |-> 0, offs |-> <<>>], docs |-> <<>>]]

WeightsBuild(c) ==
  /\ Does(c, "weights_build")
  /\ fs' = IF Weighs(c) THEN Writes(WeightsWritten(c))
           ELSE [name \in DOMAIN fs \ (IF guess[c] THEN {} ELSE {<<"merge", c, "weight">>}) |-> fs[name]]
  /\ Checked(c, Indexes(c))
  /\ UNCHANGED <<guess, late, ready, arrived, quiet>>

\* mg_invf_dict: the blocked dictionary, with the offsets of .invf.idx.
InvfDict(c) ==
  /\ Does(c, "invf_dict")
  /\ fs' = IF Exists("merge", c, "invf.dict") /\ Exists("merge", c, "invf.idx")
           THEN Writes([name \in {<<"merge", c, "invf.dict.blocked">>} |-> Get("merge", c, "invf.idx")])
           ELSE fs
  /\ Unchecked(c)
  /\ UNCHANGED <<guess, late, ready, arrived, quiet>>

\* rm -f MERGE/*, whoever's files they are.  mgstat, which comes after, only reads.
RemoveAll(c) ==
  /\ Does(c, "rm")
  /\ fs' = [name \in {f \in DOMAIN fs : f[1] = "base"} |-> fs[name]]
  /\ Unchecked(c)
  /\ UNCHANGED <<guess, late, ready, arrived, quiet>>

----------------------------------------------------------------------------
(* The surroundings.                                                       *)

\* A document arrives in the directory of a collection.
Arrive(c) ==
  /\ arrived[c] < MaxDocs
  /\ arrived' = [arrived EXCEPT ![c] = @ + 1]
  /\ late' = [late EXCEPT ![c] = @ \cup {arrived[c] + 1}]
  /\ quiet' = [quiet EXCEPT ![c] = IF pc[c] \in At("init") + 1 .. At("cleanup") THEN @
                                   ELSE @ \cup {arrived[c] + 1}]
  /\ UNCHANGED <<fs, pc, guess, ready>>

\* The script is interrupted before it does its next step.
Interrupt(c) ==
  /\ pc[c] \in MayStop
  /\ pc' = [pc EXCEPT ![c] = 0]
  /\ UNCHANGED <<fs, guess, late, ready, arrived, quiet>>

Next ==
  \E c \in Coll :
    \/ Start(c) \/ Move(c) \/ GetInit(c) \/ PassOne(c) \/ PerfHashBuild(c) \/ PassTwo(c)
    \/ Cleanup(c) \/ TextMerge(c) \/ InvfMerge(c) \/ WeightsBuild(c) \/ InvfDict(c)
    \/ RemoveAll(c) \/ Arrive(c) \/ Interrupt(c)

Spec == Init /\ [][Next]_vars

----------------------------------------------------------------------------
(* Properties.                                                             *)

\* Every file is one of a collection's, the script is at one of its steps, and
\* documents on offer have arrived and are new or waiting, not both.
TypeOK ==
  /\ \A name \in DOMAIN fs : name[1] \in {"base", "old", "new", "merge"} /\ name[2] \in Coll
  /\ pc \in [Coll -> 0 .. Len(Script)]
  /\ guess \in [Coll -> BOOLEAN]
  /\ arrived \in [Coll -> 1 .. MaxDocs]
  /\ \A c \in Coll : /\ late[c] \cup ready[c] \subseteq 1 .. arrived[c]
                     /\ late[c] \cap ready[c] = {}
                     /\ quiet[c] \subseteq 1 .. arrived[c]

\* The files of a collection in its own directory are all there and are about the
\* same documents: inverted file, index, dictionaries, weights and text.
Agree(c, docs) ==
  LET want == Built(docs, FALSE)
  IN \A s \in DOMAIN want \ {"text.dict"} :
       /\ Exists("base", c, s)
       /\ IF s = "invf" THEN Get("base", c, s).docs = want[s].docs ELSE Get("base", c, s) = want[s]

\* From the start of a merge to the end of its first phase, and when it has ended,
\* failed there or been interrupted there, nine files of one generation are in place
\* and the text dictionary is there or where the next merge will look for it.  (The
\* merge of an inverted file with skips fails behind that phase.)
FilesAgree ==
  \A c \in Coll : pc[c] \in FirstPhase /\ ~(Exists("old", c, "invf") /\ Get("old", c, "invf").skips) =>
    /\ Exists("base", c, "invf") /\ Agree(c, Get("base", c, "invf").docs)
    /\ Exists("base", c, "text.dict") # Exists("new", c, "text.dict")

\* mgquery opens a collection: backend.c:81.
Opens(c) == \A s \in {"text", "text.dict", "invf.dict.blocked", "invf"} : Exists("base", c, s)

\* A query program that opens a collection at any moment of a merge finds files of
\* one generation, but for the steps from the return of .invf to that of the last.
ServedWhole ==
  \A c \in Coll :
    Opens(c) /\ pc[c] \notin BackAt("invf") + 1 .. BackAt("text.idx.wgt")
      => LET docs == Get("base", c, "invf").docs
         IN /\ Get("base", c, "text").docs = docs
            /\ Get("base", c, "invf.dict.blocked") = docs
            /\ Exists("base", c, "text.idx.wgt") =>
                 Get("base", c, "text.idx.wgt") = [idx |-> [n |-> Len(docs), offs |-> Offsets(Len(docs))],
                                                   docs |-> docs]

\* A document that arrived outside the first phase of a merge is on offer to the
\* next merge, in the hands of this one, or merged.
QuietKept ==
  \A c \in Coll : \A d \in quiet[c] :
    \/ d \in late[c] \cup ready[c]
    \/ \E p \in {"base", "old", "new"} :
         Exists(p, c, "text") /\ d \in Range(Get(p, c, "text").docs)

\* The documents whose text can be read: a text file has it and the codes are there.
Held(c) ==
  IF \E p \in {"base", "new"} : Exists(p, c, "text.dict")
  THEN UNION {Range(Get(p, c, "text").docs) : p \in {q \in {"base", "old"} : Exists(q, c, "text")}}
  ELSE {}

\* mgmerge.1: "mgmerge cannot edit or delete documents already in a database".
NothingDeleted == [][\A c \in Coll : Held(c) \subseteq Held(c)']_vars

\* A merge adds the new documents after the old ones, each once (mgmerge.1): the
\* documents a collection stands for are those of the old files until they are gone.
Promise == INSTANCE MergedCollection WITH
  built <- [c \in Coll |-> Get(IF Exists("old", c, "invf") THEN "old" ELSE "base", c, "invf").docs]

GrowsByBatches == Promise!Spec
==============================================================================
