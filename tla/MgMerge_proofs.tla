---------------------------- MODULE MgMerge_proofs ----------------------------
(***************************************************************************)
(* The merge script keeps the documents it is given, its files agree, and  *)
(* a collection only grows by whole batches, as MergedCollection promises: *)
(* for any number of collections and documents and any sequence of merges, *)
(* as long as merges exclude each other and the script is interrupted in   *)
(* its first phase only.                                                   *)
(***************************************************************************)
EXTENDS MgMerge, SequenceTheorems, FiniteSetTheorems, TLAPS

Places == {"base", "old", "new", "merge"}

Kinds ==
  {"text", "text.idx", "text.dict", "invf", "invf.idx", "invf.dict", "invf.dict.hash",
   "invf.dict.blocked", "weight", "weight.approx", "text.idx.wgt"}

Tools ==
  {"init", "pass1", "perf_hash_build", "pass2", "cleanup", "text_merge", "invf_merge",
   "weights_build", "invf_dict", "rm"}

\* The documents of the text file at a place.
TextAt(p, c) == Range(Get(p, c, "text").docs)

\* The place of the collection's own text: its directory, or MERGE.
Home(c) == IF Exists("base", c, "text") THEN "base" ELSE "old"

\* Every file lies at a known place, and a text is a sequence of documents.
FilesOK ==
  /\ \A name \in DOMAIN fs :
       \E p \in Places, c \in Coll, s \in Kinds : name = <<p, c, s>>
  /\ \A p \in Places, c \in Coll : Exists(p, c, "text") => Get(p, c, "text").docs \in Seq(Nat)

\* The script is at one of its steps; documents are numbered as they arrive.
Types ==
  /\ pc \in [Coll -> 0 .. 27]
  /\ guess \in [Coll -> BOOLEAN]
  /\ arrived \in [Coll -> 1 .. MaxDocs]
  /\ late \in [Coll -> SUBSET Nat]
  /\ ready \in [Coll -> SUBSET Nat]
  /\ quiet \in [Coll -> SUBSET Nat]

Numbered(c) ==
  /\ late[c] \cup ready[c] \cup quiet[c] \subseteq 1 .. arrived[c]
  /\ late[c] \cap ready[c] = {}

\* While one merge is under way the others rest, with all of their files at home.
OneMerge ==
  \A c, d \in Coll : c # d /\ pc[c] > 0 =>
    /\ pc[d] = 0
    /\ \A p \in Places \ {"base"}, s \in Kinds : ~Exists(p, d, s)

\* Text and index go to MERGE and come back together, the text first.
TextPlaced(c) ==
  /\ Exists("base", c, "text") <=> ~Exists("old", c, "text")
  /\ pc[c] <= 7 => /\ Exists("base", c, "text.idx") <=> Exists("base", c, "text")
                   /\ Exists("old", c, "text") => Exists("old", c, "text.idx")
  /\ pc[c] = 8 => /\ Exists("old", c, "text")
                  /\ Exists("base", c, "text.idx") \/ Exists("old", c, "text.idx")
  /\ pc[c] \in 9 .. 17 => /\ Exists("old", c, "text") /\ Exists("old", c, "text.idx")
                          /\ ~Exists("base", c, "text.idx")
  /\ pc[c] \in 14 .. 18 => Exists("merge", c, "text.idx")
  /\ pc[c] >= 18 => Exists("base", c, "text")
  /\ pc[c] >= 19 => Exists("base", c, "text.idx")

\* A document that arrived outside of the window is where the next step of the
\* script finds it.
Accounted(c) ==
  /\ pc[c] \in 3 .. 6 => late[c] \cap quiet[c] = {}
  /\ pc[c] \in 6 .. 13 => Exists("new", c, "text") /\ Exists("new", c, "text.idx")
  /\ pc[c] = 6 => ready[c] \subseteq TextAt("new", c)
  /\ quiet[c] \subseteq late[c] \cup ready[c] \cup TextAt(Home(c), c)
                          \cup (IF pc[c] \in 7 .. 13 THEN TextAt("new", c) ELSE {})

IInv ==
  /\ Types /\ FilesOK /\ OneMerge
  /\ \A c \in Coll : Numbered(c) /\ TextPlaced(c) /\ Accounted(c)
----------------------------------------------------------------------------
(* The script, step by step.                                               *)

FirstSteps ==
  << Mv("base", "new", "text.dict"), Run("init"), Run("pass1"),
     Run("perf_hash_build"), Run("pass2"), Run("cleanup") >>

MergeSteps ==
  << Run("text_merge"), Run("invf_merge"), Run("weights_build"), Run("invf_dict") >>

LEMMA MoveBackSteps ==
  MoveBack = << Mv("old", "base", "text"), Mv("merge", "base", "text.idx"),
                Mv("new", "base", "text.dict"), Mv("merge", "base", "invf"),
                Mv("merge", "base", "invf.idx"), Mv("merge", "base", "invf.dict"),
                Mv("merge", "base", "invf.dict.blocked"), Mv("merge", "base", "weight"),
                Mv("merge", "base", "weight.approx"), Mv("merge", "base", "text.idx.wgt") >>
  BY DEF MoveBack, MoveBackAll

Steps == [do : {"mv"}, from : Places, to : Places, suffix : Kinds] \cup [do : Tools]

LEMMA Joined ==
  ASSUME NEW S, NEW s \in Seq(S), NEW t \in Seq(S)
  PROVE  /\ s \o t \in Seq(S) /\ Len(s \o t) = Len(s) + Len(t)
         /\ \A i \in 1 .. Len(s) : (s \o t)[i] = s[i]
         /\ \A i \in Len(s) + 1 .. Len(s) + Len(t) : (s \o t)[i] = t[i - Len(s)]
  <1>1. s \o t \in Seq(S) /\ Len(s \o t) = Len(s) + Len(t)
    BY ConcatProperties
  <1>2. Len(s) \in Nat /\ Len(t) \in Nat
    OBVIOUS
  <1>3. \A i \in 1 .. Len(s) : (s \o t)[i] = s[i]
    BY <1>2, ConcatProperties
  <1>4. \A i \in Len(s) + 1 .. Len(s) + Len(t) : (s \o t)[i] = t[i - Len(s)]
    BY <1>2, ConcatProperties
  <1> QED
    BY <1>1, <1>3, <1>4

LEMMA StepsAre ==
  /\ \A from, to \in Places, suffix \in Kinds : Mv(from, to, suffix) \in Steps
  /\ \A tool \in Tools : Run(tool) \in Steps
  BY DEF Steps, Mv, Run

LEMMA ScriptSteps ==
  /\ Script \in Seq(Steps) /\ Len(Script) = 27
  /\ \A i \in 1 .. 6 : Script[i] = FirstSteps[i]
  /\ \A i \in 7 .. 12 : Script[i] = MoveAway[i - 6]
  /\ \A i \in 13 .. 16 : Script[i] = MergeSteps[i - 12]
  /\ \A i \in 17 .. 26 : Script[i] = MoveBack[i - 16]
  /\ Script[27] = Run("rm")
  <1> DEFINE Final == <<Run("rm")>>
  <1>1. FirstSteps \in Seq(Steps) /\ Len(FirstSteps) = 6
    BY StepsAre DEF FirstSteps, Places, Kinds, Tools
  <1>2. MoveAway \in Seq(Steps) /\ Len(MoveAway) = 6
    BY StepsAre DEF MoveAway, Places, Kinds, Tools
  <1>3. MergeSteps \in Seq(Steps) /\ Len(MergeSteps) = 4
    BY StepsAre DEF MergeSteps, Places, Kinds, Tools
  <1>4. MoveBack \in Seq(Steps) /\ Len(MoveBack) = 10
    BY MoveBackSteps, StepsAre DEF Places, Kinds
  <1>5. Final \in Seq(Steps) /\ Len(Final) = 1 /\ Final[1] = Run("rm")
    BY StepsAre DEF Tools
  <1> DEFINE S1 == FirstSteps \o MoveAway
             S2 == S1 \o MergeSteps
             S3 == S2 \o MoveBack
             S4 == S3 \o Final
  <1> HIDE DEF Final
  <1>6. /\ S1 \in Seq(Steps) /\ Len(S1) = 12
        /\ \A i \in 1 .. 6 : S1[i] = FirstSteps[i]
        /\ \A i \in 7 .. 12 : S1[i] = MoveAway[i - 6]
    <2>1. /\ S1 \in Seq(Steps) /\ Len(S1) = Len(FirstSteps) + Len(MoveAway)
          /\ \A i \in 1 .. Len(FirstSteps) : S1[i] = FirstSteps[i]
          /\ \A i \in Len(FirstSteps) + 1 .. Len(FirstSteps) + Len(MoveAway) : S1[i] = MoveAway[i - Len(FirstSteps)]
      BY <1>1, <1>2, Joined
    <2>2. Len(FirstSteps) = 6 /\ Len(MoveAway) = 6
      BY <1>1, <1>2
    <2> HIDE DEF S1
    <2> QED
      BY <2>1, <2>2
  <1> HIDE DEF S1
  <1>7. /\ S2 \in Seq(Steps) /\ Len(S2) = 16
        /\ \A i \in 1 .. 12 : S2[i] = S1[i]
        /\ \A i \in 13 .. 16 : S2[i] = MergeSteps[i - 12]
    <2>1. /\ S2 \in Seq(Steps) /\ Len(S2) = Len(S1) + Len(MergeSteps)
          /\ \A i \in 1 .. Len(S1) : S2[i] = S1[i]
          /\ \A i \in Len(S1) + 1 .. Len(S1) + Len(MergeSteps) : S2[i] = MergeSteps[i - Len(S1)]
      BY <1>6, <1>3, Joined, ZenonT(60)
    <2>2. Len(S1) = 12 /\ Len(MergeSteps) = 4
      BY <1>6, <1>3
    <2> HIDE DEF S2
    <2> QED
      BY <2>1, <2>2
  <1> HIDE DEF S2
  <1>8. /\ S3 \in Seq(Steps) /\ Len(S3) = 26
        /\ \A i \in 1 .. 16 : S3[i] = S2[i]
        /\ \A i \in 17 .. 26 : S3[i] = MoveBack[i - 16]
    <2>1. /\ S3 \in Seq(Steps) /\ Len(S3) = Len(S2) + Len(MoveBack)
          /\ \A i \in 1 .. Len(S2) : S3[i] = S2[i]
          /\ \A i \in Len(S2) + 1 .. Len(S2) + Len(MoveBack) : S3[i] = MoveBack[i - Len(S2)]
      BY <1>7, <1>4, Joined, ZenonT(60)
    <2>2. Len(S2) = 16 /\ Len(MoveBack) = 10
      BY <1>7, <1>4
    <2> HIDE DEF S3
    <2> QED
      BY <2>1, <2>2
  <1> HIDE DEF S3
  <1>9. /\ S4 \in Seq(Steps) /\ Len(S4) = 27
        /\ \A i \in 1 .. 26 : S4[i] = S3[i]
        /\ \A i \in 27 .. 27 : S4[i] = Final[i - 26]
    <2>1. /\ S4 \in Seq(Steps) /\ Len(S4) = Len(S3) + Len(Final)
          /\ \A i \in 1 .. Len(S3) : S4[i] = S3[i]
          /\ \A i \in Len(S3) + 1 .. Len(S3) + Len(Final) : S4[i] = Final[i - Len(S3)]
      BY <1>8, <1>5, Joined, ZenonT(60)
    <2>2. Len(S3) = 26 /\ Len(Final) = 1
      BY <1>8, <1>5
    <2> HIDE DEF S4
    <2> QED
      BY <2>1, <2>2
  <1> HIDE DEF S4
  <1>10. Script = S4
    BY DEF Script, FirstSteps, MergeSteps, S1, S2, S3, S4, Final
  <1>11. ASSUME NEW i \in 1 .. 12 PROVE S4[i] = S1[i]
    <2>0. i \in 1 .. 26 /\ i \in 1 .. 16
      OBVIOUS
    <2>1. S4[i] = S3[i]
      BY <2>0, <1>9
    <2>2. S3[i] = S2[i]
      BY <2>0, <1>8
    <2>3. S2[i] = S1[i]
      BY <1>7
    <2> QED
      BY <2>1, <2>2, <2>3
  <1>12. ASSUME NEW i \in 13 .. 16 PROVE S4[i] = MergeSteps[i - 12]
    <2>0. i \in 1 .. 26 /\ i \in 1 .. 16
      OBVIOUS
    <2>1. S4[i] = S3[i]
      BY <2>0, <1>9
    <2>2. S3[i] = S2[i]
      BY <2>0, <1>8
    <2>3. S2[i] = MergeSteps[i - 12]
      BY <1>7
    <2> QED
      BY <2>1, <2>2, <2>3
  <1>13. ASSUME NEW i \in 17 .. 26 PROVE S4[i] = MoveBack[i - 16]
    <2>0. i \in 1 .. 26
      OBVIOUS
    <2>1. S4[i] = S3[i]
      BY <2>0, <1>9
    <2>2. S3[i] = MoveBack[i - 16]
      BY <1>8
    <2> QED
      BY <2>1, <2>2
  <1>14. S4[27] = Run("rm")
    <2>1. S4[27] = Final[27 - 26]
      BY <1>9
    <2> QED
      BY <2>1, <1>5
  <1>15. ASSUME NEW i \in 1 .. 6 PROVE S4[i] = FirstSteps[i]
    BY <1>6, <1>11
  <1>16. ASSUME NEW i \in 7 .. 12 PROVE S4[i] = MoveAway[i - 6]
    BY <1>6, <1>11
  <1>17. S4 \in Seq(Steps) /\ Len(S4) = 27
    BY <1>9
  <1> QED
    BY <1>10, <1>12, <1>13, <1>14, <1>15, <1>16, <1>17

LEMMA ScriptAway == \A i \in 7 .. 12 : Script[i] = MoveAway[i - 6]
  BY ScriptSteps

LEMMA ScriptBack == \A i \in 17 .. 26 : Script[i] = MoveBack[i - 16]
  BY ScriptSteps

\* What the script does at each step.
LEMMA Commands ==
  /\ \A i \in {1} \cup 7 .. 12 \cup 17 .. 26 : Script[i].do = "mv"
  /\ Script[2].do = "init" /\ Script[3].do = "pass1" /\ Script[4].do = "perf_hash_build"
  /\ Script[5].do = "pass2" /\ Script[6].do = "cleanup"
  /\ Script[13].do = "text_merge" /\ Script[14].do = "invf_merge"
  /\ Script[15].do = "weights_build" /\ Script[16].do = "invf_dict"
  /\ Script[27].do = "rm"
  <1>1. Script[1].do = "mv"
    BY ScriptSteps DEF FirstSteps, Mv
  <1>2. /\ Script[2].do = "init" /\ Script[3].do = "pass1" /\ Script[4].do = "perf_hash_build"
        /\ Script[5].do = "pass2" /\ Script[6].do = "cleanup"
    BY ScriptSteps, SMTT(60) DEF FirstSteps, Run
  <1>3. \A i \in 7 .. 12 : Script[i].do = "mv"
    BY ScriptSteps, SMTT(60) DEF MoveAway, Mv
  <1>4. /\ Script[13].do = "text_merge" /\ Script[14].do = "invf_merge"
        /\ Script[15].do = "weights_build" /\ Script[16].do = "invf_dict"
    BY ScriptSteps, SMTT(60) DEF MergeSteps, Run
  <1>5. \A i \in 17 .. 26 : Script[i].do = "mv"
    <2>1. \A k \in 1 .. 10 : MoveBack[k].do = "mv"
      BY MoveBackSteps DEF Mv
    <2> QED
      BY <2>1, ScriptBack
  <1>6. Script[27].do = "rm"
    BY ScriptSteps DEF Run
  <1> QED
    BY <1>1, <1>2, <1>3, <1>4, <1>5, <1>6

\* Where the script is when it does a thing.
LEMMA StepOf ==
  ASSUME NEW i \in 1 .. 27
  PROVE  /\ Script[i].do = "init" <=> i = 2
         /\ Script[i].do = "pass1" <=> i = 3
         /\ Script[i].do = "perf_hash_build" <=> i = 4
         /\ Script[i].do = "pass2" <=> i = 5
         /\ Script[i].do = "cleanup" <=> i = 6
         /\ Script[i].do = "text_merge" <=> i = 13
         /\ Script[i].do = "invf_merge" <=> i = 14
         /\ Script[i].do = "weights_build" <=> i = 15
         /\ Script[i].do = "invf_dict" <=> i = 16
         /\ Script[i].do = "rm" <=> i = 27
  <1>1. \/ i \in {1} \cup 7 .. 12 \cup 17 .. 26
        \/ i \in {2, 3, 4, 5, 6} \/ i \in {13, 14, 15, 16} \/ i = 27
    OBVIOUS
  <1> QED
    BY <1>1, Commands

\* What the script moves: text and index at four of its steps, other files at others.
LEMMA Moves ==
  ASSUME NEW i \in 1 .. 27, Script[i].do = "mv"
  PROVE  /\ Script[i].from \in Places /\ Script[i].to \in Places /\ Script[i].suffix \in Kinds
         /\ i = 7 => Script[i] = Mv("base", "old", "text")
         /\ i = 8 => Script[i] = Mv("base", "old", "text.idx")
         /\ i = 17 => Script[i] = Mv("old", "base", "text")
         /\ i = 18 => Script[i] = Mv("merge", "base", "text.idx")
         /\ i \notin {7, 8, 17, 18} => Script[i].suffix \notin {"text", "text.idx"}
  <1> DEFINE Other(step) == /\ step.from \in Places /\ step.to \in Places
                            /\ step.suffix \in Kinds \ {"text", "text.idx"}
  <1>1. Script[1] = Mv("base", "new", "text.dict")
    BY ScriptSteps DEF FirstSteps
  <1>2. Script[7] = Mv("base", "old", "text") /\ Script[8] = Mv("base", "old", "text.idx")
    BY ScriptSteps DEF MoveAway
  <1>3. \A k \in 9 .. 12 : Other(Script[k])
    <2>1. \A k \in 3 .. 6 : Other(MoveAway[k])
      BY DEF MoveAway, Mv, Places, Kinds
    <2> QED
      BY <2>1, ScriptAway
  <1>4. Script[17] = Mv("old", "base", "text") /\ Script[18] = Mv("merge", "base", "text.idx")
    BY ScriptBack, MoveBackSteps
  <1>5. \A k \in 19 .. 26 : Other(Script[k])
    <2>1. \A k \in 3 .. 10 : Other(MoveBack[k])
      BY MoveBackSteps DEF Mv, Places, Kinds
    <2> QED
      BY <2>1, ScriptBack
  <1>6. \A from, to \in Places, suffix \in Kinds :
          LET step == Mv(from, to, suffix)
          IN step.from = from /\ step.to = to /\ step.suffix = suffix
    BY DEF Mv
  <1>7. i \in {1, 7, 8, 17, 18} \/ i \in 9 .. 12 \/ i \in 19 .. 26
    BY StepOf, Commands
  <1> QED
    BY <1>1, <1>2, <1>3, <1>4, <1>5, <1>6, <1>7 DEF Places, Kinds

----------------------------------------------------------------------------
(* Files that a step leaves alone.                                         *)

Same(p, c, s) ==
  /\ Exists(p, c, s)' <=> Exists(p, c, s)
  /\ Exists(p, c, s) => Get(p, c, s)' = Get(p, c, s)

TextKinds == {"text", "text.idx"}

\* A step of c's script that leaves the other collections alone.
Own(c) == \A p \in Places, d \in Coll \ {c}, s \in Kinds : Same(p, d, s)

\* A step that leaves all texts alone.
TextsKept == \A p \in Places, d \in Coll, s \in TextKinds : Same(p, d, s)

LEMMA WritesAre ==
  ASSUME NEW files, NEW name
  PROVE  /\ name \in DOMAIN Writes(files) <=> name \in DOMAIN fs \/ name \in DOMAIN files
         /\ name \in DOMAIN files => Writes(files)[name] = files[name]
         /\ name \in DOMAIN fs \ DOMAIN files => Writes(files)[name] = fs[name]
  BY DEF Writes

\* Writing files of c that are no texts.
LEMMA WritesOwn ==
  ASSUME NEW c \in Coll, FilesOK, NEW files, fs' = Writes(files),
         \A name \in DOMAIN files :
           \E p \in Places, s \in Kinds \ TextKinds : name = <<p, c, s>>
  PROVE  FilesOK' /\ Own(c) /\ TextsKept
  <1>1. ASSUME NEW p \in Places, NEW d \in Coll, NEW s \in Kinds,
               d # c \/ s \in TextKinds
        PROVE  Same(p, d, s)
    <2>1. <<p, d, s>> \notin DOMAIN files
      BY <1>1
    <2> QED
      BY <2>1, WritesAre DEF Same, Exists, Get
  <1>2. Own(c) /\ TextsKept
    BY <1>1 DEF Own, TextsKept, TextKinds, Kinds
  <1>3. \A name \in DOMAIN fs' : \E p \in Places, d \in Coll, s \in Kinds : name = <<p, d, s>>
    BY WritesAre DEF FilesOK
  <1>4. ASSUME NEW p \in Places, NEW d \in Coll, Exists(p, d, "text")'
        PROVE  (Get(p, d, "text").docs \in Seq(Nat))'
    BY <1>2, <1>4 DEF TextsKept, TextKinds, Same, FilesOK
  <1> QED
    BY <1>2, <1>3, <1>4 DEF FilesOK

LEMMA NoFileChanged ==
  ASSUME NEW c \in Coll, FilesOK, UNCHANGED fs
  PROVE  FilesOK' /\ Own(c) /\ TextsKept
  BY DEF FilesOK, Own, TextsKept, Same, Exists, Get

LEMMA PassOneFiles ==
  ASSUME NEW c \in Coll, FilesOK, PassOne(c)
  PROVE  FilesOK' /\ Own(c) /\ TextsKept
  <1> DEFINE files == [name \in {<<"new", c, "invf.dict">>} |-> Text(c)]
  <1>1. fs' = Writes(files) \/ UNCHANGED fs
    BY DEF PassOne
  <1>2. \A name \in DOMAIN files :
          \E p \in Places, s \in Kinds \ TextKinds : name = <<p, c, s>>
    BY DEF Places, Kinds, TextKinds
  <1> QED
    BY <1>1, <1>2, WritesOwn, NoFileChanged

LEMMA PerfHashBuildFiles ==
  ASSUME NEW c \in Coll, FilesOK, PerfHashBuild(c)
  PROVE  FilesOK' /\ Own(c) /\ TextsKept
  <1> DEFINE files == [name \in {<<"new", c, "invf.dict.hash">>} |-> Get("new", c, "invf.dict")]
  <1>1. fs' = Writes(files) \/ UNCHANGED fs
    BY DEF PerfHashBuild
  <1>2. \A name \in DOMAIN files :
          \E p \in Places, s \in Kinds \ TextKinds : name = <<p, c, s>>
    BY DEF Places, Kinds, TextKinds
  <1> QED
    BY <1>1, <1>2, WritesOwn, NoFileChanged

LEMMA InvfMergeFiles ==
  ASSUME NEW c \in Coll, FilesOK, InvfMerge(c)
  PROVE  FilesOK' /\ Own(c) /\ TextsKept
  <1>1. fs' = Writes(InvfWritten(c))
    BY DEF InvfMerge
  <1>2. DOMAIN InvfWritten(c) \subseteq
          {<<"merge", c, s>> : s \in {"invf", "invf.idx", "invf.dict", "weight"}}
    BY DEF InvfWritten
  <1>3. \A name \in DOMAIN InvfWritten(c) :
          \E p \in Places, s \in Kinds \ TextKinds : name = <<p, c, s>>
    BY <1>2 DEF Places, Kinds, TextKinds
  <1> QED
    BY <1>1, <1>3, WritesOwn

LEMMA InvfDictFiles ==
  ASSUME NEW c \in Coll, FilesOK, InvfDict(c)
  PROVE  FilesOK' /\ Own(c) /\ TextsKept
  <1> DEFINE files == [name \in {<<"merge", c, "invf.dict.blocked">>} |-> Get("merge", c, "invf.idx")]
  <1>1. fs' = Writes(files) \/ UNCHANGED fs
    BY DEF InvfDict
  <1>2. \A name \in DOMAIN files :
          \E p \in Places, s \in Kinds \ TextKinds : name = <<p, c, s>>
    BY DEF Places, Kinds, TextKinds
  <1> QED
    BY <1>1, <1>2, WritesOwn, NoFileChanged

LEMMA WeightsBuildFiles ==
  ASSUME NEW c \in Coll, FilesOK, WeightsBuild(c)
  PROVE  FilesOK' /\ Own(c) /\ TextsKept
  <1> DEFINE weight == <<"merge", c, "weight">>
  <1>1. \/ fs' = Writes(WeightsWritten(c))
        \/ fs' = [name \in DOMAIN fs \ (IF guess[c] THEN {} ELSE {weight}) |-> fs[name]]
    BY DEF WeightsBuild
  <1>2. CASE fs' = Writes(WeightsWritten(c))
    <2>1. DOMAIN WeightsWritten(c) \subseteq
            {<<"merge", c, s>> : s \in {"weight", "weight.approx", "text.idx.wgt"}}
      BY DEF WeightsWritten
    <2>2. \A name \in DOMAIN WeightsWritten(c) :
            \E p \in Places, s \in Kinds \ TextKinds : name = <<p, c, s>>
      BY <2>1 DEF Places, Kinds, TextKinds
    <2> QED
      BY <1>2, <2>2, WritesOwn
  <1>3. CASE fs' = [name \in DOMAIN fs \ (IF guess[c] THEN {} ELSE {weight}) |-> fs[name]]
    <2>1. ASSUME NEW p \in Places, NEW d \in Coll, NEW s \in Kinds,
                 d # c \/ s \in TextKinds
          PROVE  Same(p, d, s)
      <3>1. <<p, d, s>> # weight
        BY <2>1 DEF TextKinds
      <3> QED
        BY <3>1, <1>3 DEF Same, Exists, Get
    <2>2. Own(c) /\ TextsKept
      BY <2>1 DEF Own, TextsKept, TextKinds, Kinds
    <2>3. \A name \in DOMAIN fs' : \E p \in Places, d \in Coll, s \in Kinds : name = <<p, d, s>>
      BY <1>3 DEF FilesOK
    <2>4. ASSUME NEW p \in Places, NEW d \in Coll, Exists(p, d, "text")'
          PROVE  (Get(p, d, "text").docs \in Seq(Nat))'
      BY <2>2, <2>4 DEF TextsKept, TextKinds, Same, FilesOK
    <2> QED
      BY <2>2, <2>3, <2>4 DEF FilesOK
  <1> QED
    BY <1>1, <1>2, <1>3

\* What mv does to the files.
Moved(from, to) ==
  fs' = IF from \in DOMAIN fs
        THEN [name \in (DOMAIN fs \ {from}) \cup {to} |-> IF name = to THEN fs[from] ELSE fs[name]]
        ELSE fs

LEMMA MoveOther ==
  ASSUME NEW c \in Coll, FilesOK, NEW from \in Places, NEW to \in Places,
         NEW suffix \in Kinds \ TextKinds, Moved(<<from, c, suffix>>, <<to, c, suffix>>)
  PROVE  FilesOK' /\ Own(c) /\ TextsKept
  <1>1. ASSUME NEW p \in Places, NEW d \in Coll, NEW s \in Kinds,
               d # c \/ s \in TextKinds
        PROVE  Same(p, d, s)
    <2>1. <<p, d, s>> # <<from, c, suffix>> /\ <<p, d, s>> # <<to, c, suffix>>
      BY <1>1
    <2> QED
      BY <2>1 DEF Same, Exists, Get, Moved
  <1>2. Own(c) /\ TextsKept
    BY <1>1 DEF Own, TextsKept, TextKinds, Kinds
  <1>3. \A name \in DOMAIN fs' : \E p \in Places, d \in Coll, s \in Kinds : name = <<p, d, s>>
    BY DEF FilesOK, Moved
  <1>4. ASSUME NEW p \in Places, NEW d \in Coll, Exists(p, d, "text")'
        PROVE  (Get(p, d, "text").docs \in Seq(Nat))'
    BY <1>2, <1>4 DEF TextsKept, TextKinds, Same, FilesOK
  <1> QED
    BY <1>2, <1>3, <1>4 DEF FilesOK

----------------------------------------------------------------------------
(* The order of find has every document of a set once.                     *)

LEMMA SetToSeqRange ==
  ASSUME NEW S, IsFiniteSet(S)
  PROVE  SetToSeq(S) \in Seq(S) /\ Range(SetToSeq(S)) = S
  <1> DEFINE n == Cardinality(S)
  <1>1. n \in Nat /\ ExistsBijection(1 .. n, S)
    BY FS_CardinalityType
  <1>2. PICK f \in Bijection(1 .. n, S) : TRUE
    BY <1>1 DEF ExistsBijection
  <1>3. f \in [1 .. n -> S] /\ IsInjective(f)
    BY <1>2 DEF Bijection, Injection, IsInjective
  <1>4. SetToSeq(S) \in [1 .. n -> S] /\ IsInjective(SetToSeq(S))
    BY <1>3 DEF SetToSeq
  <1> DEFINE g == SetToSeq(S)
  <1> HIDE DEF g
  <1>5. g \in Injection(1 .. n, S)
    BY <1>4 DEF Injection, IsInjective, g
  <1>6. g \in Surjection(1 .. n, S)
    BY <1>1, <1>5, FS_Injection, FS_Interval
  <1>7. Range(g) = S
    BY <1>4, <1>6 DEF Range, Surjection, g
  <1> QED
    BY <1>1, <1>4, <1>7 DEF g

LEMMA TextRange ==
  ASSUME NEW c \in Coll, Types, Numbered(c)
  PROVE  Text(c) \in Seq(Nat) /\ Range(Text(c)) = ready[c]
  <1>1. IsFiniteSet(ready[c]) /\ ready[c] \subseteq Nat
    BY FS_Interval, FS_Subset DEF Types, Numbered
  <1> QED
    BY <1>1, SetToSeqRange, SeqMonotonic DEF Text

----------------------------------------------------------------------------
(* Collections a step does not touch.                                      *)

\* What the invariant says of one collection.
Local(c) == Numbered(c) /\ TextPlaced(c) /\ Accounted(c)

LEMMA TextSame ==
  ASSUME NEW c \in Coll, NEW p \in Places, Same(p, c, "text"), Exists(p, c, "text")
  PROVE  TextAt(p, c)' = TextAt(p, c)
  BY DEF Same, TextAt

LEMMA HomeSame ==
  ASSUME NEW c \in Coll, TextPlaced(c), \A p \in Places : Same(p, c, "text")
  PROVE  /\ Home(c)' = Home(c) /\ Home(c) \in Places /\ Exists(Home(c), c, "text")
         /\ TextAt(Home(c), c)' = TextAt(Home(c), c)
  <1>1. Home(c) \in Places /\ Exists(Home(c), c, "text")
    BY DEF Home, Places, TextPlaced
  <1>2. Home(c)' = Home(c)
    BY DEF Home, Places, Same
  <1> QED
    BY <1>1, <1>2, TextSame DEF TextAt

LEMMA OthersKept ==
  ASSUME NEW c \in Coll, NEW d \in Coll, Local(d), \A p \in Places, s \in TextKinds : Same(p, d, s),
         pc'[d] = pc[d], late'[d] = late[d], ready'[d] = ready[d],
         quiet'[d] = quiet[d], arrived'[d] = arrived[d]
  PROVE  Local(d)'
  <1>1. Numbered(d)'
    BY DEF Local, Numbered
  <1>2. TextPlaced(d)'
    BY DEF Local, TextPlaced, Same, TextKinds, Places
  <1>3. TextAt(Home(d), d)' = TextAt(Home(d), d)
    BY HomeSame DEF Local, TextKinds
  <1>4. pc[d] \in 6 .. 13 => Exists("new", d, "text")' /\ TextAt("new", d)' = TextAt("new", d)
    BY TextSame DEF Local, Accounted, TextKinds, Places, Same
  <1>5. Same("new", d, "text.idx")
    BY DEF TextKinds, Places
  <1>6. Accounted(d)'
    BY <1>3, <1>4, <1>5 DEF Local, Accounted, Same
  <1> QED
    BY <1>1, <1>2, <1>6 DEF Local

----------------------------------------------------------------------------
(* Steps of the script in its own collection.                              *)

\* A step that keeps the texts and the documents on offer: any that does not read
\* or write texts, and the end of a merge in its first phase or for want of weights.
LEMMA KeptStep ==
  ASSUME NEW c \in Coll, IInv, TextsKept, NEW k \in 0 .. 27, pc'[c] = k,
         late'[c] = late[c], ready'[c] = ready[c], quiet'[c] = quiet[c], arrived'[c] = arrived[c],
         \/ k = 0 /\ pc[c] \in (0 .. 6) \cup {15}
         \/ k = pc[c] + 1 /\ pc[c] \in {0, 1, 3, 4} \cup 9 .. 12 \cup 14 .. 16 \cup 19 .. 26
  PROVE  Local(c)'
  <1>1. Local(c) /\ pc[c] \in 0 .. 27
    BY DEF IInv, Local, Types
  <1>2. \A p \in Places, s \in TextKinds : Same(p, c, s)
    BY DEF TextsKept
  <1>3. Numbered(c)'
    BY <1>1 DEF Local, Numbered
  <1>4. TextPlaced(c)'
    BY <1>1, <1>2 DEF Local, TextPlaced, Same, TextKinds, Places
  <1>5. TextAt(Home(c), c)' = TextAt(Home(c), c)
    BY <1>1, <1>2, HomeSame DEF Local, TextKinds
  <1>6. pc[c] \in 6 .. 13 => /\ Exists("new", c, "text")' /\ TextAt("new", c)' = TextAt("new", c)
                             /\ Exists("new", c, "text.idx")'
    BY <1>1, <1>2, TextSame DEF Local, Accounted, TextKinds, Places, Same
  <1>7. Accounted(c)'
    BY <1>1, <1>5, <1>6 DEF Local, Accounted
  <1> QED
    BY <1>3, <1>4, <1>7 DEF Local

\* A document cannot be on offer twice: what was late is now to be merged.
LEMMA GetInitLocal ==
  ASSUME NEW c \in Coll, IInv, TextsKept, pc[c] = 2, pc'[c] = 3,
         ready'[c] = ready[c] \cup late[c], late'[c] = {}, quiet'[c] = quiet[c], arrived'[c] = arrived[c]
  PROVE  Local(c)'
  <1>1. Local(c)
    BY DEF IInv, Local
  <1>2. \A p \in Places, s \in TextKinds : Same(p, c, s)
    BY DEF TextsKept
  <1>3. Numbered(c)'
    BY <1>1 DEF Local, Numbered
  <1>4. TextPlaced(c)'
    BY <1>1, <1>2 DEF Local, TextPlaced, Same, TextKinds, Places
  <1>5. TextAt(Home(c), c)' = TextAt(Home(c), c)
    BY <1>1, <1>2, HomeSame DEF Local, TextKinds
  <1>6. Accounted(c)'
    BY <1>1, <1>5 DEF Local, Accounted
  <1> QED
    BY <1>3, <1>4, <1>6 DEF Local

\* What was to be merged is in the new text, and nothing late had arrived before.
LEMMA CleanupLocal ==
  ASSUME NEW c \in Coll, IInv, TextsKept, pc[c] = 6, pc'[c] = 7,
         ready'[c] = {}, late'[c] = {}, quiet'[c] = quiet[c], arrived'[c] = arrived[c]
  PROVE  Local(c)'
  <1>1. Local(c)
    BY DEF IInv, Local
  <1>2. \A p \in Places, s \in TextKinds : Same(p, c, s)
    BY DEF TextsKept
  <1>3. Numbered(c)'
    BY <1>1 DEF Local, Numbered
  <1>4. TextPlaced(c)'
    BY <1>1, <1>2 DEF Local, TextPlaced, Same, TextKinds, Places
  <1>5. TextAt(Home(c), c)' = TextAt(Home(c), c)
    BY <1>1, <1>2, HomeSame DEF Local, TextKinds
  <1>6. /\ Exists("new", c, "text")' /\ TextAt("new", c)' = TextAt("new", c)
        /\ Exists("new", c, "text.idx")'
    BY <1>1, <1>2, TextSame DEF Local, Accounted, TextKinds, Places, Same
  <1>7. Accounted(c)'
    BY <1>1, <1>5, <1>6 DEF Local, Accounted
  <1> QED
    BY <1>3, <1>4, <1>7 DEF Local

\* The step a script is at, and the one it goes to.
LEMMA AtStep ==
  ASSUME NEW c \in Coll, Types
  PROVE  /\ pc[c] \in 0 .. 27
         /\ Does(c, "init") => pc[c] = 2
         /\ Does(c, "pass1") => pc[c] = 3
         /\ Does(c, "perf_hash_build") => pc[c] = 4
         /\ Does(c, "pass2") => pc[c] = 5
         /\ Does(c, "cleanup") => pc[c] = 6
         /\ Does(c, "text_merge") => pc[c] = 13
         /\ Does(c, "invf_merge") => pc[c] = 14
         /\ Does(c, "weights_build") => pc[c] = 15
         /\ Does(c, "invf_dict") => pc[c] = 16
         /\ Does(c, "rm") => pc[c] = 27
  <1>1. pc[c] \in 0 .. 27
    BY DEF Types
  <1>2. CASE pc[c] = 0
    BY <1>2 DEF Does
  <1>3. CASE pc[c] \in 1 .. 27
    BY <1>3, StepOf DEF Does
  <1> QED
    BY <1>1, <1>2, <1>3

LEMMA NextStep ==
  ASSUME NEW c \in Coll, NEW ok, Types, Checked(c, ok)
  PROVE  \/ ~ok /\ pc' = [pc EXCEPT ![c] = 0]
         \/ ok /\ pc[c] = 27 /\ pc' = [pc EXCEPT ![c] = 0]
         \/ ok /\ pc[c] # 27 /\ pc' = [pc EXCEPT ![c] = pc[c] + 1]
  <1>1. Len(Script) = 27
    BY ScriptSteps
  <1> QED
    BY <1>1 DEF Checked

LEMMA StepOn ==
  ASSUME NEW c \in Coll, Types, Checked(c, TRUE), pc[c] # 27
  PROVE  /\ pc' = [pc EXCEPT ![c] = pc[c] + 1] /\ pc'[c] = pc[c] + 1
         /\ pc[c] + 1 \in 0 .. 27
  <1>1. Len(Script) = 27
    BY ScriptSteps
  <1>2. pc' = [pc EXCEPT ![c] = pc[c] + 1]
    BY <1>1 DEF Checked
  <1> QED
    BY <1>2 DEF Types

\* Pass 2 either ends the script or makes the text of what is to be merged.
LEMMA PassTwoFiles ==
  ASSUME NEW c \in Coll, Types, FilesOK, Numbered(c), PassTwo(c)
  PROVE  /\ FilesOK' /\ Own(c)
         /\ \/ UNCHANGED fs /\ pc' = [pc EXCEPT ![c] = 0]
            \/ /\ pc' = [pc EXCEPT ![c] = 6]
               /\ \A p \in Places \ {"new"}, s \in TextKinds : Same(p, c, s)
               /\ Exists("new", c, "text")' /\ Exists("new", c, "text.idx")'
               /\ TextAt("new", c)' = ready[c]
  <1> DEFINE docs == Text(c)
             made == [ text |-> [n |-> Len(docs), docs |-> docs],
                       idx  |-> [n |-> Len(docs), offs |-> Offsets(Len(docs))],
                       invf |-> [docs |-> docs, skips |-> FALSE] ]
             names == {<<"new", c, s>> : s \in {"text", "text.idx", "invf", "invf.idx"}}
             files == [name \in names |->
                         CASE name[3] = "text"     -> made.text
                           [] name[3] = "text.idx" -> made.idx
                           [] name[3] = "invf"     -> made.invf
                           [] OTHER                -> docs]
             ok == \A s \in {"text.dict", "invf.dict", "invf.dict.hash"} : Exists("new", c, s)
  <1>1. pc[c] = 5
    BY AtStep DEF PassTwo
  <1>2. \/ UNCHANGED fs /\ pc' = [pc EXCEPT ![c] = 0]
        \/ fs' = Writes(files) /\ pc' = [pc EXCEPT ![c] = 6]
    <2>1. Checked(c, ok) /\ fs' = IF ok THEN Writes(files) ELSE fs
      BY DEF PassTwo
    <2> HIDE DEF files, ok
    <2> QED
      BY <1>1, <2>1, NextStep
  <1>3. CASE UNCHANGED fs /\ pc' = [pc EXCEPT ![c] = 0]
    BY <1>3, NoFileChanged
  <1>4. CASE fs' = Writes(files) /\ pc' = [pc EXCEPT ![c] = 6]
    <2>1. DOMAIN files = names /\ files[<<"new", c, "text">>].docs = Text(c)
      OBVIOUS
    <2> HIDE DEF files
    <2>2. ASSUME NEW p \in Places, NEW d \in Coll, NEW s \in Kinds, d # c \/ p # "new"
          PROVE  Same(p, d, s)
      <3>1. <<p, d, s>> \notin DOMAIN files
        BY <2>1, <2>2
      <3> QED
        BY <3>1, <1>4, WritesAre DEF Same, Exists, Get
    <2>3. Own(c) /\ \A p \in Places \ {"new"}, s \in TextKinds : Same(p, c, s)
      BY <2>2 DEF Own, TextKinds, Kinds
    <2>4. Exists("new", c, "text")' /\ Exists("new", c, "text.idx")'
      BY <1>4, <2>1, WritesAre DEF Exists
    <2>5. Get("new", c, "text")'.docs = Text(c)
      BY <1>4, <2>1, WritesAre DEF Get
    <2>6. TextAt("new", c)' = ready[c]
      BY <2>5, TextRange DEF TextAt
    <2>7. \A name \in DOMAIN fs' : \E p \in Places, d \in Coll, s \in Kinds : name = <<p, d, s>>
      BY <1>4, <2>1, WritesAre DEF FilesOK, Places, Kinds
    <2>8. ASSUME NEW p \in Places, NEW d \in Coll, Exists(p, d, "text")'
          PROVE  (Get(p, d, "text").docs \in Seq(Nat))'
      <3>1. CASE p = "new" /\ d = c
        BY <2>5, <3>1, TextRange
      <3>2. CASE ~(p = "new" /\ d = c)
        BY <2>2, <2>8, <3>2 DEF Same, FilesOK, Kinds
      <3> QED
        BY <3>1, <3>2
    <2> QED
      BY <1>4, <2>3, <2>4, <2>6, <2>7, <2>8 DEF FilesOK
  <1> QED
    BY <1>2, <1>3, <1>4

LEMMA PassTwoLocal ==
  ASSUME NEW c \in Coll, IInv, PassTwo(c)
  PROVE  Local(c)'
  <1>1. Local(c) /\ Types /\ FilesOK
    BY DEF IInv, Local
  <1>2. pc[c] = 5
    BY <1>1, AtStep DEF PassTwo
  <1>3. late' = late /\ ready' = ready /\ quiet' = quiet /\ arrived' = arrived
    BY DEF PassTwo
  <1>4. CASE UNCHANGED fs /\ pc' = [pc EXCEPT ![c] = 0]
    BY <1>1, <1>2, <1>3, <1>4, NoFileChanged, KeptStep DEF Types
  <1>5. CASE /\ pc' = [pc EXCEPT ![c] = 6]
             /\ \A p \in Places \ {"new"}, s \in TextKinds : Same(p, c, s)
             /\ Exists("new", c, "text")' /\ Exists("new", c, "text.idx")'
             /\ TextAt("new", c)' = ready[c]
    <2>1. pc'[c] = 6
      BY <1>5 DEF IInv, Types
    <2>2. Numbered(c)'
      BY <1>1, <1>3 DEF Local, Numbered
    <2>3. TextPlaced(c)'
      BY <1>1, <1>2, <1>5, <2>1 DEF Local, TextPlaced, Same, TextKinds, Places
    <2>4. TextAt(Home(c), c)' = TextAt(Home(c), c)
      <3>1. Home(c)' = Home(c) /\ Home(c) \in Places \ {"new"} /\ Exists(Home(c), c, "text")
        BY <1>1, <1>5 DEF Home, Local, TextPlaced, Same, TextKinds, Places
      <3> QED
        BY <1>5, <3>1, TextSame DEF TextAt, TextKinds
    <2>5. Accounted(c)'
      BY <1>1, <1>2, <1>3, <1>5, <2>1, <2>4 DEF Local, Accounted
    <2> QED
      BY <2>2, <2>3, <2>5 DEF Local
  <1> QED
    BY <1>1, <1>4, <1>5, PassTwoFiles DEF Local

\* The new text is put behind the old one, which is still there.
LEMMA TextMergeFiles ==
  ASSUME NEW c \in Coll, IInv, TextMerge(c)
  PROVE  /\ FilesOK' /\ Own(c) /\ pc[c] = 13 /\ pc' = [pc EXCEPT ![c] = 14]
         /\ \A p \in Places, s \in TextKinds :
              <<p, s>> \notin {<<"old", "text">>, <<"merge", "text.idx">>} => Same(p, c, s)
         /\ Exists("old", c, "text")' /\ Exists("merge", c, "text.idx")'
         /\ TextAt("old", c)' = TextAt("old", c) \cup TextAt("new", c)
  <1> DEFINE idx == MergedIndex(Get("old", c, "text.idx"), Get("new", c, "text.idx"))
             text == Appended(Get("old", c, "text"), Get("new", c, "text"))
             names == {<<"old", c, "text">>, <<"merge", c, "text.idx">>}
             files == [name \in names |-> IF name[1] = "old" THEN text ELSE idx]
  <1>1. Types /\ FilesOK /\ Local(c)
    BY DEF IInv, Local
  <1>2. pc[c] = 13 /\ Checked(c, TRUE)
    BY <1>1, AtStep DEF TextMerge, Unchecked
  <1>3. pc' = [pc EXCEPT ![c] = 14]
    <2>1. Len(Script) = 27
      BY ScriptSteps
    <2> QED
      BY <1>2, <2>1 DEF Checked
  <1>4. \A p \in {"old", "new"}, s \in {"text", "text.idx"} : Exists(p, c, s)
    BY <1>1, <1>2 DEF Local, TextPlaced, Accounted
  <1>5. fs' = Writes(files)
    BY <1>4 DEF TextMerge
  <1>6. /\ DOMAIN files = names /\ files[<<"old", c, "text">>] = text
        /\ text.docs = Get("old", c, "text").docs \o Get("new", c, "text").docs
    BY DEF Appended
  <1> HIDE DEF files, text
  <1>7. ASSUME NEW p \in Places, NEW d \in Coll, NEW s \in Kinds,
               d # c \/ <<p, s>> \notin {<<"old", "text">>, <<"merge", "text.idx">>}
        PROVE  Same(p, d, s)
    <2>1. <<p, d, s>> \notin DOMAIN files
      BY <1>6, <1>7
    <2> QED
      BY <2>1, <1>5, WritesAre DEF Same, Exists, Get
  <1>8. Own(c) /\ \A p \in Places, s \in TextKinds :
                    <<p, s>> \notin {<<"old", "text">>, <<"merge", "text.idx">>} => Same(p, c, s)
    BY <1>7 DEF Own, TextKinds, Kinds
  <1>9. Exists("old", c, "text")' /\ Exists("merge", c, "text.idx")'
    BY <1>5, <1>6, WritesAre DEF Exists
  <1>10. Get("old", c, "text")'.docs = Get("old", c, "text").docs \o Get("new", c, "text").docs
    BY <1>5, <1>6, WritesAre DEF Get
  <1>11. Get("old", c, "text").docs \in Seq(Nat) /\ Get("new", c, "text").docs \in Seq(Nat)
    BY <1>1, <1>4 DEF FilesOK, Places
  <1>12. /\ Get("old", c, "text")'.docs \in Seq(Nat)
         /\ TextAt("old", c)' = TextAt("old", c) \cup TextAt("new", c)
    <2> DEFINE s == Get("old", c, "text").docs
               t == Get("new", c, "text").docs
    <2>1. s \in Seq(Nat) /\ t \in Seq(Nat)
      BY <1>11
    <2> HIDE DEF s, t
    <2>2. s \o t \in Seq(Nat) /\ Range(s \o t) = Range(s) \cup Range(t)
      BY <2>1, ConcatProperties, RangeConcatenation
    <2> QED
      BY <1>10, <2>2 DEF TextAt, s, t
  <1>13. \A name \in DOMAIN fs' : \E p \in Places, d \in Coll, s \in Kinds : name = <<p, d, s>>
    BY <1>1, <1>5, <1>6, WritesAre DEF FilesOK, Places, Kinds
  <1>14. ASSUME NEW p \in Places, NEW d \in Coll, Exists(p, d, "text")'
         PROVE  (Get(p, d, "text").docs \in Seq(Nat))'
    <2>1. CASE p = "old" /\ d = c
      BY <1>12, <2>1
    <2>2. CASE ~(p = "old" /\ d = c)
      BY <1>1, <1>7, <1>14, <2>2 DEF Same, FilesOK, Kinds
    <2> QED
      BY <2>1, <2>2
  <1> QED
    BY <1>2, <1>3, <1>8, <1>9, <1>12, <1>13, <1>14 DEF FilesOK

LEMMA TextMergeLocal ==
  ASSUME NEW c \in Coll, IInv, TextMerge(c)
  PROVE  Local(c)'
  <1>1. Local(c) /\ Types
    BY DEF IInv, Local
  <1>2. late' = late /\ ready' = ready /\ quiet' = quiet /\ arrived' = arrived
    BY DEF TextMerge
  <1>3. pc[c] = 13 /\ pc'[c] = 14
    BY <1>1, TextMergeFiles DEF Types
  <1>4. \A p \in Places, s \in TextKinds :
          <<p, s>> \notin {<<"old", "text">>, <<"merge", "text.idx">>} => Same(p, c, s)
    BY TextMergeFiles
  <1>5. /\ Exists("old", c, "text")' /\ Exists("merge", c, "text.idx")'
        /\ TextAt("old", c)' = TextAt("old", c) \cup TextAt("new", c)
    BY TextMergeFiles
  <1>6. Numbered(c)'
    BY <1>1, <1>2 DEF Local, Numbered
  <1>7. Same("base", c, "text") /\ Same("base", c, "text.idx") /\ Same("old", c, "text.idx")
    BY <1>4 DEF Places, TextKinds
  <1>8. TextPlaced(c)'
    BY <1>1, <1>3, <1>5, <1>7 DEF Local, TextPlaced, Same
  <1>9. Home(c) = "old" /\ Home(c)' = "old"
    BY <1>1, <1>3, <1>7 DEF Home, Local, TextPlaced, Same
  <1>10. Accounted(c)'
    BY <1>1, <1>2, <1>3, <1>5, <1>9 DEF Local, Accounted, TextAt
  <1> QED
    BY <1>6, <1>8, <1>10 DEF Local

\* mv of a text file: what was in one place is in the other.
LEMMA MoveText ==
  ASSUME NEW c \in Coll, FilesOK, NEW from \in Places, NEW to \in Places, from # to,
         NEW suffix \in TextKinds, Moved(<<from, c, suffix>>, <<to, c, suffix>>)
  PROVE  /\ FilesOK' /\ Own(c)
         /\ \A p \in Places, s \in TextKinds : s # suffix \/ p \notin {from, to} => Same(p, c, s)
         /\ Exists(from, c, suffix) => /\ Exists(to, c, suffix)' /\ ~Exists(from, c, suffix)'
                                       /\ Get(to, c, suffix)' = Get(from, c, suffix)
         /\ ~Exists(from, c, suffix) => Same(from, c, suffix) /\ Same(to, c, suffix)
  <1> DEFINE here  == <<from, c, suffix>>
             there == <<to, c, suffix>>
  <1>1. here # there
    OBVIOUS
  <1>2. ASSUME NEW p \in Places, NEW d \in Coll, NEW s \in Kinds,
               d # c \/ s # suffix \/ p \notin {from, to}
        PROVE  Same(p, d, s)
    <2>1. <<p, d, s>> # here /\ <<p, d, s>> # there
      BY <1>2
    <2> QED
      BY <2>1 DEF Same, Exists, Get, Moved
  <1>3. /\ Own(c)
        /\ \A p \in Places, s \in TextKinds : s # suffix \/ p \notin {from, to} => Same(p, c, s)
    BY <1>2 DEF Own, TextKinds, Kinds
  <1>4. Exists(from, c, suffix) => /\ Exists(to, c, suffix)' /\ ~Exists(from, c, suffix)'
                                  /\ Get(to, c, suffix)' = Get(from, c, suffix)
    BY <1>1 DEF Moved, Exists, Get
  <1>5. ~Exists(from, c, suffix) => Same(from, c, suffix) /\ Same(to, c, suffix)
    BY DEF Moved, Exists, Get, Same
  <1>6. \A name \in DOMAIN fs' : \E p \in Places, d \in Coll, s \in Kinds : name = <<p, d, s>>
    BY DEF FilesOK, Moved, TextKinds, Kinds
  <1>7. ASSUME NEW p \in Places, NEW d \in Coll, Exists(p, d, "text")'
        PROVE  (Get(p, d, "text").docs \in Seq(Nat))'
    <2>1. CASE d # c \/ suffix # "text" \/ p \notin {from, to}
      BY <1>2, <1>7, <2>1 DEF Same, FilesOK, Kinds
    <2>2. CASE d = c /\ suffix = "text" /\ p \in {from, to}
      BY <1>4, <1>5, <1>7, <2>2 DEF Same, FilesOK
    <2> QED
      BY <2>1, <2>2
  <1> QED
    BY <1>3, <1>4, <1>5, <1>6, <1>7 DEF FilesOK

\* Text and index on their way to MERGE and back.
LEMMA TextMovesLocal ==
  ASSUME NEW c \in Coll, IInv, pc[c] \in {7, 17}, pc'[c] = pc[c] + 1,
         pc[c] = 7 => Moved(<<"base", c, "text">>, <<"old", c, "text">>),
         pc[c] = 17 => Moved(<<"old", c, "text">>, <<"base", c, "text">>),
         late'[c] = late[c], ready'[c] = ready[c], quiet'[c] = quiet[c], arrived'[c] = arrived[c]
  PROVE  FilesOK' /\ Own(c) /\ Local(c)'
  <1>1. Local(c) /\ FilesOK
    BY DEF IInv, Local
  <1>2. /\ FilesOK' /\ Own(c)
        /\ \A p \in Places, s \in TextKinds : s # "text" \/ p \notin {"base", "old"} => Same(p, c, s)
        /\ pc[c] = 7 /\ Exists("base", c, "text") =>
             /\ Exists("old", c, "text")' /\ ~Exists("base", c, "text")'
             /\ Get("old", c, "text")' = Get("base", c, "text")
        /\ pc[c] = 7 /\ ~Exists("base", c, "text") =>
             Same("base", c, "text") /\ Same("old", c, "text")
        /\ pc[c] = 17 /\ Exists("old", c, "text") =>
             /\ Exists("base", c, "text")' /\ ~Exists("old", c, "text")'
             /\ Get("base", c, "text")' = Get("old", c, "text")
    BY <1>1, MoveText DEF Places, TextKinds
  <1>3. Same("base", c, "text.idx") /\ Same("old", c, "text.idx") /\ Same("merge", c, "text.idx")
    BY <1>2 DEF Places, TextKinds
  <1>4. TextPlaced(c)'
    BY <1>1, <1>2, <1>3 DEF Local, TextPlaced, Same
  <1>5. TextAt(Home(c), c)' = TextAt(Home(c), c)
    BY <1>1, <1>2 DEF Local, TextPlaced, Home, TextAt, Same
  <1>6. Same("new", c, "text") /\ Same("new", c, "text.idx")
    BY <1>2 DEF Places, TextKinds
  <1>7. pc[c] = 7 => Exists("new", c, "text")' /\ TextAt("new", c)' = TextAt("new", c)
    BY <1>1, <1>6, TextSame DEF Local, Accounted, Places, Same
  <1>8. Accounted(c)'
    BY <1>1, <1>5, <1>6, <1>7 DEF Local, Accounted, Same
  <1>9. Numbered(c)'
    BY <1>1 DEF Local, Numbered
  <1> QED
    BY <1>2, <1>4, <1>8, <1>9 DEF Local

LEMMA IndexMovesLocal ==
  ASSUME NEW c \in Coll, IInv, pc[c] \in {8, 18}, pc'[c] = pc[c] + 1,
         pc[c] = 8 => Moved(<<"base", c, "text.idx">>, <<"old", c, "text.idx">>),
         pc[c] = 18 => Moved(<<"merge", c, "text.idx">>, <<"base", c, "text.idx">>),
         late'[c] = late[c], ready'[c] = ready[c], quiet'[c] = quiet[c], arrived'[c] = arrived[c]
  PROVE  FilesOK' /\ Own(c) /\ Local(c)'
  <1>1. Local(c) /\ FilesOK
    BY DEF IInv, Local
  <1>2. /\ FilesOK' /\ Own(c)
        /\ \A p \in Places : Same(p, c, "text")
        /\ Same("new", c, "text.idx")
        /\ pc[c] = 8 /\ Exists("base", c, "text.idx") =>
             Exists("old", c, "text.idx")' /\ ~Exists("base", c, "text.idx")'
        /\ pc[c] = 8 /\ ~Exists("base", c, "text.idx") =>
             Same("base", c, "text.idx") /\ Same("old", c, "text.idx")
        /\ pc[c] = 18 /\ Exists("merge", c, "text.idx") => Exists("base", c, "text.idx")'
    BY <1>1, MoveText, ZenonT(60) DEF Places, TextKinds
  <1>3. Same("base", c, "text") /\ Same("old", c, "text") /\ Same("new", c, "text")
    BY <1>2 DEF Places
  <1>4. TextPlaced(c)'
    BY <1>1, <1>2, <1>3 DEF Local, TextPlaced, Same
  <1>5. TextAt(Home(c), c)' = TextAt(Home(c), c)
    BY <1>1, <1>2, HomeSame DEF Local
  <1>6. pc[c] = 8 => Exists("new", c, "text")' /\ TextAt("new", c)' = TextAt("new", c)
    BY <1>1, <1>3, TextSame DEF Local, Accounted, Places, Same
  <1>7. Accounted(c)'
    BY <1>1, <1>2, <1>3, <1>5, <1>6 DEF Local, Accounted, Same
  <1>8. Numbered(c)'
    BY <1>1 DEF Local, Numbered
  <1> QED
    BY <1>2, <1>4, <1>7, <1>8 DEF Local

LEMMA MoveLocal ==
  ASSUME NEW c \in Coll, IInv, Move(c)
  PROVE  FilesOK' /\ Own(c) /\ Local(c)' /\ pc[c] \in 1 .. 26 /\ pc' = [pc EXCEPT ![c] = pc[c] + 1]
  <1> DEFINE step == Script[pc[c]]
  <1>1. Types /\ FilesOK
    BY DEF IInv
  <1>2. pc[c] \in 1 .. 27 /\ step.do = "mv"
    BY <1>1 DEF Move, Does, Types
  <1>3. pc[c] \in 1 .. 26 /\ pc[c] # 2 /\ pc[c] \notin 3 .. 6 /\ pc[c] \notin 13 .. 16
    BY <1>2, StepOf
  <1>4. pc' = [pc EXCEPT ![c] = pc[c] + 1] /\ pc'[c] = pc[c] + 1
    <2>1. Checked(c, TRUE)
      BY DEF Move, Unchecked
    <2>2. pc[c] # 27
      BY <1>3
    <2>3. pc' = [pc EXCEPT ![c] = pc[c] + 1]
      BY <1>1, <2>1, <2>2, NextStep
    <2> QED
      BY <1>1, <2>3 DEF Types
  <1>5. Moved(<<step.from, c, step.suffix>>, <<step.to, c, step.suffix>>)
    BY DEF Move, Moved
  <1>6. late' = late /\ ready' = ready /\ quiet' = quiet /\ arrived' = arrived
    BY DEF Move
  <1>7. \A from, to, suffix :
          LET m == Mv(from, to, suffix) IN m.from = from /\ m.to = to /\ m.suffix = suffix
    BY DEF Mv
  <1>8. CASE pc[c] \in {7, 17}
    <2>1. /\ pc[c] = 7 => Moved(<<"base", c, "text">>, <<"old", c, "text">>)
          /\ pc[c] = 17 => Moved(<<"old", c, "text">>, <<"base", c, "text">>)
      BY <1>2, <1>5, <1>7, Moves
    <2> QED
      BY <1>3, <1>4, <1>6, <1>8, <2>1, TextMovesLocal
  <1>9. CASE pc[c] \in {8, 18}
    <2>1. /\ pc[c] = 8 => Moved(<<"base", c, "text.idx">>, <<"old", c, "text.idx">>)
          /\ pc[c] = 18 => Moved(<<"merge", c, "text.idx">>, <<"base", c, "text.idx">>)
      BY <1>2, <1>5, <1>7, Moves
    <2> QED
      BY <1>3, <1>4, <1>6, <1>9, <2>1, IndexMovesLocal
  <1>10. CASE pc[c] \notin {7, 8, 17, 18}
    <2>1. step.from \in Places /\ step.to \in Places /\ step.suffix \in Kinds \ TextKinds
      BY <1>2, <1>10, Moves DEF TextKinds
    <2>2. FilesOK' /\ Own(c) /\ TextsKept
      BY <1>1, <1>5, <2>1, MoveOther
    <2>3. pc[c] \in {1} \cup 9 .. 12 \cup 19 .. 26 /\ pc[c] + 1 \in 0 .. 27
      BY <1>3, <1>10
    <2>4. Local(c)'
      BY <1>4, <1>6, <2>2, <2>3, KeptStep
    <2> QED
      BY <1>3, <1>4, <2>2, <2>4
  <1> QED
    BY <1>8, <1>9, <1>10

\* rm takes what is in MERGE, where no other collection has files.
LEMMA RemoveAllLocal ==
  ASSUME NEW c \in Coll, IInv, RemoveAll(c)
  PROVE  FilesOK' /\ Own(c) /\ Local(c)' /\ pc[c] = 27 /\ pc' = [pc EXCEPT ![c] = 0]
  <1>1. Types /\ FilesOK /\ OneMerge /\ Local(c)
    BY DEF IInv, Local
  <1>2. pc[c] = 27 /\ Checked(c, TRUE)
    BY <1>1, AtStep DEF RemoveAll, Unchecked
  <1>3. pc' = [pc EXCEPT ![c] = 0] /\ pc'[c] = 0
    BY <1>1, <1>2, NextStep DEF Types
  <1>4. late' = late /\ ready' = ready /\ quiet' = quiet /\ arrived' = arrived
    BY DEF RemoveAll
  <1>5. \A d \in Coll, s \in Kinds : Same("base", d, s)
    BY DEF RemoveAll, Same, Exists, Get
  <1>6. \A p \in Places \ {"base"}, d \in Coll, s \in Kinds : ~Exists(p, d, s)'
    BY DEF RemoveAll, Exists
  <1>7. Own(c)
    BY <1>1, <1>2, <1>5, <1>6 DEF Own, OneMerge, Same
  <1>8. FilesOK'
    <2>1. \A name \in DOMAIN fs' : name \in DOMAIN fs
      BY DEF RemoveAll
    <2>2. ASSUME NEW p \in Places, NEW d \in Coll, Exists(p, d, "text")'
          PROVE  (Get(p, d, "text").docs \in Seq(Nat))'
      <3>1. p = "base"
        BY <1>6, <2>2 DEF Kinds
      <3> QED
        BY <1>1, <1>5, <2>2, <3>1 DEF FilesOK, Same, Kinds
    <2> QED
      BY <1>1, <2>1, <2>2 DEF FilesOK
  <1>9. Same("base", c, "text") /\ Same("base", c, "text.idx") /\ ~Exists("old", c, "text")'
    BY <1>5, <1>6 DEF Places, Kinds
  <1>10. TextPlaced(c)'
    BY <1>1, <1>2, <1>3, <1>9 DEF Local, TextPlaced, Same
  <1>11. Home(c) = "base" /\ Home(c)' = "base" /\ TextAt("base", c)' = TextAt("base", c)
    BY <1>1, <1>2, <1>9 DEF Home, Local, TextPlaced, TextAt, Same
  <1>12. Accounted(c)'
    BY <1>1, <1>2, <1>3, <1>4, <1>11 DEF Local, Accounted, TextAt
  <1>13. Numbered(c)'
    BY <1>1, <1>4 DEF Local, Numbered
  <1> QED
    BY <1>2, <1>3, <1>7, <1>8, <1>10, <1>12, <1>13 DEF Local

----------------------------------------------------------------------------
(* The surroundings.                                                       *)

LEMMA FirstPhaseIs == At("init") = 2 /\ At("cleanup") = 6 /\ FirstPhase = 0 .. 6
  <1>1. DOMAIN Script = 1 .. 27
    BY ScriptSteps
  <1>2. At("init") = 2 /\ At("cleanup") = 6
    BY <1>1, StepOf DEF At
  <1> QED
    BY <1>2 DEF FirstPhase

LEMMA ArriveLocal ==
  ASSUME NEW c \in Coll, IInv, Arrive(c)
  PROVE  Local(c)'
  <1>1. Types /\ FilesOK /\ Local(c)
    BY DEF IInv, Local
  <1> DEFINE new == arrived[c] + 1
  <1>2. /\ arrived'[c] = new /\ late'[c] = late[c] \cup {new} /\ ready'[c] = ready[c]
        /\ quiet'[c] = IF pc[c] \in 3 .. 6 THEN quiet[c] ELSE quiet[c] \cup {new}
    BY <1>1, FirstPhaseIs DEF Arrive, Types
  <1>3. arrived[c] \in Nat /\ new \notin late[c] \cup ready[c] \cup quiet[c]
    BY <1>1 DEF Types, Local, Numbered
  <1>4. Numbered(c)'
    BY <1>1, <1>2, <1>3 DEF Local, Numbered
  <1>5. fs' = fs /\ pc' = pc
    BY DEF Arrive
  <1>6. TextPlaced(c)'
    BY <1>1, <1>5 DEF Local, TextPlaced, Exists
  <1>7. TextAt(Home(c), c)' = TextAt(Home(c), c) /\ TextAt("new", c)' = TextAt("new", c)
    BY <1>5 DEF TextAt, Home, Get, Exists
  <1>8. /\ Exists("new", c, "text")' <=> Exists("new", c, "text")
        /\ Exists("new", c, "text.idx")' <=> Exists("new", c, "text.idx")
    BY <1>5 DEF Exists
  <1>9. Accounted(c)'
    BY <1>1, <1>2, <1>3, <1>5, <1>7, <1>8 DEF Local, Accounted
  <1> QED
    BY <1>4, <1>6, <1>9 DEF Local

----------------------------------------------------------------------------
(* The invariant.                                                          *)

\* Merges exclude each other, and only the first phase is interrupted.
Careful == Exclusive /\ MayStop \subseteq FirstPhase

\* A step that takes documents on offer, if any, from one collection only.
Offered(c) ==
  /\ late' \in [Coll -> SUBSET Nat] /\ ready' \in [Coll -> SUBSET Nat]
  /\ \A d \in Coll \ {c} : late'[d] = late[d] /\ ready'[d] = ready[d]

\* A step of c's script, once the files and its own collection are known to be right.
LEMMA ScriptStep ==
  ASSUME NEW c \in Coll, IInv, NEW k \in 0 .. 27, pc' = [pc EXCEPT ![c] = k],
         pc[c] > 0 \/ (k = 0 /\ UNCHANGED fs), FilesOK', Own(c), Local(c)',
         Offered(c), UNCHANGED <<guess, arrived, quiet>>
  PROVE  IInv'
  <1>1. Types /\ OneMerge /\ \A d \in Coll : Local(d)
    BY DEF IInv, Local
  <1>2. Types'
    BY <1>1 DEF Types, Offered
  <1>3. ASSUME NEW d \in Coll, d # c PROVE Local(d)'
    <2>1. \A p \in Places, s \in TextKinds : Same(p, d, s)
      BY <1>3 DEF Own, TextKinds, Kinds
    <2>2. /\ pc'[d] = pc[d] /\ late'[d] = late[d] /\ ready'[d] = ready[d]
          /\ quiet'[d] = quiet[d] /\ arrived'[d] = arrived[d]
      BY <1>1, <1>3 DEF Types, Offered
    <2> QED
      BY <1>1, <1>3, <2>1, <2>2, OthersKept
  <1>4. OneMerge'
    <2> SUFFICES ASSUME NEW a \in Coll, NEW d \in Coll, a # d, pc'[a] > 0
                 PROVE  /\ pc'[d] = 0
                        /\ \A p \in Places \ {"base"}, s \in Kinds : ~Exists(p, d, s)'
      BY DEF OneMerge
    <2>1. CASE a = c
      <3>1. pc[c] > 0
        BY <1>1, <2>1 DEF Types
      <3>2. pc[d] = 0 /\ \A p \in Places \ {"base"}, s \in Kinds : ~Exists(p, d, s)
        BY <1>1, <2>1, <3>1 DEF OneMerge
      <3> QED
        BY <1>1, <2>1, <3>2 DEF Types, Own, Same
    <2>2. CASE a # c
      <3>1. pc[a] > 0
        BY <1>1, <2>2 DEF Types
      <3>2. pc[c] = 0
        BY <1>1, <2>2, <3>1 DEF OneMerge
      <3>3. pc' = pc /\ fs' = fs
        BY <1>1, <3>2 DEF Types
      <3> QED
        BY <1>1, <3>1, <3>3 DEF OneMerge, Exists
    <2> QED
      BY <2>1, <2>2
  <1> QED
    BY <1>2, <1>3, <1>4 DEF IInv, Local

LEMMA InitIInv == Init => IInv
  <1> SUFFICES ASSUME Init PROVE IInv
    OBVIOUS
  <1>1. PICK rebuilt \in Rebuilt : fs = BuiltFiles(rebuilt)
    BY DEF Init
  <1> DEFINE suffixes == DOMAIN Built(<<1>>, FALSE)
             names == {<<"base", c, s>> : c \in Coll, s \in suffixes}
             File(name) == Built(<<1>>, name[2] \in rebuilt)[name[3]]
  <1>2. fs = [name \in names |-> File(name)]
    BY <1>1 DEF BuiltFiles
  <1>3. names = {<<"base", c, s>> : c \in Coll, s \in Kinds \ {"invf.dict.hash"}}
    <2>1. suffixes = Kinds \ {"invf.dict.hash"}
      BY DEF Built, Kinds
    <2> HIDE DEF suffixes
    <2> QED
      BY <2>1
  <1> HIDE DEF names, File
  <1>4. \A p \in Places, c \in Coll, s \in Kinds :
          Exists(p, c, s) <=> p = "base" /\ s # "invf.dict.hash"
    BY <1>2, <1>3 DEF Exists
  <1>5. \A c \in Coll : Get("base", c, "text").docs = <<1>>
    <2> TAKE c \in Coll
    <2>1. <<"base", c, "text">> \in names
      BY <1>3 DEF Kinds
    <2>2. Get("base", c, "text") = Built(<<1>>, c \in rebuilt)["text"]
      BY <1>2, <2>1 DEF Get, File
    <2>3. Built(<<1>>, c \in rebuilt)["text"].docs = <<1>>
      BY DEF Built
    <2> QED
      BY <2>2, <2>3
  <1>6. FilesOK
    <2>1. \A name \in DOMAIN fs : \E p \in Places, c \in Coll, s \in Kinds : name = <<p, c, s>>
      BY <1>2, <1>3 DEF Places
    <2>2. <<1>> \in Seq(Nat) /\ "text" \in Kinds
      BY DEF Kinds
    <2>3. ASSUME NEW p \in Places, NEW c \in Coll, Exists(p, c, "text")
          PROVE  Get(p, c, "text").docs \in Seq(Nat)
      BY <1>4, <1>5, <2>2, <2>3
    <2> QED
      BY <2>1, <2>3 DEF FilesOK
  <1>7. Types
    BY MgMergeAssumption DEF Init, Types
  <1>8. OneMerge
    BY DEF Init, OneMerge
  <1>9. ASSUME NEW c \in Coll PROVE Numbered(c) /\ TextPlaced(c) /\ Accounted(c)
    <2>1. pc[c] = 0 /\ late[c] = {} /\ ready[c] = {} /\ quiet[c] = {}
      BY DEF Init
    <2>2. /\ Exists("base", c, "text") /\ Exists("base", c, "text.idx")
          /\ ~Exists("old", c, "text")
      BY <1>4 DEF Places, Kinds
    <2> QED
      BY <2>1, <2>2 DEF Numbered, TextPlaced, Accounted
  <1> QED
    BY <1>6, <1>7, <1>8, <1>9 DEF IInv

LEMMA StepIInv == Careful /\ IInv /\ [Next]_vars => IInv'
  <1> SUFFICES ASSUME Careful, IInv, [Next]_vars PROVE IInv'
    OBVIOUS
  <1>1. Types /\ FilesOK /\ OneMerge /\ \A d \in Coll : Local(d)
    BY DEF IInv, Local
  <1>2. CASE UNCHANGED vars
    BY <1>2, ZenonT(60) DEF vars, IInv, Types, FilesOK, OneMerge, Numbered, TextPlaced, Accounted,
                TextAt, Home, Exists, Get
  <1> SUFFICES ASSUME NEW c \in Coll, vars' # vars,
                      \/ Start(c) \/ Move(c) \/ GetInit(c) \/ PassOne(c) \/ PerfHashBuild(c) \/ PassTwo(c)
                      \/ Cleanup(c) \/ TextMerge(c) \/ InvfMerge(c) \/ WeightsBuild(c) \/ InvfDict(c)
                      \/ RemoveAll(c) \/ Arrive(c) \/ Interrupt(c)
               PROVE  IInv'
    BY <1>2 DEF Next
  <1>3. pc[c] \in 0 .. 27 /\ (late' = late /\ ready' = ready => Offered(c))
    BY <1>1 DEF Types, Offered
  <1>4. \A k \in 0 .. 27 : pc' = [pc EXCEPT ![c] = k] => pc'[c] = k
    BY <1>1 DEF Types
  \* Steps of the script that read and write no texts.
  <1>5. ASSUME NEW k \in 0 .. 27, pc' = [pc EXCEPT ![c] = k], FilesOK', Own(c), TextsKept,
               UNCHANGED <<guess, late, ready, arrived, quiet>>,
               \/ k = 0 /\ pc[c] \in (1 .. 6) \cup {15}
               \/ k = 0 /\ pc[c] = 0 /\ UNCHANGED fs
               \/ k = pc[c] + 1 /\ pc[c] \in {1, 3, 4} \cup 9 .. 12 \cup 14 .. 16 \cup 19 .. 26
        PROVE  IInv'
    <2>1. Local(c)'
      <3>1. pc'[c] = k
        BY <1>4, <1>5
      <3>2. \/ k = 0 /\ pc[c] \in (0 .. 6) \cup {15}
            \/ k = pc[c] + 1 /\ pc[c] \in {0, 1, 3, 4} \cup 9 .. 12 \cup 14 .. 16 \cup 19 .. 26
        BY <1>5
      <3> QED
        BY <1>5, <3>1, <3>2, KeptStep
    <2>2. pc[c] > 0 \/ (k = 0 /\ UNCHANGED fs)
      BY <1>5
    <2> QED
      BY <1>3, <1>5, <2>1, <2>2, ScriptStep
  <1>6. CASE Start(c)
    <2>1. pc[c] = 0 /\ pc' = [pc EXCEPT ![c] = 1] /\ pc'[c] = 1
      BY <1>1, <1>6 DEF Start, Types
    <2>2. /\ FilesOK' /\ Own(c) /\ TextsKept /\ fs' = fs /\ late' = late /\ ready' = ready
          /\ arrived' = arrived /\ quiet' = quiet
      BY <1>1, <1>6, NoFileChanged DEF Start
    <2>3. Local(c)'
      BY <2>1, <2>2, KeptStep
    <2>4. Types'
      BY <1>1, <1>6 DEF Start, Types
    <2>5. ASSUME NEW d \in Coll, d # c PROVE Local(d)'
      BY <1>1, <2>1, <2>2, <2>5, OthersKept DEF TextsKept, Types
    <2>6. \A d \in Coll \ {c} : pc[d] = 0 /\ \A name \in DOMAIN fs : name[2] = d => name[1] = "base"
      BY <1>6 DEF Start, Careful
    <2>7. \A d \in Coll \ {c}, p \in Places \ {"base"}, s \in Kinds : ~Exists(p, d, s)'
      BY <2>2, <2>6 DEF Exists
    <2>8. OneMerge'
      BY <1>1, <2>1, <2>6, <2>7 DEF OneMerge, Types
    <2> QED
      BY <2>2, <2>3, <2>4, <2>5, <2>8 DEF IInv, Local
  <1>7. CASE Move(c)
    <2>1. FilesOK' /\ Own(c) /\ Local(c)' /\ pc[c] \in 1 .. 26 /\ pc' = [pc EXCEPT ![c] = pc[c] + 1]
      BY <1>7, MoveLocal
    <2>2. UNCHANGED <<guess, late, ready, arrived, quiet>>
      BY <1>7 DEF Move
    <2>3. pc[c] + 1 \in 0 .. 27 /\ pc[c] > 0
      BY <2>1
    <2> QED
      BY <1>3, <2>1, <2>2, <2>3, ScriptStep
  <1>8. CASE GetInit(c)
    <2>1. pc[c] = 2
      BY <1>1, <1>8, AtStep DEF GetInit
    <2>2. pc[c] # 27 /\ pc[c] > 0
      BY <2>1
    <2>3. Checked(c, TRUE)
      BY <1>8 DEF GetInit, Unchecked
    <2>4. pc' = [pc EXCEPT ![c] = pc[c] + 1] /\ pc'[c] = pc[c] + 1 /\ pc[c] + 1 \in 0 .. 27
      BY <1>1, <2>3, <2>2, StepOn
    <2>5. pc'[c] = 3
      BY <2>1, <2>4
    <2>6. /\ ready' = [ready EXCEPT ![c] = ready[c] \cup late[c]] /\ late' = [late EXCEPT ![c] = {}]
          /\ UNCHANGED <<fs, guess, arrived, quiet>>
      BY <1>8 DEF GetInit
    <2>7. FilesOK' /\ Own(c) /\ TextsKept
      BY <1>1, <2>6, NoFileChanged
    <2>8. ready'[c] = ready[c] \cup late[c] /\ late'[c] = {}
      BY <1>1, <2>6 DEF Types
    <2>9. Local(c)'
      BY <2>1, <2>5, <2>6, <2>7, <2>8, GetInitLocal
    <2>10. Offered(c)
      BY <1>1, <2>6 DEF Types, Offered
    <2> QED
      BY <2>6, <2>7, <2>9, <2>10, <2>2, <2>4, ScriptStep
  <1>9. CASE PassOne(c)
    <2>1. pc[c] = 3 /\ UNCHANGED <<guess, late, ready, arrived, quiet>>
      BY <1>1, <1>9, AtStep DEF PassOne
    <2>2. PICK ok : Checked(c, ok)
      BY <1>9 DEF PassOne
    <2>3. pc' = [pc EXCEPT ![c] = 4] \/ pc' = [pc EXCEPT ![c] = 0]
      BY <1>1, <2>1, <2>2, NextStep
    <2> QED
      BY <1>1, <1>5, <1>9, <2>1, <2>3, PassOneFiles
  <1>10. CASE PerfHashBuild(c)
    <2>1. pc[c] = 4 /\ UNCHANGED <<guess, late, ready, arrived, quiet>>
      BY <1>1, <1>10, AtStep DEF PerfHashBuild
    <2>2. PICK ok : Checked(c, ok)
      BY <1>10 DEF PerfHashBuild
    <2>3. pc' = [pc EXCEPT ![c] = 5] \/ pc' = [pc EXCEPT ![c] = 0]
      BY <1>1, <2>1, <2>2, NextStep
    <2> QED
      BY <1>1, <1>5, <1>10, <2>1, <2>3, PerfHashBuildFiles
  <1>11. CASE PassTwo(c)
    <2>1. pc[c] = 5 /\ UNCHANGED <<guess, late, ready, arrived, quiet>>
      BY <1>1, <1>11, AtStep DEF PassTwo
    <2>2. FilesOK' /\ Own(c) /\ Local(c)'
      BY <1>1, <1>11, PassTwoFiles, PassTwoLocal DEF Local
    <2>3. pc' = [pc EXCEPT ![c] = 6] \/ pc' = [pc EXCEPT ![c] = 0]
      BY <1>1, <1>11, PassTwoFiles DEF Local
    <2> QED
      BY <1>3, <2>1, <2>2, <2>3, ScriptStep
  <1>12. CASE Cleanup(c)
    <2>1. pc[c] = 6
      BY <1>1, <1>12, AtStep DEF Cleanup
    <2>2. pc[c] # 27 /\ pc[c] > 0
      BY <2>1
    <2>3. Checked(c, TRUE)
      BY <1>12 DEF Cleanup, Unchecked
    <2>4. pc' = [pc EXCEPT ![c] = pc[c] + 1] /\ pc'[c] = pc[c] + 1 /\ pc[c] + 1 \in 0 .. 27
      BY <1>1, <2>3, <2>2, StepOn
    <2>5. pc'[c] = 7
      BY <2>1, <2>4
    <2>6. /\ ready' = [ready EXCEPT ![c] = {}] /\ late' = [late EXCEPT ![c] = {}]
          /\ UNCHANGED <<fs, guess, arrived, quiet>>
      BY <1>12 DEF Cleanup
    <2>7. FilesOK' /\ Own(c) /\ TextsKept
      BY <1>1, <2>6, NoFileChanged
    <2>8. ready'[c] = {} /\ late'[c] = {}
      BY <1>1, <2>6 DEF Types
    <2>9. Local(c)'
      BY <2>1, <2>5, <2>6, <2>7, <2>8, CleanupLocal
    <2>10. Offered(c)
      BY <1>1, <2>6 DEF Types, Offered
    <2> QED
      BY <2>6, <2>7, <2>9, <2>10, <2>2, <2>4, ScriptStep
  <1>13. CASE TextMerge(c)
    <2>1. UNCHANGED <<guess, late, ready, arrived, quiet>>
      BY <1>13 DEF TextMerge
    <2>2. FilesOK' /\ Own(c) /\ Local(c)' /\ pc[c] = 13 /\ pc' = [pc EXCEPT ![c] = 14]
      BY <1>13, TextMergeFiles, TextMergeLocal
    <2>3. pc[c] > 0
      BY <2>2
    <2>4. ASSUME NEW k \in 0 .. 27, pc' = [pc EXCEPT ![c] = k] PROVE IInv'
      BY <1>3, <2>1, <2>2, <2>3, <2>4, ScriptStep
    <2> QED
      BY <2>2, <2>4
  <1>14. CASE InvfMerge(c)
    <2>1. pc[c] = 14 /\ UNCHANGED <<guess, late, ready, arrived, quiet>>
      BY <1>1, <1>14, AtStep DEF InvfMerge
    <2>2. pc[c] # 27 /\ pc[c] > 0
      BY <2>1
    <2>3. Checked(c, TRUE)
      BY <1>14 DEF InvfMerge, Unchecked
    <2>4. pc' = [pc EXCEPT ![c] = pc[c] + 1] /\ pc[c] + 1 \in 0 .. 27
      BY <1>1, <2>3, <2>2, StepOn
    <2> QED
      BY <1>1, <1>5, <1>14, <2>1, <2>4, InvfMergeFiles
  <1>15. CASE WeightsBuild(c)
    <2>1. pc[c] = 15 /\ Checked(c, Indexes(c)) /\ UNCHANGED <<guess, late, ready, arrived, quiet>>
      BY <1>1, <1>15, AtStep DEF WeightsBuild
    <2>2. pc' = [pc EXCEPT ![c] = 16] \/ pc' = [pc EXCEPT ![c] = 0]
      BY <1>1, <2>1, NextStep
    <2> QED
      BY <1>1, <1>5, <1>15, <2>1, <2>2, WeightsBuildFiles
  <1>16. CASE InvfDict(c)
    <2>1. pc[c] = 16 /\ UNCHANGED <<guess, late, ready, arrived, quiet>>
      BY <1>1, <1>16, AtStep DEF InvfDict
    <2>2. pc[c] # 27 /\ pc[c] > 0
      BY <2>1
    <2>3. Checked(c, TRUE)
      BY <1>16 DEF InvfDict, Unchecked
    <2>4. pc' = [pc EXCEPT ![c] = pc[c] + 1] /\ pc[c] + 1 \in 0 .. 27
      BY <1>1, <2>3, <2>2, StepOn
    <2> QED
      BY <1>1, <1>5, <1>16, <2>1, <2>4, InvfDictFiles
  <1>17. CASE RemoveAll(c)
    <2>1. UNCHANGED <<guess, late, ready, arrived, quiet>>
      BY <1>17 DEF RemoveAll
    <2>2. FilesOK' /\ Own(c) /\ Local(c)' /\ pc[c] = 27 /\ pc' = [pc EXCEPT ![c] = 0]
      BY <1>17, RemoveAllLocal
    <2>3. pc[c] > 0
      BY <2>2
    <2>4. ASSUME NEW k \in 0 .. 27, pc' = [pc EXCEPT ![c] = k] PROVE IInv'
      BY <1>3, <2>1, <2>2, <2>3, <2>4, ScriptStep
    <2> QED
      BY <2>2, <2>4
  <1>18. CASE Arrive(c)
    <2>1. fs' = fs /\ pc' = pc /\ guess' = guess /\ ready' = ready
      BY <1>18 DEF Arrive
    <2>2. FilesOK' /\ OneMerge' /\ TextsKept
      BY <1>1, <2>1, NoFileChanged DEF OneMerge, Exists
    <2>3. \A d \in Coll \ {c} : late'[d] = late[d] /\ quiet'[d] = quiet[d] /\ arrived'[d] = arrived[d]
      BY <1>1, <1>18 DEF Arrive, Types
    <2>4. ASSUME NEW d \in Coll, d # c PROVE Local(d)'
      BY <1>1, <2>1, <2>2, <2>3, <2>4, OthersKept DEF TextsKept
    <2>5. Types'
      <3>1. arrived[c] \in 1 .. MaxDocs /\ arrived[c] + 1 \in 1 .. MaxDocs /\ MaxDocs \in Nat
        BY <1>1, <1>18, MgMergeAssumption DEF Arrive, Types
      <3> QED
        BY <1>1, <1>18, <2>1, <3>1 DEF Arrive, Types
    <2> QED
      BY <1>18, <2>2, <2>4, <2>5, ArriveLocal DEF IInv, Local
  <1>19. CASE Interrupt(c)
    <2>1. /\ pc[c] \in 0 .. 6 /\ pc' = [pc EXCEPT ![c] = 0]
          /\ UNCHANGED <<fs, guess, late, ready, arrived, quiet>>
      BY <1>19, FirstPhaseIs DEF Interrupt, Careful
    <2>2. FilesOK' /\ Own(c) /\ TextsKept
      BY <1>1, <2>1, NoFileChanged
    <2> QED
      BY <1>5, <2>1, <2>2
  <1> QED
    BY <1>6, <1>7, <1>8, <1>9, <1>10, <1>11, <1>12, <1>13, <1>14, <1>15, <1>16, <1>17, <1>18, <1>19

\* QuietKept follows: what is not on offer is in the collection's text or in the new one.
LEMMA IInvKeeps == IInv => QuietKept
  <1> SUFFICES ASSUME IInv, NEW c \in Coll, NEW d \in quiet[c], d \notin late[c] \cup ready[c]
               PROVE  \E p \in {"base", "old", "new"} : Exists(p, c, "text") /\ d \in TextAt(p, c)
    BY DEF QuietKept, TextAt
  <1>1. TextPlaced(c) /\ Accounted(c)
    BY DEF IInv
  <1>2. Home(c) \in {"base", "old"} /\ Exists(Home(c), c, "text")
    BY <1>1 DEF TextPlaced, Home
  <1>3. d \in TextAt(Home(c), c) \/ (pc[c] \in 7 .. 13 /\ d \in TextAt("new", c))
    BY <1>1 DEF Accounted
  <1> QED
    BY <1>1, <1>2, <1>3 DEF Accounted

LEMMA IInvTypes == IInv => TypeOK
  <1> SUFFICES ASSUME IInv PROVE TypeOK
    OBVIOUS
  <1>1. \A name \in DOMAIN fs : name[1] \in {"base", "old", "new", "merge"} /\ name[2] \in Coll
    BY DEF IInv, FilesOK, Places
  <1>2. Len(Script) = 27
    BY ScriptSteps
  <1>3. \A c \in Coll : /\ late[c] \cup ready[c] \subseteq 1 .. arrived[c]
                        /\ late[c] \cap ready[c] = {}
                        /\ quiet[c] \subseteq 1 .. arrived[c]
    BY DEF IInv, Numbered
  <1> QED
    BY <1>1, <1>2, <1>3 DEF IInv, Types, TypeOK

\* The files are those of the four places, the script is at one of its steps, and a
\* document on offer has arrived and is new or waiting, not both (mgmerge.sh).
THEOREM TypesRight ==
  ASSUME Careful
  PROVE  Spec => []TypeOK
  <1>1. Init => IInv
    BY InitIInv
  <1>2. IInv /\ [Next]_vars => IInv'
    BY StepIInv
  <1>3. IInv => TypeOK
    BY IInvTypes
  <1> QED
    BY <1>1, <1>2, <1>3, PTL DEF Spec

\* Documents that arrive outside of the first phase of a merge are never lost, for any
\* number of collections, documents and merges (mgmerge.sh, mg_get_merge.sh): they are
\* on offer, in the new text, or in the collection's own.
THEOREM QuietAlwaysKept ==
  ASSUME Careful
  PROVE  Spec => []QuietKept
  <1>1. Init => IInv
    BY InitIInv
  <1>2. IInv /\ [Next]_vars => IInv'
    BY StepIInv
  <1>3. IInv => QuietKept
    BY IInvKeeps
  <1> QED
    BY <1>1, <1>2, <1>3, PTL DEF Spec

----------------------------------------------------------------------------
(* Which documents every file is about, at each step of the script.        *)

\* The files of a collection but for the text dictionary, and those of them that go
\* to MERGE as the old ones.
Nine ==
  {"text", "text.idx", "invf", "invf.idx", "invf.dict",
   "invf.dict.blocked", "weight", "weight.approx", "text.idx.wgt"}

Five == {"text", "text.idx", "invf", "invf.idx", "invf.dict"}

\* The step that moves a file away, the one that makes its successor, and the one that
\* brings that back; a file that is not moved is there until then.
Back(s) ==
  CASE s = "text" -> 17 [] s = "text.idx" -> 18 [] s = "invf" -> 20 [] s = "invf.idx" -> 21
    [] s = "invf.dict" -> 22 [] s = "invf.dict.blocked" -> 23 [] s = "weight" -> 24
    [] s = "weight.approx" -> 25 [] OTHER -> 26

Away(s) ==
  CASE s = "text" -> 7 [] s = "text.idx" -> 8 [] s = "invf" -> 9 [] s = "invf.idx" -> 10
    [] s = "invf.dict" -> 11 [] s = "weight" -> 12 [] OTHER -> Back(s)

Made(s) ==
  CASE s = "text" -> 27 [] s = "text.idx" -> 13 [] s \in {"invf", "invf.idx", "invf.dict"} -> 14
    [] s = "invf.dict.blocked" -> 16 [] OTHER -> 15

\* A file with suffix s is about these documents.
About(s, file, docs) ==
  IF s = "invf" THEN file.docs = docs /\ file.skips \in BOOLEAN
  ELSE file = Built(docs, FALSE)[s]

Has(p, c, s, docs) == Exists(p, c, s) /\ About(s, Get(p, c, s), docs)

Skips(p, c) == Exists(p, c, "invf") /\ Get(p, c, "invf").skips = TRUE

\* Before step k of a merge of documents new with documents old.
AtHome(c, k, old, new) ==
  \A s \in Nine :
    /\ k <= Away(s) => Has("base", c, s, old)
    /\ Away(s) < k /\ k <= Back(s) => ~Exists("base", c, s)
    /\ k > Back(s) => Has("base", c, s, old \o new)

InOld(c, k, old, new) ==
  \A s \in Five :
    /\ k <= Away(s) => ~Exists("old", c, s)
    /\ k > Away(s) /\ (s = "text" => k <= 13) => Has("old", c, s, old)
    /\ s = "text" /\ k \in 14 .. 17 => Has("old", c, s, old \o new)

InNew(c, k, new) ==
  /\ k >= 4 => Exists("new", c, "invf.dict") /\ Get("new", c, "invf.dict") = new
  /\ k \in 6 .. 14 => \A s \in {"text", "text.idx", "invf", "invf.idx"} : Has("new", c, s, new)

InMerge(c, k, keep, old, new) ==
  /\ k \in 13 .. 14 => Has("merge", c, "weight", old)
  /\ k = 15 => Exists("merge", c, "weight") /\ (keep => Has("merge", c, "weight", old \o new))
  /\ k >= 15 => ~Skips("old", c)
  /\ \A s \in Nine : Made(s) < k /\ k <= Back(s) => Has("merge", c, s, old \o new)

Healthy(c, k, keep, old, new) ==
  AtHome(c, k, old, new) /\ InOld(c, k, old, new) /\ InMerge(c, k, keep, old, new)

\* An inverted file with skips could not be merged: its collection stays in MERGE,
\* and every merge that is tried again fails in the same way.
Stuck(c, k, old, new) ==
  /\ Skips("old", c) /\ k <= 15
  /\ \A s \in Five : ~Exists("base", c, s)
  /\ \A s \in {"text.idx", "invf", "invf.dict"} : Has("old", c, s, old)
  /\ k \in 14 .. 15 => /\ Exists("merge", c, "text.idx")
                       /\ Get("merge", c, "text.idx").n = Len(old) + Len(new)
  /\ k = 15 => Exists("merge", c, "invf.dict") /\ Get("merge", c, "invf.dict") = old

\* The text dictionary is in one place.
DictPlaced(c, k) ==
  /\ k <= 1 => (Exists("base", c, "text.dict") <=> ~Exists("new", c, "text.dict"))
  /\ k \in 2 .. 19 => Exists("new", c, "text.dict") /\ ~Exists("base", c, "text.dict")
  /\ k >= 20 => Exists("base", c, "text.dict") /\ ~Exists("new", c, "text.dict")

Placed(c, k, keep, old, new) ==
  /\ DictPlaced(c, k) /\ InNew(c, k, new)
  /\ Healthy(c, k, keep, old, new) \/ Stuck(c, k, old, new)

Once(docs) == \A i, j \in DOMAIN docs : docs[i] = docs[j] => i = j

\* Documents are merged once: those on offer are in no file.
Fresh(c, k, old, new) ==
  /\ old # <<>> /\ Once(old) /\ Range(old) \subseteq 1 .. arrived[c]
  /\ Range(old) \cap (late[c] \cup ready[c]) = {}
  /\ k \in 4 .. 6 => new = Text(c)
  /\ k >= 4 => new # <<>>
  /\ k >= 7 => /\ Once(new) /\ Range(new) \subseteq 1 .. arrived[c]
               /\ Range(new) \cap (late[c] \cup ready[c]) = {}
               /\ Range(new) \cap Range(old) = {}

Shape(c, old, new) ==
  Fresh(c, pc[c], old, new) /\ Placed(c, pc[c], guess[c], old, new)

Whole(c) == \E old, new \in Seq(Nat) : Shape(c, old, new)

----------------------------------------------------------------------------
(* Files that stay, and files that are moved.                              *)

LEMMA Turns ==
  /\ \A s \in Nine : /\ Away(s) \in 7 .. 26 /\ Back(s) \in 17 .. 26 /\ Made(s) \in 13 .. 27
                     /\ Away(s) <= Back(s) /\ Back(s) # 19
                     /\ Away(s) \notin 13 .. 22 /\ (Away(s) \in 7 .. 12 \/ Away(s) = Back(s))
  /\ \A s \in Five : Away(s) \in 7 .. 11
  /\ Five \subseteq Nine /\ Nine \subseteq Kinds
  BY DEF Nine, Five, Kinds, Away, Back, Made

LEMMA KindsAre ==
  /\ Nine \cup {"text.dict"} \subseteq Kinds /\ Five \subseteq Kinds
  /\ {"base", "old", "new", "merge"} = Places
  BY DEF Nine, Five, Kinds, Places

\* A file that is not changed is about what it was about.
LEMMA HasSame ==
  ASSUME NEW p \in Places, NEW c \in Coll, NEW s \in Kinds, Same(p, c, s)
  PROVE  /\ \A docs : Has(p, c, s, docs)' <=> Has(p, c, s, docs)
         /\ Exists(p, c, s)' <=> Exists(p, c, s)
         /\ Exists(p, c, s) => Get(p, c, s)' = Get(p, c, s)
  BY DEF Same, Has

\* The places where files of a collection are alike before and after a step.
SameAll(p, c, kinds) == \A s \in kinds : Same(p, c, s)

\* Files of a collection's own directory that stay, over steps that do not move them.
LEMMA HomeKept ==
  ASSUME NEW c \in Coll, NEW old, NEW new, NEW i \in 0 .. 27, NEW k \in 0 .. 27,
         AtHome(c, i, old, new), SameAll("base", c, Nine),
         (i <= 7 /\ k <= 7) \/ (i \in 13 .. 17 /\ k \in 13 .. 17) \/ i = k
  PROVE  AtHome(c, k, old, new)'
  <1> SUFFICES ASSUME NEW s \in Nine
               PROVE  /\ k <= Away(s) => Has("base", c, s, old)'
                      /\ Away(s) < k /\ k <= Back(s) => ~Exists("base", c, s)'
                      /\ k > Back(s) => Has("base", c, s, old \o new)'
    BY DEF AtHome
  <1>1. /\ Has("base", c, s, old)' <=> Has("base", c, s, old)
        /\ Has("base", c, s, old \o new)' <=> Has("base", c, s, old \o new)
        /\ Exists("base", c, s)' <=> Exists("base", c, s)
    BY HasSame, Turns DEF SameAll, Places
  <1>2. /\ i <= Away(s) => Has("base", c, s, old)
        /\ Away(s) < i /\ i <= Back(s) => ~Exists("base", c, s)
        /\ i > Back(s) => Has("base", c, s, old \o new)
    BY DEF AtHome
  <1>3. /\ Away(s) \in 7 .. 26 /\ Back(s) \in 17 .. 26 /\ Away(s) \notin 13 .. 22 /\ Away(s) <= Back(s)
        /\ (Away(s) \in 7 .. 12 \/ Away(s) = Back(s))
    BY Turns
  <1> HIDE DEF Has, Exists, Away, Back
  <1> QED
    BY <1>1, <1>2, <1>3

\* The same for the old files in MERGE,
LEMMA OldKept ==
  ASSUME NEW c \in Coll, NEW old, NEW new, NEW i \in 0 .. 27, NEW k \in 0 .. 27,
         InOld(c, i, old, new), SameAll("old", c, Five \ {"text"}),
         Same("old", c, "text") \/ (i >= 17 /\ k = i + 1),
         (i <= 7 /\ k <= 7) \/ (i \in 12 .. 13 /\ k \in 12 .. 13) \/ (i \in 14 .. 27 /\ k = i + 1) \/ i = k
  PROVE  InOld(c, k, old, new)'
  <1> SUFFICES ASSUME NEW s \in Five
               PROVE  /\ k <= Away(s) => ~Exists("old", c, s)'
                      /\ k > Away(s) /\ (s = "text" => k <= 13) => Has("old", c, s, old)'
                      /\ s = "text" /\ k \in 14 .. 17 => Has("old", c, s, old \o new)'
    BY DEF InOld
  <1>0. s # "text" \/ ~(i >= 17 /\ k = i + 1) => Same("old", c, s)
    BY DEF SameAll
  <1>1. s # "text" \/ ~(i >= 17 /\ k = i + 1) =>
        /\ Has("old", c, s, old)' <=> Has("old", c, s, old)
        /\ Has("old", c, s, old \o new)' <=> Has("old", c, s, old \o new)
        /\ Exists("old", c, s)' <=> Exists("old", c, s)
    BY <1>0, HasSame, Turns DEF Places
  <1>2. /\ i <= Away(s) => ~Exists("old", c, s)
        /\ i > Away(s) /\ (s = "text" => i <= 13) => Has("old", c, s, old)
        /\ s = "text" /\ i \in 14 .. 17 => Has("old", c, s, old \o new)
    BY DEF InOld
  <1>3. Away(s) \in 7 .. 11
    BY Turns
  <1> HIDE DEF Has, Exists, Away, Back
  <1> QED
    BY <1>1, <1>2, <1>3

\* for the merged ones,
LEMMA MergeKept ==
  ASSUME NEW c \in Coll, NEW old, NEW new, NEW keep, NEW i \in 0 .. 27, NEW k \in 0 .. 27,
         InMerge(c, i, keep, old, new), SameAll("merge", c, Nine), Same("old", c, "invf"),
         (i <= 12 /\ k <= 12) \/ i = k
  PROVE  InMerge(c, k, keep, old, new)'
  <1>1. ASSUME NEW s \in Nine
        PROVE  /\ Has("merge", c, s, old)' <=> Has("merge", c, s, old)
               /\ Has("merge", c, s, old \o new)' <=> Has("merge", c, s, old \o new)
               /\ Exists("merge", c, s)' <=> Exists("merge", c, s)
    BY HasSame, Turns DEF SameAll, Places
  <1>2. Skips("old", c)' <=> Skips("old", c)
    BY DEF Skips, Same
  <1>3. \A s \in Nine : Made(s) \in 13 .. 27
    BY Turns
  <1>4. "weight" \in Nine
    BY DEF Nine
  <1> HIDE DEF Has, Exists, Made, Back, Skips
  <1>5. \A s \in Nine : Made(s) < k /\ k <= Back(s) => Has("merge", c, s, old \o new)'
    BY <1>1, <1>3 DEF InMerge
  <1>6. /\ k \in 13 .. 14 => Has("merge", c, "weight", old)'
        /\ k = 15 => Exists("merge", c, "weight")' /\ (keep => Has("merge", c, "weight", old \o new)')
    BY <1>1, <1>4 DEF InMerge
  <1>7. k >= 15 => ~Skips("old", c)'
    BY <1>2 DEF InMerge
  <1> QED
    BY <1>5, <1>6, <1>7 DEF InMerge

\* for those of the new documents,
LEMMA NewKept ==
  ASSUME NEW c \in Coll, NEW new, NEW i \in 0 .. 27, NEW k \in 0 .. 27,
         InNew(c, i, new), SameAll("new", c, Five),
         k <= 3 \/ (i \in 4 .. 5 /\ k \in 4 .. 5) \/ (i \in 6 .. 26 /\ k = i + 1) \/ i = k
  PROVE  InNew(c, k, new)'
  <1>1. ASSUME NEW s \in Five
        PROVE  /\ Has("new", c, s, new)' <=> Has("new", c, s, new)
               /\ Exists("new", c, s)' <=> Exists("new", c, s)
               /\ Exists("new", c, s) => Get("new", c, s)' = Get("new", c, s)
    BY HasSame, Turns DEF SameAll, Places
  <1>2. {"text", "text.idx", "invf", "invf.idx"} \subseteq Five /\ "invf.dict" \in Five
    BY DEF Five
  <1> HIDE DEF Has, Exists, Get
  <1> QED
    BY <1>1, <1>2 DEF InNew

\* and for the text dictionary.
LEMMA DictKept ==
  ASSUME NEW c \in Coll, NEW i \in 0 .. 27, NEW k \in 0 .. 27, DictPlaced(c, i),
         Same("base", c, "text.dict"), Same("new", c, "text.dict"),
         k <= 1 \/ (i >= 2 /\ k \in 2 .. 19 /\ i <= 19) \/ (i >= 20 /\ k >= 20)
  PROVE  DictPlaced(c, k)'
  BY DEF DictPlaced, Same

\* A collection that could not be merged stays so.
LEMMA StuckKept ==
  ASSUME NEW c \in Coll, NEW old, NEW new, NEW i \in 0 .. 27, NEW k \in 0 .. 27,
         Stuck(c, i, old, new), SameAll("base", c, Five), SameAll("old", c, Five \ {"text"}),
         k <= 13 \/ (i = k /\ Same("merge", c, "text.idx") /\ Same("merge", c, "invf.dict"))
  PROVE  Stuck(c, k, old, new)'
  <1>1. \A s \in Five : ~Exists("base", c, s)'
    BY HasSame, Turns DEF SameAll, Places, Stuck
  <1>2. \A s \in {"text.idx", "invf", "invf.dict"} : Has("old", c, s, old)'
    BY HasSame, Turns DEF SameAll, Places, Stuck, Five
  <1>3. Same("old", c, "invf")
    BY DEF SameAll, Five
  <1>4. Skips("old", c)'
    BY <1>3 DEF Skips, Same, Stuck
  <1>5. \A s \in {"text.idx", "invf.dict"} :
          i = k /\ k \in 14 .. 15 /\ Exists("merge", c, s) =>
            Exists("merge", c, s)' /\ Get("merge", c, s)' = Get("merge", c, s)
    BY DEF Same
  <1> QED
    BY <1>1, <1>2, <1>4, <1>5 DEF Stuck

\* mv of any file of a collection.
LEMMA MoveFile ==
  ASSUME NEW c \in Coll, NEW from \in Places, NEW to \in Places, from # to,
         NEW suffix \in Kinds, Moved(<<from, c, suffix>>, <<to, c, suffix>>)
  PROVE  /\ \A p \in Places, s \in Kinds : s # suffix \/ p \notin {from, to} => Same(p, c, s)
         /\ Exists(from, c, suffix) => /\ Exists(to, c, suffix)' /\ ~Exists(from, c, suffix)'
                                       /\ Get(to, c, suffix)' = Get(from, c, suffix)
                                       /\ \A docs : Has(from, c, suffix, docs) => Has(to, c, suffix, docs)'
         /\ ~Exists(from, c, suffix) => Same(from, c, suffix) /\ Same(to, c, suffix)
  <1> DEFINE here  == <<from, c, suffix>>
             there == <<to, c, suffix>>
  <1>1. here # there
    OBVIOUS
  <1>2. ASSUME NEW p \in Places, NEW s \in Kinds, s # suffix \/ p \notin {from, to}
        PROVE  Same(p, c, s)
    <2>1. <<p, c, s>> # here /\ <<p, c, s>> # there
      BY <1>2
    <2> QED
      BY <2>1 DEF Same, Exists, Get, Moved
  <1>4. Exists(from, c, suffix) => /\ Exists(to, c, suffix)' /\ ~Exists(from, c, suffix)'
                                  /\ Get(to, c, suffix)' = Get(from, c, suffix)
    BY <1>1 DEF Moved, Exists, Get
  <1>5. ~Exists(from, c, suffix) => Same(from, c, suffix) /\ Same(to, c, suffix)
    BY DEF Moved, Exists, Get, Same
  <1> QED
    BY <1>2, <1>4, <1>5 DEF Has

\* Writing files of a collection: those it writes, and all the others.
LEMMA WritesFiles ==
  ASSUME NEW c \in Coll, NEW files, fs' = Writes(files)
  PROVE  /\ \A p \in Places, s \in Kinds :
              /\ <<p, c, s>> \notin DOMAIN files => Same(p, c, s)
              /\ <<p, c, s>> \in DOMAIN files =>
                   Exists(p, c, s)' /\ Get(p, c, s)' = files[<<p, c, s>>]
  BY WritesAre DEF Same, Exists, Get

LEMMA FilesSame ==
  ASSUME UNCHANGED fs
  PROVE  \A p \in Places, d \in Coll, s \in Kinds : Same(p, d, s)
  BY DEF Same, Exists, Get

\* All the files of a collection stay, and the script is where the same is asked of them.
LEMMA PlacedKept ==
  ASSUME NEW c \in Coll, NEW old, NEW new, NEW keep, NEW keep2, NEW i \in 0 .. 27, NEW k \in 0 .. 27,
         Placed(c, i, keep, old, new), \A p \in Places : SameAll(p, c, Kinds),
         \/ i = k /\ keep = keep2
         \/ i <= 6 /\ k <= 1
         \/ i = 2 /\ k = 3
         \/ i = 4 /\ k = 5
         \/ i = 6 /\ k = 7
  PROVE  Placed(c, k, keep2, old, new)'
  <1>1. /\ SameAll("base", c, Nine) /\ SameAll("merge", c, Nine) /\ Same("old", c, "text")
        /\ SameAll("new", c, Five) /\ SameAll("base", c, Five)
        /\ SameAll("old", c, Five \ {"text"})
        /\ Same("base", c, "text.dict") /\ Same("new", c, "text.dict")
        /\ Same("old", c, "invf") /\ Same("merge", c, "text.idx") /\ Same("merge", c, "invf.dict")
    BY Turns DEF SameAll, Places, Kinds
  <1>2. DictPlaced(c, k)'
    BY <1>1, DictKept DEF Placed
  <1>3. InNew(c, k, new)'
    BY <1>1, NewKept DEF Placed
  <1>4. ASSUME Healthy(c, i, keep, old, new) PROVE Healthy(c, k, keep2, old, new)'
    <2>1. AtHome(c, k, old, new)'
      BY <1>1, <1>4, HomeKept DEF Healthy
    <2>2. InOld(c, k, old, new)'
      BY <1>1, <1>4, OldKept DEF Healthy
    <2>3. InMerge(c, k, keep, old, new)'
      BY <1>1, <1>4, MergeKept DEF Healthy
    <2>4. InMerge(c, k, keep2, old, new)'
      BY <2>3 DEF InMerge
    <2> QED
      BY <2>1, <2>2, <2>4 DEF Healthy
  <1>5. ASSUME Stuck(c, i, old, new) PROVE Stuck(c, k, old, new)'
    BY <1>1, <1>5, StuckKept
  <1> QED
    BY <1>2, <1>3, <1>4, <1>5 DEF Placed

----------------------------------------------------------------------------
(* Documents on offer.                                                     *)

LEMMA ShapeNext ==
  ASSUME NEW c \in Coll, NEW old, NEW new, NEW k, NEW keep, pc'[c] = k, guess'[c] = keep,
         Fresh(c, k, old, new)', Placed(c, k, keep, old, new)'
  PROVE  Shape(c, old, new)'
  BY DEF Shape, Fresh, Placed, DictPlaced, InNew, Healthy, Stuck, AtHome, InOld, InMerge

\* Documents once merged stay so while none is offered twice.
LEMMA FreshKept ==
  ASSUME NEW c \in Coll, NEW old, NEW new, NEW i \in 0 .. 27, NEW k \in 0 .. 27,
         Fresh(c, i, old, new), arrived'[c] = arrived[c],
         late'[c] \cup ready'[c] = late[c] \cup ready[c],
         k \in 4 .. 6 => i \in 4 .. 6 /\ ready'[c] = ready[c],
         k >= 4 => new # <<>>,
         k >= 7 => i >= 7
  PROVE  Fresh(c, k, old, new)'
  <1>1. k \in 4 .. 6 => Text(c)' = Text(c)
    BY DEF Text
  <1> QED
    BY <1>1 DEF Fresh

\* Another collection than the one a step is about.
LEMMA OthersWhole ==
  ASSUME NEW c \in Coll, Whole(c), Types, \A p \in Places : SameAll(p, c, Kinds),
         pc'[c] = pc[c], guess'[c] = guess[c], late'[c] = late[c], ready'[c] = ready[c],
         arrived'[c] = arrived[c]
  PROVE  Whole(c)'
  <1>1. PICK old \in Seq(Nat), new \in Seq(Nat) : Shape(c, old, new)
    BY DEF Whole
  <1>2. PICK k \in 0 .. 27 : k = pc[c]
    BY DEF Types
  <1>3. PICK keep : keep = guess[c]
    OBVIOUS
  <1>4. Fresh(c, k, old, new) /\ Placed(c, k, keep, old, new)
    BY <1>1, <1>2, <1>3 DEF Shape
  <1>5. Fresh(c, k, old, new)'
    <2>1. k >= 4 => new # <<>>
      BY <1>4 DEF Fresh
    <2> QED
      BY <1>4, <2>1, FreshKept
  <1>6. Placed(c, k, keep, old, new)'
    BY <1>4, PlacedKept
  <1>7. pc'[c] = k /\ guess'[c] = keep
    BY <1>2, <1>3
  <1>8. Shape(c, old, new)'
    BY <1>5, <1>6, <1>7, ShapeNext
  <1> QED
    BY <1>8 DEF Whole

\* What find puts out has every document once.
LEMMA SetToSeqOnce ==
  ASSUME NEW S, IsFiniteSet(S)
  PROVE  Once(SetToSeq(S))
  <1> DEFINE n == Cardinality(S)
  <1>1. n \in Nat /\ ExistsBijection(1 .. n, S)
    BY FS_CardinalityType
  <1>2. PICK f \in Bijection(1 .. n, S) : TRUE
    BY <1>1 DEF ExistsBijection
  <1>3. f \in [1 .. n -> S] /\ IsInjective(f)
    BY <1>2 DEF Bijection, Injection, IsInjective
  <1>4. SetToSeq(S) \in [1 .. n -> S] /\ IsInjective(SetToSeq(S))
    BY <1>3 DEF SetToSeq
  <1> QED
    BY <1>4 DEF Once, IsInjective

LEMMA TextOnce ==
  ASSUME NEW c \in Coll, Types, Numbered(c)
  PROVE  Once(Text(c))
  <1>1. IsFiniteSet(ready[c])
    BY FS_Interval, FS_Subset DEF Types, Numbered
  <1> QED
    BY <1>1, SetToSeqOnce DEF Text

\* What the script has read is what was to be merged, and is no longer on offer.
LEMMA CleanupFresh ==
  ASSUME NEW c \in Coll, Types, Numbered(c), NEW old, NEW new, Fresh(c, 6, old, new),
         arrived'[c] = arrived[c], late'[c] = {}, ready'[c] = {}
  PROVE  Fresh(c, 7, old, new)'
  <1>1. new = Text(c) /\ new # <<>>
    BY DEF Fresh
  <1>2. Once(new) /\ Range(new) = ready[c]
    BY <1>1, TextOnce, TextRange
  <1> QED
    BY <1>1, <1>2 DEF Fresh, Numbered

\* A document that arrives is in no file yet.
LEMMA ArriveFresh ==
  ASSUME NEW c \in Coll, Types, NEW old, NEW new, NEW k \in 0 .. 27, Fresh(c, k, old, new),
         arrived'[c] = arrived[c] + 1, late'[c] = late[c] \cup {arrived[c] + 1}, ready'[c] = ready[c]
  PROVE  Fresh(c, k, old, new)'
  <1>1. arrived[c] \in Nat
    BY DEF Types
  <1>2. Text(c)' = Text(c)
    BY DEF Text
  <1> QED
    BY <1>1, <1>2 DEF Fresh

----------------------------------------------------------------------------
(* Sequences one behind the other.                                         *)

\* Old documents followed by new ones: each is there once.
LEMMA BothOnce ==
  ASSUME NEW s \in Seq(Nat), NEW t \in Seq(Nat), Once(s), Once(t), Range(s) \cap Range(t) = {}
  PROVE  Once(s \o t)
  <1>1. /\ s \o t \in Seq(Nat) /\ Len(s \o t) = Len(s) + Len(t)
        /\ \A i \in 1 .. Len(s) : (s \o t)[i] = s[i]
        /\ \A i \in Len(s) + 1 .. Len(s) + Len(t) : (s \o t)[i] = t[i - Len(s)]
    BY Joined
  <1> DEFINE u == s \o t
  <1> HIDE DEF u
  <1> SUFFICES ASSUME NEW i \in 1 .. Len(u), NEW j \in 1 .. Len(u), u[i] = u[j] PROVE i = j
    BY <1>1 DEF Once, u
  <1>2. Len(s) \in Nat /\ Len(t) \in Nat /\ DOMAIN s = 1 .. Len(s) /\ DOMAIN t = 1 .. Len(t)
    OBVIOUS
  <1>3. /\ \A k \in 1 .. Len(s) : s[k] \in Range(s)
        /\ \A k \in 1 .. Len(t) : t[k] \in Range(t)
    BY <1>2 DEF Range
  <1>4. \A k \in Len(s) + 1 .. Len(s) + Len(t) : k - Len(s) \in 1 .. Len(t)
    BY <1>2
  <1>5. Len(u) = Len(s) + Len(t)
    BY <1>1 DEF u
  <1>6. \A k \in 1 .. Len(s) : u[k] = s[k]
    BY <1>1 DEF u
  <1>7. \A k \in Len(s) + 1 .. Len(s) + Len(t) : u[k] = t[k - Len(s)]
    BY <1>1 DEF u
  <1>8. CASE i \in 1 .. Len(s) /\ j \in 1 .. Len(s)
    BY <1>2, <1>6, <1>8 DEF Once
  <1>9. CASE i \in Len(s) + 1 .. Len(s) + Len(t) /\ j \in Len(s) + 1 .. Len(s) + Len(t)
    <2>1. i - Len(s) = j - Len(s)
      BY <1>2, <1>4, <1>7, <1>9 DEF Once
    <2> QED
      BY <1>2, <1>9, <2>1
  <1>10. CASE i \in 1 .. Len(s) /\ j \in Len(s) + 1 .. Len(s) + Len(t)
    BY <1>3, <1>4, <1>6, <1>7, <1>10
  <1>11. CASE j \in 1 .. Len(s) /\ i \in Len(s) + 1 .. Len(s) + Len(t)
    BY <1>3, <1>4, <1>6, <1>7, <1>11
  <1> QED
    BY <1>2, <1>5, <1>8, <1>9, <1>10, <1>11

\* When the merge is done its documents are the old ones of the next.
LEMMA RemoveFresh ==
  ASSUME NEW c \in Coll, NEW old \in Seq(Nat), NEW new \in Seq(Nat), Fresh(c, 27, old, new),
         arrived'[c] = arrived[c], late'[c] = late[c], ready'[c] = ready[c]
  PROVE  Fresh(c, 0, old \o new, new)'
  <1>1. /\ old # <<>> /\ Once(old) /\ Range(old) \subseteq 1 .. arrived[c]
        /\ Range(old) \cap (late[c] \cup ready[c]) = {}
        /\ Once(new) /\ Range(new) \subseteq 1 .. arrived[c]
        /\ Range(new) \cap (late[c] \cup ready[c]) = {}
        /\ Range(new) \cap Range(old) = {}
    BY DEF Fresh
  <1>2. Once(old \o new)
    BY <1>1, BothOnce
  <1>3. Range(old \o new) = Range(old) \cup Range(new)
    BY RangeConcatenation
  <1>4. old \o new # <<>>
    <2>1. Len(old) # 0
      BY <1>1, EmptySeq
    <2>2. Len(old \o new) = Len(old) + Len(new) /\ Len(old) \in Nat /\ Len(new) \in Nat
      BY Joined
    <2>3. Len(<<>>) = 0
      BY EmptySeq
    <2> QED
      BY <2>1, <2>2, <2>3
  <1> QED
    BY <1>1, <1>2, <1>3, <1>4 DEF Fresh

----------------------------------------------------------------------------
(* Steps that keep every file.                                             *)

\* Steps that change no file.
LEMMA FilesStay ==
  ASSUME NEW c \in Coll, NEW old, NEW new,
         Shape(c, old, new), UNCHANGED fs, pc[c] \in 0 .. 27, pc'[c] \in 0 .. 27, arrived'[c] = arrived[c],
         late'[c] \cup ready'[c] = late[c] \cup ready[c],
         \/ pc[c] <= 6 /\ pc'[c] <= 1
         \/ pc[c] = 2 /\ pc'[c] = 3
  PROVE  Shape(c, old, new)'
  <1>0. PICK i \in 0 .. 27, k \in 0 .. 27 : i = pc[c] /\ k = pc'[c]
    OBVIOUS
  <1>1. PICK keep, keep2 : keep = guess[c] /\ keep2 = guess'[c]
    OBVIOUS
  <1>2. Fresh(c, i, old, new) /\ Placed(c, i, keep, old, new)
    BY <1>0, <1>1 DEF Shape
  <1>3. \A p \in Places : SameAll(p, c, Kinds)
    BY FilesSame DEF SameAll
  <1>4. Placed(c, k, keep2, old, new)'
    BY <1>0, <1>2, <1>3, PlacedKept
  <1>5. Fresh(c, k, old, new)'
    <2>1. (k \in 4 .. 6 => i \in 4 .. 6 /\ ready'[c] = ready[c]) /\ (k >= 4 => new # <<>>)
      BY <1>0
    <2>2. k >= 7 => i >= 7
      BY <1>0
    <2> QED
      BY <1>2, <2>1, <2>2, FreshKept
  <1>6. pc'[c] = k /\ guess'[c] = keep2
    BY <1>0, <1>1
  <1> QED
    BY <1>4, <1>5, <1>6, ShapeNext

LEMMA StartShape ==
  ASSUME NEW c \in Coll, IInv, NEW old, NEW new, Shape(c, old, new), Start(c)
  PROVE  Shape(c, old, new)'
  <1>1. pc[c] = 0 /\ pc'[c] = 1 /\ UNCHANGED <<fs, late, ready, arrived>>
    BY DEF Start, IInv, Types
  <1> QED
    BY <1>1, FilesStay

LEMMA InterruptShape ==
  ASSUME NEW c \in Coll, IInv, Careful, NEW old, NEW new, Shape(c, old, new), Interrupt(c)
  PROVE  Shape(c, old, new)'
  <1>1. pc[c] \in 0 .. 6
    BY FirstPhaseIs DEF Interrupt, Careful
  <1>2. pc'[c] = 0 /\ UNCHANGED <<fs, late, ready, arrived>>
    BY DEF Interrupt, IInv, Types
  <1> QED
    BY <1>1, <1>2, FilesStay

LEMMA GetInitShape ==
  ASSUME NEW c \in Coll, IInv, NEW old, NEW new, Shape(c, old, new), GetInit(c)
  PROVE  Shape(c, old, new)'
  <1>1. pc[c] = 2 /\ Checked(c, TRUE) /\ Types
    BY AtStep DEF GetInit, Unchecked, IInv
  <1>2. pc[c] # 27 /\ pc[c] + 1 = 3
    BY <1>1
  <1>4. pc'[c] = 3
    BY <1>1, <1>2, StepOn
  <1>3. UNCHANGED <<fs, arrived>> /\ late'[c] \cup ready'[c] = late[c] \cup ready[c]
    BY <1>1 DEF GetInit, Types
  <1> QED
    BY <1>1, <1>3, <1>4, FilesStay

LEMMA CleanupShape ==
  ASSUME NEW c \in Coll, IInv, NEW old, NEW new, Shape(c, old, new), Cleanup(c)
  PROVE  Shape(c, old, new)'
  <1>1. pc[c] = 6 /\ Checked(c, TRUE) /\ Types /\ Numbered(c)
    BY AtStep DEF Cleanup, Unchecked, IInv
  <1>0. pc[c] # 27 /\ pc[c] + 1 = 7
    BY <1>1
  <1>2. pc'[c] = 7
    BY <1>0, <1>1, StepOn
  <1>3. UNCHANGED <<fs, arrived, guess>> /\ late'[c] = {} /\ ready'[c] = {}
    BY <1>1 DEF Cleanup, Types
  <1>4. PICK keep : keep = guess[c]
    OBVIOUS
  <1>5. Fresh(c, 6, old, new) /\ Placed(c, 6, keep, old, new)
    BY <1>1, <1>4 DEF Shape
  <1>6. \A p \in Places : SameAll(p, c, Kinds)
    BY <1>3, FilesSame DEF SameAll
  <1>7. Placed(c, 7, keep, old, new)'
    BY <1>5, <1>6, PlacedKept
  <1>8. Fresh(c, 7, old, new)'
    BY <1>1, <1>3, <1>5, CleanupFresh
  <1>9. guess'[c] = keep
    BY <1>3, <1>4
  <1> QED
    BY <1>2, <1>7, <1>8, <1>9, ShapeNext

LEMMA ArriveShape ==
  ASSUME NEW c \in Coll, IInv, NEW old, NEW new, Shape(c, old, new), Arrive(c)
  PROVE  Shape(c, old, new)'
  <1>1. PICK k \in 0 .. 27, keep \in BOOLEAN : k = pc[c] /\ keep = guess[c]
    BY DEF IInv, Types
  <1>2. UNCHANGED <<fs, pc, guess, ready>> /\ Types
    BY DEF Arrive, IInv
  <1>3. arrived'[c] = arrived[c] + 1 /\ late'[c] = late[c] \cup {arrived[c] + 1} /\ ready'[c] = ready[c]
    BY <1>2 DEF Arrive, Types
  <1>4. Fresh(c, k, old, new) /\ Placed(c, k, keep, old, new)
    BY <1>1 DEF Shape
  <1>5. \A p \in Places : SameAll(p, c, Kinds)
    BY <1>2, FilesSame DEF SameAll
  <1>6. Placed(c, k, keep, old, new)'
    BY <1>4, <1>5, PlacedKept
  <1>7. Fresh(c, k, old, new)'
    BY <1>2, <1>3, <1>4, ArriveFresh
  <1>8. pc'[c] = k /\ guess'[c] = keep
    BY <1>1, <1>2
  <1> QED
    BY <1>6, <1>7, <1>8, ShapeNext

----------------------------------------------------------------------------
(* The programs of the first phase write new files only.                   *)

\* Files of the merge's new part change, and perhaps the script moves on: the rest stays.
LEMMA NewWritten ==
  ASSUME NEW c \in Coll, NEW old, NEW new, NEW new2, NEW keep, NEW i \in 0 .. 6, NEW k \in 0 .. 7,
         Placed(c, i, keep, old, new), \A p \in Places \ {"new"} : SameAll(p, c, Kinds),
         Same("new", c, "text.dict"), (i >= 2 /\ k >= 2) \/ k <= 1, InNew(c, k, new2)'
  PROVE  Placed(c, k, keep, old, new2)'
  <1>1. /\ SameAll("base", c, Nine) /\ SameAll("merge", c, Nine) /\ Same("old", c, "text")
        /\ SameAll("base", c, Five) /\ SameAll("old", c, Five \ {"text"})
        /\ Same("base", c, "text.dict") /\ Same("old", c, "invf")
    BY Turns DEF SameAll, Places, Kinds
  <1>2. DictPlaced(c, k)'
    BY <1>1, DictKept DEF Placed
  <1>4. ASSUME Healthy(c, i, keep, old, new) PROVE Healthy(c, k, keep, old, new2)'
    <2>0. AtHome(c, i, old, new2) /\ InOld(c, i, old, new2) /\ InMerge(c, i, keep, old, new2)
      BY <1>4, Turns DEF Healthy, AtHome, InOld, InMerge
    <2>1. AtHome(c, k, old, new2)'
      BY <1>1, <2>0, HomeKept
    <2>2. InOld(c, k, old, new2)'
      BY <1>1, <2>0, OldKept
    <2>3. InMerge(c, k, keep, old, new2)'
      BY <1>1, <2>0, MergeKept
    <2> QED
      BY <2>1, <2>2, <2>3 DEF Healthy
  <1>5. ASSUME Stuck(c, i, old, new) PROVE Stuck(c, k, old, new2)'
    <2>1. Stuck(c, i, old, new2)
      BY <1>5 DEF Stuck
    <2> QED
      BY <1>1, <2>1, StuckKept
  <1> QED
    BY <1>2, <1>4, <1>5 DEF Placed

\* A checked program that has failed ends the script, with everything in place.
LEMMA FailedFirst ==
  ASSUME NEW c \in Coll, IInv, NEW old, NEW new, Shape(c, old, new), UNCHANGED <<fs, late, ready, arrived>>,
         pc[c] \in 1 .. 6, pc' = [pc EXCEPT ![c] = 0]
  PROVE  Shape(c, old, new)'
  <1>1. pc[c] \in 0 .. 27 /\ pc'[c] = 0 /\ pc[c] <= 6
    BY DEF IInv, Types
  <1> QED
    BY <1>1, FilesStay

\* Pass 1 makes the dictionary of the documents the second pass will find.  Without any
\* words the merge ends here, with all files in place.
LEMMA PassOneShape ==
  ASSUME NEW c \in Coll, IInv, NEW old, NEW new, Shape(c, old, new), PassOne(c)
  PROVE  (Shape(c, old, Text(c))' /\ Text(c)' = Text(c)) \/ Shape(c, old, new)'
  <1> DEFINE files == [name \in {<<"new", c, "invf.dict">>} |-> Text(c)]
             ok == Text(c) # <<>>
  <1>1. pc[c] = 3 /\ Types
    BY AtStep DEF PassOne, IInv
  <1>0. pc[c] \in 1 .. 6 /\ pc[c] # 27 /\ pc[c] + 1 = 4
    BY <1>1
  <1>2. Checked(c, ok) /\ fs' = (IF ok THEN Writes(files) ELSE fs) /\ UNCHANGED <<guess, late, ready, arrived>>
    BY DEF PassOne
  <1>3. DOMAIN files = {<<"new", c, "invf.dict">>} /\ files[<<"new", c, "invf.dict">>] = Text(c)
    OBVIOUS
  <1> HIDE DEF files
  <1>4. CASE ~ok
    <2>1. pc' = [pc EXCEPT ![c] = 0] /\ UNCHANGED fs
      BY <1>1, <1>2, <1>4, NextStep
    <2> QED
      BY <1>0, <1>2, <2>1, FailedFirst
  <1>5. CASE ok
    <2>0. PICK keep, new2 : keep = guess[c] /\ new2 = Text(c)
      OBVIOUS
    <2>1. Fresh(c, 3, old, new) /\ Placed(c, 3, keep, old, new)
      BY <1>1, <2>0 DEF Shape
    <2>2. pc' = [pc EXCEPT ![c] = 4] /\ fs' = Writes(files)
      BY <1>0, <1>1, <1>2, <1>5, NextStep
    <2>3. /\ \A p \in Places, s \in Kinds : p # "new" \/ s # "invf.dict" => Same(p, c, s)
          /\ Exists("new", c, "invf.dict")' /\ Get("new", c, "invf.dict")' = Text(c)
      <3>1. \A p \in Places, s \in Kinds : <<p, c, s>> \in DOMAIN files <=> p = "new" /\ s = "invf.dict"
        BY <1>3
      <3>2. "new" \in Places /\ "invf.dict" \in Kinds
        BY DEF Places, Kinds
      <3> QED
        BY <1>3, <2>2, <3>1, <3>2, WritesFiles
    <2>4. InNew(c, 4, new2)'
      BY <2>0, <2>3 DEF InNew
    <2>5. (\A p \in Places \ {"new"} : SameAll(p, c, Kinds)) /\ Same("new", c, "text.dict")
      BY <2>3 DEF SameAll, Kinds, Places
    <2>6. Placed(c, 4, keep, old, new2)'
      BY <2>1, <2>4, <2>5, NewWritten
    <2>7. Text(c)' = Text(c)
      BY <1>2 DEF Text
    <2>8. Fresh(c, 4, old, new2)'
      BY <1>2, <1>5, <2>0, <2>1, <2>7 DEF Fresh
    <2>9. pc'[c] = 4 /\ guess'[c] = keep
      BY <1>1, <1>2, <2>0, <2>2 DEF Types
    <2>10. Shape(c, old, new2)'
      BY <2>6, <2>8, <2>9, ShapeNext
    <2>11. Text(c)' = new2
      BY <2>0, <2>7
    <2>12. Shape(c, old, Text(c))'
      BY <2>10, <2>11 DEF Shape, Fresh, Placed, InNew, DictPlaced, Healthy, Stuck, AtHome, InOld, InMerge
    <2> QED
      BY <2>7, <2>12
  <1> QED
    BY <1>4, <1>5

\* The hash function is of the new documents' words.
LEMMA PerfHashBuildShape ==
  ASSUME NEW c \in Coll, IInv, NEW old, NEW new, Shape(c, old, new), PerfHashBuild(c)
  PROVE  Shape(c, old, new)'
  <1> DEFINE ok == Exists("new", c, "invf.dict")
             files == [name \in {<<"new", c, "invf.dict.hash">>} |-> Get("new", c, "invf.dict")]
  <1>1. pc[c] = 4 /\ Types
    BY AtStep DEF PerfHashBuild, IInv
  <1>0. pc[c] \in 1 .. 6 /\ pc[c] # 27 /\ pc[c] + 1 = 5
    BY <1>1
  <1>2. Checked(c, ok) /\ fs' = (IF ok THEN Writes(files) ELSE fs) /\ UNCHANGED <<guess, late, ready, arrived>>
    BY DEF PerfHashBuild
  <1>3. DOMAIN files = {<<"new", c, "invf.dict.hash">>}
    OBVIOUS
  <1> HIDE DEF files
  <1>4. CASE ~ok
    <2>1. pc' = [pc EXCEPT ![c] = 0] /\ UNCHANGED fs
      BY <1>1, <1>2, <1>4, NextStep
    <2> QED
      BY <1>0, <1>2, <2>1, FailedFirst
  <1>5. CASE ok
    <2>0. PICK keep : keep = guess[c]
      OBVIOUS
    <2>1. Fresh(c, 4, old, new) /\ Placed(c, 4, keep, old, new)
      BY <1>1, <2>0 DEF Shape
    <2>2. new # <<>>
      BY <2>1 DEF Fresh
    <2>3. pc' = [pc EXCEPT ![c] = 5] /\ fs' = Writes(files)
      BY <1>0, <1>1, <1>2, <1>5, NextStep
    <2>4. \A p \in Places, s \in Kinds : p # "new" \/ s # "invf.dict.hash" => Same(p, c, s)
      <3>1. \A p \in Places, s \in Kinds : <<p, c, s>> \in DOMAIN files => p = "new" /\ s = "invf.dict.hash"
        BY <1>3
      <3> QED
        BY <2>3, <3>1, WritesFiles
    <2>5. SameAll("new", c, Five) /\ Same("new", c, "text.dict")
      BY <2>4, Turns DEF SameAll, Places, Kinds, Five
    <2>6. InNew(c, 5, new)'
      BY <2>1, <2>5, NewKept DEF Placed
    <2>7. \A p \in Places \ {"new"} : SameAll(p, c, Kinds)
      BY <2>4 DEF SameAll
    <2>8. Placed(c, 5, keep, old, new)'
      BY <2>1, <2>5, <2>6, <2>7, NewWritten
    <2>9. Fresh(c, 5, old, new)'
      BY <1>2, <2>1, <2>2, FreshKept
    <2>10. pc'[c] = 5 /\ guess'[c] = keep
      BY <1>1, <1>2, <2>0, <2>3 DEF Types
    <2> QED
      BY <2>8, <2>9, <2>10, ShapeNext
  <1> QED
    BY <1>4, <1>5

\* Pass 2 makes the other files of the new documents.
LEMMA PassTwoShape ==
  ASSUME NEW c \in Coll, IInv, NEW old, NEW new, Shape(c, old, new), PassTwo(c)
  PROVE  Shape(c, old, new)'
  <1> DEFINE docs == Text(c)
             made == [ text |-> [n |-> Len(docs), docs |-> docs],
                       idx  |-> [n |-> Len(docs), offs |-> Offsets(Len(docs))],
                       invf |-> [docs |-> docs, skips |-> FALSE] ]
             names == {<<"new", c, s>> : s \in {"text", "text.idx", "invf", "invf.idx"}}
             files == [name \in names |->
                         CASE name[3] = "text"     -> made.text
                           [] name[3] = "text.idx" -> made.idx
                           [] name[3] = "invf"     -> made.invf
                           [] OTHER                -> docs]
             ok == \A s \in {"text.dict", "invf.dict", "invf.dict.hash"} : Exists("new", c, s)
  <1>1. pc[c] = 5 /\ Types
    BY AtStep DEF PassTwo, IInv
  <1>0. pc[c] \in 1 .. 6 /\ pc[c] # 27 /\ pc[c] + 1 = 6
    BY <1>1
  <1>2. Checked(c, ok) /\ fs' = (IF ok THEN Writes(files) ELSE fs) /\ UNCHANGED <<guess, late, ready, arrived>>
    BY DEF PassTwo
  <1>3. DOMAIN files = names
    OBVIOUS
  <1>6. \A s \in {"text", "text.idx", "invf", "invf.idx"} : About(s, files[<<"new", c, s>>], docs)
    <2>1. About("text", files[<<"new", c, "text">>], docs)
      BY DEF About, Built
    <2>2. About("text.idx", files[<<"new", c, "text.idx">>], docs)
      BY DEF About, Built
    <2>3. About("invf", files[<<"new", c, "invf">>], docs)
      BY DEF About, Built
    <2>4. About("invf.idx", files[<<"new", c, "invf.idx">>], docs)
      BY DEF About, Built
    <2> QED
      BY <2>1, <2>2, <2>3, <2>4
  <1> HIDE DEF files, ok, docs
  <1>4. CASE ~ok
    <2>1. pc' = [pc EXCEPT ![c] = 0] /\ UNCHANGED fs
      BY <1>1, <1>2, <1>4, NextStep
    <2> QED
      BY <1>0, <1>2, <2>1, FailedFirst
  <1>5. CASE ok
    <2>0. PICK keep : keep = guess[c]
      OBVIOUS
    <2>1. Fresh(c, 5, old, new) /\ Placed(c, 5, keep, old, new)
      BY <1>1, <2>0 DEF Shape
    <2>2. new # <<>> /\ docs = new
      BY <2>1 DEF Fresh, docs
    <2>3. pc' = [pc EXCEPT ![c] = 6] /\ fs' = Writes(files)
      BY <1>0, <1>1, <1>2, <1>5, NextStep
    <2>4. \A p \in Places, s \in Kinds :
            <<p, c, s>> \in DOMAIN files <=> p = "new" /\ s \in {"text", "text.idx", "invf", "invf.idx"}
      BY <1>3
    <2>5. \A p \in Places, s \in Kinds :
            p # "new" \/ s \notin {"text", "text.idx", "invf", "invf.idx"} => Same(p, c, s)
      BY <2>3, <2>4, WritesFiles
    <2>6. "new" \in Places /\ {"text", "text.idx", "invf", "invf.idx"} \subseteq Kinds
      BY DEF Places, Kinds
    <2>7. \A s \in {"text", "text.idx", "invf", "invf.idx"} :
            Exists("new", c, s)' /\ Get("new", c, s)' = files[<<"new", c, s>>]
      BY <2>3, <2>4, <2>6, WritesFiles
    <2>8. \A s \in {"text", "text.idx", "invf", "invf.idx"} : Has("new", c, s, new)'
      BY <1>6, <2>2, <2>7 DEF Has
    <2>9. Same("new", c, "invf.dict") /\ Same("new", c, "text.dict")
      BY <2>5, <2>6 DEF Kinds
    <2>10. Exists("new", c, "invf.dict")' /\ Get("new", c, "invf.dict")' = new
      BY <2>1, <2>9 DEF Placed, InNew, Same
    <2>11. InNew(c, 6, new)'
      BY <2>8, <2>10 DEF InNew
    <2>12. \A p \in Places \ {"new"} : SameAll(p, c, Kinds)
      BY <2>5 DEF SameAll
    <2>13. Placed(c, 6, keep, old, new)'
      BY <2>1, <2>9, <2>11, <2>12, NewWritten
    <2>14. Fresh(c, 6, old, new)'
      BY <1>2, <2>1, <2>2, FreshKept
    <2>15. pc'[c] = 6 /\ guess'[c] = keep
      BY <1>1, <1>2, <2>0, <2>3 DEF Types
    <2> QED
      BY <2>13, <2>14, <2>15, ShapeNext
  <1> QED
    BY <1>4, <1>5

----------------------------------------------------------------------------
(* mv, one file at a time.                                                 *)

LEMMA TurnsOnce ==
  /\ \A s, t \in Nine : Back(s) = Back(t) => s = t
  /\ \A s \in Five \cup {"weight"}, t \in Nine : Away(s) = Away(t) => s = t
  <1>1. /\ \A s \in Nine : /\ s = "text" <=> Back(s) = 17
                           /\ s = "text.idx" <=> Back(s) = 18
                           /\ s = "invf" <=> Back(s) = 20
                           /\ s = "invf.idx" <=> Back(s) = 21
                           /\ s = "invf.dict" <=> Back(s) = 22
                           /\ s = "invf.dict.blocked" <=> Back(s) = 23
                           /\ s = "weight" <=> Back(s) = 24
                           /\ s = "weight.approx" <=> Back(s) = 25
                           /\ s = "text.idx.wgt" <=> Back(s) = 26
    BY DEF Nine, Back
  <1>2. /\ \A s \in Nine : /\ s = "text" <=> Away(s) = 7
                           /\ s = "text.idx" <=> Away(s) = 8
                           /\ s = "invf" <=> Away(s) = 9
                           /\ s = "invf.idx" <=> Away(s) = 10
                           /\ s = "invf.dict" <=> Away(s) = 11
                           /\ s = "weight" <=> Away(s) = 12
    BY DEF Nine, Away, Back
  <1>3. \A s, t \in Nine : Back(s) = Back(t) => s = t
    BY <1>1 DEF Nine
  <1>4. \A s \in Five \cup {"weight"}, t \in Nine : Away(s) = Away(t) => s = t
    BY <1>2 DEF Five, Nine
  <1> QED
    BY <1>3, <1>4

\* The steps that put the old files aside.
LEMMA AwaySteps ==
  ASSUME NEW i \in 7 .. 11
  PROVE  \E s \in Five : Script[i] = Mv("base", "old", s) /\ Away(s) = i
  <1>1. /\ Script[7] = MoveAway[1] /\ Script[8] = MoveAway[2] /\ Script[9] = MoveAway[3]
        /\ Script[10] = MoveAway[4] /\ Script[11] = MoveAway[5]
    BY ScriptAway
  <1>2. /\ Script[7] = Mv("base", "old", "text") /\ Script[8] = Mv("base", "old", "text.idx")
        /\ Script[9] = Mv("base", "old", "invf") /\ Script[10] = Mv("base", "old", "invf.idx")
        /\ Script[11] = Mv("base", "old", "invf.dict")
    BY <1>1 DEF MoveAway
  <1>3. /\ Away("text") = 7 /\ Away("text.idx") = 8 /\ Away("invf") = 9
        /\ Away("invf.idx") = 10 /\ Away("invf.dict") = 11
    BY DEF Away
  <1>4. i = 7 \/ i = 8 \/ i = 9 \/ i = 10 \/ i = 11
    OBVIOUS
  <1> QED
    BY <1>2, <1>3, <1>4 DEF Five

LEMMA WeightStep == Script[12] = Mv("base", "merge", "weight") /\ Away("weight") = 12
  BY ScriptAway DEF MoveAway, Away

LEMMA DictSteps ==
  Script[1] = Mv("base", "new", "text.dict") /\ Script[19] = Mv("new", "base", "text.dict")
  <1>1. Script[19] = MoveBack[3]
    BY ScriptBack
  <1> QED
    BY <1>1, ScriptSteps, MoveBackSteps DEF FirstSteps

\* The steps that bring the results back: the text is the old file, grown.
LEMMA BackSteps ==
  ASSUME NEW i \in 17 .. 26, i # 19
  PROVE  \E s \in Nine : /\ Script[i] = Mv(IF s = "text" THEN "old" ELSE "merge", "base", s)
                         /\ Back(s) = i
  <1>1. /\ Script[17] = MoveBack[1] /\ Script[18] = MoveBack[2] /\ Script[20] = MoveBack[4]
        /\ Script[21] = MoveBack[5] /\ Script[22] = MoveBack[6] /\ Script[23] = MoveBack[7]
        /\ Script[24] = MoveBack[8] /\ Script[25] = MoveBack[9] /\ Script[26] = MoveBack[10]
    BY ScriptBack
  <1>2. /\ Script[17] = Mv("old", "base", "text") /\ Script[18] = Mv("merge", "base", "text.idx")
        /\ Script[20] = Mv("merge", "base", "invf") /\ Script[21] = Mv("merge", "base", "invf.idx")
        /\ Script[22] = Mv("merge", "base", "invf.dict")
        /\ Script[23] = Mv("merge", "base", "invf.dict.blocked")
        /\ Script[24] = Mv("merge", "base", "weight") /\ Script[25] = Mv("merge", "base", "weight.approx")
        /\ Script[26] = Mv("merge", "base", "text.idx.wgt")
    BY <1>1, MoveBackSteps
  <1>3. /\ Back("text") = 17 /\ Back("text.idx") = 18 /\ Back("invf") = 20 /\ Back("invf.idx") = 21
        /\ Back("invf.dict") = 22 /\ Back("invf.dict.blocked") = 23 /\ Back("weight") = 24
        /\ Back("weight.approx") = 25 /\ Back("text.idx.wgt") = 26
    BY DEF Back
  <1>4. i \in {17, 18, 20, 21, 22, 23, 24, 25, 26}
    OBVIOUS
  <1>5. CASE i = 17
    BY <1>2, <1>3, <1>5 DEF Nine
  <1>6. CASE i # 17
    <2>1. \E s \in Nine \ {"text"} : Script[i] = Mv("merge", "base", s) /\ Back(s) = i
      BY <1>2, <1>3, <1>4, <1>6 DEF Nine
    <2> QED
      BY <2>1
  <1> QED
    BY <1>5, <1>6

\* Moves away from a collection's directory and back to it: only that file is affected.
LEMMA HomeMoves ==
  ASSUME NEW c \in Coll, NEW old, NEW new, NEW i \in 0 .. 26, NEW suffix, AtHome(c, i, old, new),
         \A t \in Nine : t # suffix => Same("base", c, t) /\ Away(t) # i /\ Back(t) # i,
         suffix \in Nine => \/ Away(suffix) = i /\ Back(suffix) # i /\ ~Exists("base", c, suffix)'
                            \/ Back(suffix) = i /\ Has("base", c, suffix, old \o new)'
  PROVE  AtHome(c, i + 1, old, new)'
  <1> SUFFICES ASSUME NEW s \in Nine
               PROVE  /\ i + 1 <= Away(s) => Has("base", c, s, old)'
                      /\ Away(s) < i + 1 /\ i + 1 <= Back(s) => ~Exists("base", c, s)'
                      /\ i + 1 > Back(s) => Has("base", c, s, old \o new)'
    BY DEF AtHome
  <1>2. /\ i <= Away(s) => Has("base", c, s, old)
        /\ Away(s) < i /\ i <= Back(s) => ~Exists("base", c, s)
        /\ i > Back(s) => Has("base", c, s, old \o new)
    BY DEF AtHome
  <1>3. Away(s) \in 7 .. 26 /\ Back(s) \in 17 .. 26 /\ Away(s) <= Back(s)
    BY Turns
  <1>4. CASE s # suffix
    <2>1. /\ Has("base", c, s, old)' <=> Has("base", c, s, old)
          /\ Has("base", c, s, old \o new)' <=> Has("base", c, s, old \o new)
          /\ Exists("base", c, s)' <=> Exists("base", c, s)
      BY <1>4, HasSame, Turns DEF Places
    <2>2. Away(s) # i /\ Back(s) # i
      BY <1>4
    <2> HIDE DEF Has, Exists, Away, Back
    <2> QED
      BY <1>2, <1>3, <2>1, <2>2
  <1>5. CASE s = suffix
    <2> HIDE DEF Has, Exists, Away, Back
    <2> QED
      BY <1>2, <1>3, <1>5
  <1> QED
    BY <1>4, <1>5

LEMMA MergeMoves ==
  ASSUME NEW c \in Coll, NEW old, NEW new, NEW keep, NEW i \in 17 .. 26, InMerge(c, i, keep, old, new),
         \A t \in Nine : Same("merge", c, t) \/ Back(t) = i, Same("old", c, "invf")
  PROVE  InMerge(c, i + 1, keep, old, new)'
  <1>1. ASSUME NEW t \in Nine, Made(t) < i + 1, i + 1 <= Back(t) PROVE Has("merge", c, t, old \o new)'
    <2>1. Made(t) \in 13 .. 27 /\ Back(t) \in 17 .. 26 /\ (Made(t) <= 16 \/ Back(t) = 17)
      BY Turns DEF Made, Back
    <2>2. Back(t) # i /\ Made(t) < i /\ i <= Back(t)
      BY <1>1, <2>1
    <2>3. Has("merge", c, t, old \o new) /\ Same("merge", c, t)
      BY <2>2 DEF InMerge
    <2> QED
      BY <2>3, HasSame, Turns DEF Places
  <1>2. ~Skips("old", c)'
    BY DEF Skips, Same, InMerge
  <1> QED
    BY <1>1, <1>2 DEF InMerge

\* What a step that moves a file does to its own collection.
MvStep(c, i, from, to, suffix) ==
  /\ i \in 1 .. 26 /\ from \in Places /\ to \in Places /\ from # to /\ suffix \in Kinds
  /\ Moved(<<from, c, suffix>>, <<to, c, suffix>>)

\* What a mv does to the file that is there.
LEMMA MvFiles ==
  ASSUME NEW c \in Coll, NEW i, NEW from, NEW to, NEW suffix, MvStep(c, i, from, to, suffix)
  PROVE  /\ \A p \in Places, s \in Kinds : s # suffix \/ p \notin {from, to} => Same(p, c, s)
         /\ Exists(from, c, suffix) => /\ Exists(to, c, suffix)' /\ ~Exists(from, c, suffix)'
                                       /\ Get(to, c, suffix)' = Get(from, c, suffix)
                                       /\ \A docs : Has(from, c, suffix, docs) => Has(to, c, suffix, docs)'
         /\ ~Exists(from, c, suffix) => Same(from, c, suffix) /\ Same(to, c, suffix)
  <1>1. from \in Places /\ to \in Places /\ from # to /\ suffix \in Kinds
        /\ Moved(<<from, c, suffix>>, <<to, c, suffix>>)
    BY DEF MvStep
  <1> QED
    BY <1>1, MoveFile

\* A file moves to MERGE as an old one.
LEMMA AwayPlaced ==
  ASSUME NEW c \in Coll, NEW old, NEW new, NEW keep, NEW i \in 7 .. 11, NEW suffix \in Five,
         Away(suffix) = i, MvStep(c, i, "base", "old", suffix), Placed(c, i, keep, old, new)
  PROVE  Placed(c, i + 1, keep, old, new)'
  <1>1. /\ \A p \in Places, s \in Kinds : s # suffix \/ p \notin {"base", "old"} => Same(p, c, s)
        /\ Exists("base", c, suffix) => /\ Exists("old", c, suffix)' /\ ~Exists("base", c, suffix)'
                                        /\ \A docs : Has("base", c, suffix, docs) => Has("old", c, suffix, docs)'
        /\ ~Exists("base", c, suffix) => Same("base", c, suffix) /\ Same("old", c, suffix)
    BY MvFiles
  <1>2. suffix \in Nine /\ suffix \in Kinds /\ suffix # "text.dict"
    BY Turns DEF Five
  <1>3. /\ Same("base", c, "text.dict") /\ Same("new", c, "text.dict") /\ SameAll("new", c, Five)
    BY <1>1, <1>2, Turns DEF SameAll, Places, Kinds
  <1>4. \A t \in Nine : t # suffix => Same("base", c, t) /\ Away(t) # i /\ Back(t) # i
    BY <1>1, Turns, TurnsOnce DEF Places
  <1>5. \A t \in Five : t # suffix => Same("old", c, t) /\ Same("base", c, t)
    BY <1>1, Turns DEF Places
  <1>6. DictPlaced(c, i + 1)'
    BY <1>3, DictKept DEF Placed
  <1>7. InNew(c, i + 1, new)'
    BY <1>3, NewKept DEF Placed
  <1>8. ASSUME Healthy(c, i, keep, old, new) PROVE Healthy(c, i + 1, keep, old, new)'
    <2>1. Has("base", c, suffix, old)
      BY <1>2, <1>8 DEF Healthy, AtHome
    <2>2. ~Exists("base", c, suffix)' /\ Has("old", c, suffix, old)'
      BY <1>1, <2>1 DEF Has
    <2>3. Back(suffix) # i
      BY <1>2, Turns
    <2>4. AtHome(c, i + 1, old, new)'
      BY <1>4, <1>8, <2>2, <2>3, HomeMoves DEF Healthy
    <2>5. InOld(c, i + 1, old, new)'
      <3> SUFFICES ASSUME NEW s \in Five
                   PROVE  /\ i + 1 <= Away(s) => ~Exists("old", c, s)'
                          /\ i + 1 > Away(s) => Has("old", c, s, old)'
        BY DEF InOld
      <3>1. CASE s = suffix
        BY <2>2, <3>1
      <3>2. CASE s # suffix
        <4>1. i <= Away(s) => ~Exists("old", c, s)
          BY <1>8 DEF Healthy, InOld
        <4>2. i > Away(s) => Has("old", c, s, old)
          BY <1>8 DEF Healthy, InOld
        <4>3. Away(s) # i /\ Away(s) \in 7 .. 11
          BY <1>4, <3>2, Turns
        <4>4. (Has("old", c, s, old)' <=> Has("old", c, s, old)) /\ (Exists("old", c, s)' <=> Exists("old", c, s))
          BY <1>5, <3>2, HasSame, Turns DEF Places
        <4> HIDE DEF Has, Exists, Away
        <4> QED
          BY <4>1, <4>2, <4>3, <4>4
      <3> QED
        BY <3>1, <3>2
    <2>6. InMerge(c, i + 1, keep, old, new)'
      BY Turns DEF InMerge
    <2> QED
      BY <2>4, <2>5, <2>6 DEF Healthy
  <1>9. ASSUME Stuck(c, i, old, new) PROVE Stuck(c, i + 1, old, new)'
    <2>1. ~Exists("base", c, suffix)
      BY <1>9 DEF Stuck
    <2>2. Same("base", c, suffix) /\ Same("old", c, suffix)
      BY <1>1, <2>1
    <2>3. SameAll("base", c, Five) /\ SameAll("old", c, Five \ {"text"})
      BY <1>5, <2>2 DEF SameAll
    <2>4. i \in 0 .. 27 /\ i + 1 \in 0 .. 27 /\ i + 1 <= 13
      OBVIOUS
    <2> QED
      BY <1>9, <2>3, <2>4, StuckKept
  <1> QED
    BY <1>6, <1>7, <1>8, <1>9 DEF Placed

\* The weights move to where mg_invf_merge looks for them.
LEMMA WeightPlaced ==
  ASSUME NEW c \in Coll, NEW old, NEW new, NEW keep,
         MvStep(c, 12, "base", "merge", "weight"), Placed(c, 12, keep, old, new)
  PROVE  Placed(c, 13, keep, old, new)'
  <1>1. /\ \A p \in Places, s \in Kinds : s # "weight" \/ p \notin {"base", "merge"} => Same(p, c, s)
        /\ Exists("base", c, "weight") =>
             /\ Exists("merge", c, "weight")' /\ ~Exists("base", c, "weight")'
             /\ \A docs : Has("base", c, "weight", docs) => Has("merge", c, "weight", docs)'
    BY MvFiles
  <1>2. "weight" \in Nine /\ "weight" \notin Five
    BY DEF Nine, Five
  <1>3. /\ Same("base", c, "text.dict") /\ Same("new", c, "text.dict") /\ SameAll("new", c, Five)
        /\ SameAll("base", c, Five) /\ SameAll("old", c, Five \ {"text"}) /\ Same("old", c, "text")
    BY <1>1, <1>2, Turns DEF SameAll, Places, Kinds
  <1>4. \A t \in Nine : t # "weight" => Same("base", c, t) /\ Away(t) # 12 /\ Back(t) # 12
    BY <1>1, <1>2, Turns, TurnsOnce, WeightStep DEF Places
  <1>6. DictPlaced(c, 13)'
    BY <1>3, DictKept DEF Placed
  <1>7. InNew(c, 13, new)'
    BY <1>3, NewKept DEF Placed
  <1>8. ASSUME Healthy(c, 12, keep, old, new) PROVE Healthy(c, 13, keep, old, new)'
    <2>1. Has("base", c, "weight", old)
      BY <1>2, <1>8, WeightStep DEF Healthy, AtHome
    <2>2. ~Exists("base", c, "weight")' /\ Has("merge", c, "weight", old)'
      BY <1>1, <2>1 DEF Has
    <2>3. Back("weight") # 12 /\ Away("weight") = 12
      BY <1>2, Turns, WeightStep
    <2>4. AtHome(c, 12 + 1, old, new)'
      BY <1>4, <1>8, <2>2, <2>3, HomeMoves DEF Healthy
    <2>5. InOld(c, 13, old, new)'
      BY <1>3, <1>8, OldKept DEF Healthy
    <2>6. InMerge(c, 13, keep, old, new)'
      BY <2>2, Turns DEF InMerge
    <2>7. 12 + 1 = 13
      OBVIOUS
    <2> QED
      BY <2>4, <2>5, <2>6, <2>7 DEF Healthy
  <1>9. ASSUME Stuck(c, 12, old, new) PROVE Stuck(c, 13, old, new)'
    BY <1>3, <1>9, StuckKept
  <1> QED
    BY <1>6, <1>7, <1>8, <1>9 DEF Placed

\* A merged file moves back.
LEMMA BackPlaced ==
  ASSUME NEW c \in Coll, NEW old, NEW new, NEW keep, NEW i \in 17 .. 26, i # 19, NEW suffix \in Nine,
         Back(suffix) = i, MvStep(c, i, IF suffix = "text" THEN "old" ELSE "merge", "base", suffix),
         Placed(c, i, keep, old, new)
  PROVE  Placed(c, i + 1, keep, old, new)'
  <1>0. PICK from : from = IF suffix = "text" THEN "old" ELSE "merge"
    OBVIOUS
  <1>1. /\ \A p \in Places, s \in Kinds : s # suffix \/ p \notin {from, "base"} => Same(p, c, s)
        /\ Exists(from, c, suffix) =>
             /\ Exists("base", c, suffix)' /\ ~Exists(from, c, suffix)'
             /\ \A docs : Has(from, c, suffix, docs) => Has("base", c, suffix, docs)'
    BY <1>0, MvFiles
  <1>2. suffix \in Kinds /\ suffix # "text.dict"
    BY Turns DEF Nine
  <1>3. /\ Same("base", c, "text.dict") /\ Same("new", c, "text.dict") /\ SameAll("new", c, Five)
    BY <1>0, <1>1, <1>2, Turns DEF SameAll, Places, Kinds
  <1>4. \A t \in Nine : t # suffix => Same("base", c, t) /\ Back(t) # i
    BY <1>1, Turns, TurnsOnce DEF Places
  <1>5. \A t \in Nine : t # suffix => Away(t) # i
    BY <1>4, Turns
  <1>6. DictPlaced(c, i + 1)'
    BY <1>3, DictKept DEF Placed
  <1>7. InNew(c, i + 1, new)'
    BY <1>3, NewKept DEF Placed
  <1>8. Healthy(c, i, keep, old, new)
    BY DEF Placed, Stuck
  <1>9. Has(from, c, suffix, old \o new)
    <2>1. CASE suffix = "text"
      <3>1. "text" \in Five /\ i = 17
        BY <2>1 DEF Five, Back
      <3> QED
        BY <1>0, <1>8, <2>1, <3>1 DEF Healthy, InOld
    <2>2. CASE suffix # "text"
      <3>1. Made(suffix) \in 13 .. 16
        BY <2>2 DEF Made, Nine
      <3> QED
        BY <1>0, <1>8, <2>2, <3>1 DEF Healthy, InMerge
    <2> QED
      BY <2>1, <2>2
  <1>10. Has("base", c, suffix, old \o new)'
    BY <1>1, <1>9 DEF Has
  <1>11. AtHome(c, i + 1, old, new)'
    BY <1>4, <1>5, <1>8, <1>10, HomeMoves DEF Healthy
  <1>12. SameAll("old", c, Five \ {"text"})
    <2>1. ASSUME NEW s \in Five \ {"text"} PROVE Same("old", c, s)
      <3>1. s # suffix \/ from = "merge"
        BY <1>0, <2>1
      <3> QED
        BY <1>1, <2>1, <3>1, Turns DEF Places
    <2> QED
      BY <2>1 DEF SameAll
  <1>13. InOld(c, i + 1, old, new)'
    BY <1>8, <1>12, OldKept DEF Healthy
  <1>14. \A t \in Nine : Same("merge", c, t) \/ Back(t) = i
    BY <1>1, Turns DEF Places
  <1>15. Same("old", c, "invf")
    BY <1>12 DEF SameAll, Five
  <1>16. InMerge(c, i + 1, keep, old, new)'
    BY <1>8, <1>14, <1>15, MergeMoves DEF Healthy
  <1> QED
    BY <1>6, <1>7, <1>11, <1>13, <1>16 DEF Placed, Healthy

LEMMA DictAwayPlaced ==
  ASSUME NEW c \in Coll, NEW old, NEW new, NEW keep,
         MvStep(c, 1, "base", "new", "text.dict"), Placed(c, 1, keep, old, new)
  PROVE  Placed(c, 2, keep, old, new)'
  <1>1. /\ \A p \in Places, s \in Kinds : s # "text.dict" \/ p \notin {"base", "new"} => Same(p, c, s)
        /\ Exists("base", c, "text.dict") => Exists("new", c, "text.dict")' /\ ~Exists("base", c, "text.dict")'
        /\ ~Exists("base", c, "text.dict") => Same("base", c, "text.dict") /\ Same("new", c, "text.dict")
    BY MvFiles
  <1>2. "text.dict" \notin Nine /\ "text.dict" \notin Five
    BY DEF Nine, Five
  <1>3. /\ SameAll("base", c, Nine) /\ SameAll("merge", c, Nine) /\ Same("old", c, "text")
        /\ SameAll("base", c, Five) /\ SameAll("old", c, Five \ {"text"}) /\ Same("old", c, "invf")
    BY <1>1, <1>2, Turns DEF SameAll, Places, Kinds, Five
  <1>4. DictPlaced(c, 2)'
    BY <1>1 DEF Placed, DictPlaced, Same
  <1>5. InNew(c, 2, new)'
    BY DEF InNew
  <1>6. ASSUME Healthy(c, 1, keep, old, new) PROVE Healthy(c, 2, keep, old, new)'
    <2>1. AtHome(c, 2, old, new)'
      BY <1>3, <1>6, HomeKept DEF Healthy
    <2>2. InOld(c, 2, old, new)'
      BY <1>3, <1>6, OldKept DEF Healthy
    <2>3. InMerge(c, 2, keep, old, new)'
      BY <1>3, <1>6, MergeKept DEF Healthy
    <2> QED
      BY <2>1, <2>2, <2>3 DEF Healthy
  <1>7. ASSUME Stuck(c, 1, old, new) PROVE Stuck(c, 2, old, new)'
    BY <1>3, <1>7, StuckKept
  <1> QED
    BY <1>4, <1>5, <1>6, <1>7 DEF Placed

LEMMA DictBackPlaced ==
  ASSUME NEW c \in Coll, NEW old, NEW new, NEW keep,
         MvStep(c, 19, "new", "base", "text.dict"), Placed(c, 19, keep, old, new)
  PROVE  Placed(c, 20, keep, old, new)'
  <1>1. /\ \A p \in Places, s \in Kinds : s # "text.dict" \/ p \notin {"base", "new"} => Same(p, c, s)
        /\ Exists("new", c, "text.dict") => Exists("base", c, "text.dict")' /\ ~Exists("new", c, "text.dict")'
    BY MvFiles
  <1>2. "text.dict" \notin Nine /\ "text.dict" \notin Five
    BY DEF Nine, Five
  <1>3. /\ \A t \in Nine : Same("base", c, t) /\ Same("merge", c, t)
        /\ Same("old", c, "text") /\ SameAll("new", c, Five)
        /\ SameAll("old", c, Five \ {"text"}) /\ Same("old", c, "invf")
    BY <1>1, <1>2, Turns DEF SameAll, Places, Kinds, Five
  <1>4. DictPlaced(c, 20)'
    BY <1>1 DEF Placed, DictPlaced
  <1>5. InNew(c, 20, new)'
    BY <1>3, NewKept DEF Placed
  <1>6. Healthy(c, 19, keep, old, new)
    BY DEF Placed, Stuck
  <1>7. \A t \in Nine : t # "text.dict" => Same("base", c, t) /\ Away(t) # 19 /\ Back(t) # 19
    BY <1>3, Turns
  <1>8. AtHome(c, 19 + 1, old, new)'
    BY <1>2, <1>6, <1>7, HomeMoves DEF Healthy
  <1>9. InOld(c, 20, old, new)'
    BY <1>3, <1>6, OldKept DEF Healthy
  <1>10. InMerge(c, 19 + 1, keep, old, new)'
    BY <1>3, <1>6, MergeMoves DEF Healthy
  <1>11. 19 + 1 = 20
    OBVIOUS
  <1> QED
    BY <1>4, <1>5, <1>8, <1>9, <1>10, <1>11 DEF Placed, Healthy

\* Every mv of the script.
LEMMA MoveShape ==
  ASSUME NEW c \in Coll, IInv, NEW old, NEW new, Shape(c, old, new), Move(c)
  PROVE  Shape(c, old, new)'
  <1> DEFINE step == Script[pc[c]]
  <1>1. pc[c] \in 1 .. 26 /\ pc' = [pc EXCEPT ![c] = pc[c] + 1]
    BY MoveLocal
  <1>2. PICK i \in 1 .. 26 : i = pc[c]
    BY <1>1
  <1>3. PICK keep : keep = guess[c]
    OBVIOUS
  <1>4. Fresh(c, i, old, new) /\ Placed(c, i, keep, old, new)
    BY <1>2, <1>3 DEF Shape
  <1>5. step.do = "mv" /\ Moved(<<step.from, c, step.suffix>>, <<step.to, c, step.suffix>>)
        /\ UNCHANGED <<guess, late, ready, arrived, quiet>>
    BY DEF Move, Does, Moved
  <1>6. i # 2 /\ i \notin 3 .. 6 /\ i \notin 13 .. 16
    BY <1>2, <1>5, StepOf
  <1>7. pc'[c] = i + 1 /\ guess'[c] = keep /\ i + 1 \in 0 .. 27
    BY <1>1, <1>2, <1>3, <1>5 DEF IInv, Types
  <1>8. \A from \in Places, to \in Places, suffix \in Kinds :
          from # to /\ step = Mv(from, to, suffix) => MvStep(c, i, from, to, suffix)
    <2>1. \A from, to, suffix :
            LET m == Mv(from, to, suffix) IN m.from = from /\ m.to = to /\ m.suffix = suffix
      BY DEF Mv
    <2> QED
      BY <1>5, <2>1 DEF MvStep
  <1>9. Placed(c, i + 1, keep, old, new)'
    <2>1. CASE i = 1
      <3>1. MvStep(c, 1, "base", "new", "text.dict")
        BY <1>2, <1>8, <2>1, DictSteps DEF Places, Kinds
      <3>2. i + 1 = 2 /\ Placed(c, 1, keep, old, new)
        BY <1>4, <2>1
      <3> QED
        BY <3>1, <3>2, DictAwayPlaced
    <2>2. CASE i \in 7 .. 11
      <3>1. PICK s \in Five : Script[i] = Mv("base", "old", s) /\ Away(s) = i
        BY <2>2, AwaySteps
      <3>2. MvStep(c, i, "base", "old", s)
        BY <1>2, <1>8, <3>1, Turns DEF Places
      <3> QED
        BY <1>4, <2>2, <3>1, <3>2, AwayPlaced
    <2>3. CASE i = 12
      <3>1. MvStep(c, 12, "base", "merge", "weight")
        BY <1>2, <1>8, <2>3, WeightStep DEF Places, Kinds
      <3>2. i + 1 = 13 /\ Placed(c, 12, keep, old, new)
        BY <1>4, <2>3
      <3> QED
        BY <3>1, <3>2, WeightPlaced
    <2>4. CASE i \in 17 .. 26 /\ i # 19
      <3>1. PICK s \in Nine : Script[i] = Mv(IF s = "text" THEN "old" ELSE "merge", "base", s) /\ Back(s) = i
        BY <2>4, BackSteps
      <3>2. MvStep(c, i, IF s = "text" THEN "old" ELSE "merge", "base", s)
        <4>1. PICK from : from = IF s = "text" THEN "old" ELSE "merge"
          OBVIOUS
        <4>2. from \in Places /\ from # "base" /\ "base" \in Places /\ s \in Kinds
          BY <4>1, Turns DEF Places
        <4>3. MvStep(c, i, from, "base", s)
          BY <1>2, <1>8, <3>1, <4>1, <4>2
        <4> QED
          BY <4>1, <4>3
      <3> QED
        BY <1>4, <2>4, <3>1, <3>2, BackPlaced
    <2>5. CASE i = 19
      <3>1. MvStep(c, 19, "new", "base", "text.dict")
        BY <1>2, <1>8, <2>5, DictSteps DEF Places, Kinds
      <3>2. i + 1 = 20 /\ Placed(c, 19, keep, old, new)
        BY <1>4, <2>5
      <3> QED
        BY <3>1, <3>2, DictBackPlaced
    <2> QED
      BY <1>6, <2>1, <2>2, <2>3, <2>4, <2>5
  <1>10. Fresh(c, i + 1, old, new)'
    <2>1. i = 1 \/ i \in 7 .. 26
      BY <1>6
    <2>2. i + 1 >= 4 => new # <<>>
      BY <1>4, <2>1 DEF Fresh
    <2>3. i \in 0 .. 27 /\ (i + 1 \in 4 .. 6 => i \in 4 .. 6 /\ ready'[c] = ready[c]) /\ (i + 1 >= 7 => i >= 7)
      BY <2>1
    <2>4. arrived'[c] = arrived[c] /\ late'[c] \cup ready'[c] = late[c] \cup ready[c]
      BY <1>5
    <2> QED
      BY <1>4, <1>7, <2>2, <2>3, <2>4, FreshKept
  <1> QED
    BY <1>7, <1>9, <1>10, ShapeNext

----------------------------------------------------------------------------
(* The merging programs.                                                   *)

\* The offsets of a text put behind another.
LEMMA MergedIndexIs ==
  ASSUME NEW n \in Nat, NEW m \in Nat
  PROVE  MergedIndex([n |-> n, offs |-> Offsets(n)], [n |-> m, offs |-> Offsets(m)])
           = [n |-> n + m, offs |-> Offsets(n + m)]
  <1> DEFINE a == SubSeq(Offsets(n), 1, n)
             b == [i \in 1 .. m + 1 |-> Offsets(m)[i] + n]
  <1>1. /\ Offsets(n) \in Seq(Nat) /\ Len(Offsets(n)) = n + 1 /\ \A i \in 1 .. n + 1 : Offsets(n)[i] = i - 1
        /\ \A i \in 1 .. m + 1 : Offsets(m)[i] = i - 1
    <2>1. \A k \in Nat : Offsets(k) \in [1 .. k + 1 -> Nat] /\ \A i \in 1 .. k + 1 : Offsets(k)[i] = i - 1
      BY DEF Offsets
    <2>2. n + 1 \in Nat
      OBVIOUS
    <2> HIDE DEF Offsets
    <2> QED
      BY <2>1, <2>2, SeqDef, LenProperties
  <1>2. a \in Seq(Nat) /\ Len(a) = n /\ \A i \in 1 .. n : a[i] = i - 1
    BY <1>1, SubSeqProperties
  <1>3. b \in Seq(Nat) /\ Len(b) = m + 1 /\ \A i \in 1 .. m + 1 : b[i] = i - 1 + n
    <2>1. b \in [1 .. m + 1 -> Nat] /\ \A i \in 1 .. m + 1 : b[i] = i - 1 + n
      BY <1>1
    <2>2. m + 1 \in Nat
      OBVIOUS
    <2> HIDE DEF b
    <2> QED
      BY <2>1, <2>2, SeqDef, LenProperties
  <1> DEFINE ab == a \o b
  <1> HIDE DEF a, b
  <1>4. /\ ab \in Seq(Nat) /\ Len(ab) = n + m + 1
        /\ \A i \in 1 .. n : ab[i] = i - 1
        /\ \A i \in n + 1 .. n + m + 1 : ab[i] = b[i - n]
    BY <1>2, <1>3, Joined
  <1> HIDE DEF ab
  <1>5. ASSUME NEW i \in 1 .. n + m + 1 PROVE ab[i] = i - 1
    <2>0. i \in Int /\ n \in Int /\ (i \in 1 .. n \/ i \in n + 1 .. n + m + 1)
      OBVIOUS
    <2>1. ASSUME i \in 1 .. n PROVE ab[i] = i - 1
      BY <1>4, <2>1
    <2>2. ASSUME i \in n + 1 .. n + m + 1 PROVE ab[i] = i - 1
      <3>0. i - n \in 1 .. m + 1
        BY <2>2
      <3>1. ab[i] = b[i - n]
        BY <1>4, <2>2
      <3>2. b[i - n] = ((i - n) - 1) + n
        BY <1>3, <3>0
      <3>3. ((i - n) - 1) + n = i - 1
        BY <2>0
      <3> QED
        BY <3>1, <3>2, <3>3
    <2> QED
      BY <2>0, <2>1, <2>2
  <1>6. ab = Offsets(n + m)
    <2>1. ab = [i \in 1 .. n + m + 1 |-> i - 1]
      BY <1>4, <1>5
    <2> QED
      BY <2>1 DEF Offsets
  <1>7. Offsets(n)[n + 1] = n
    BY <1>1
  <1>8. MergedIndex([n |-> n, offs |-> Offsets(n)], [n |-> m, offs |-> Offsets(m)])
          = [n |-> n + m, offs |-> SubSeq(Offsets(n), 1, n) \o [i \in 1 .. m + 1 |-> Offsets(m)[i] + Offsets(n)[n + 1]]]
    BY DEF MergedIndex
  <1> QED
    BY <1>6, <1>7, <1>8 DEF a, b, ab

\* One of the merging programs: only files of MERGE change, and the old text.
LEMMA ProgramPlaced ==
  ASSUME NEW c \in Coll, NEW old, NEW new, NEW keep, NEW i \in 13 .. 16, NEW k, k = i + 1,
         Placed(c, i, keep, old, new), Healthy(c, i, keep, old, new),
         \A p \in {"base", "new"} : SameAll(p, c, Kinds), SameAll("old", c, Kinds \ {"text"}),
         InOld(c, k, old, new)', InMerge(c, k, keep, old, new)'
  PROVE  Placed(c, k, keep, old, new)'
  <1>1. /\ SameAll("base", c, Nine) /\ SameAll("new", c, Five)
        /\ Same("base", c, "text.dict") /\ Same("new", c, "text.dict")
    BY Turns DEF SameAll, Kinds
  <1>2. i + 1 \in 0 .. 27 /\ i \in 0 .. 27 /\ i \in 6 .. 26 /\ i >= 2 /\ i <= 19 /\ i + 1 \in 2 .. 19
        /\ i \in 13 .. 17 /\ i + 1 \in 13 .. 17
    OBVIOUS
  <1>4. k \in 0 .. 27 /\ k \in 2 .. 19 /\ k \in 13 .. 17
    BY <1>2
  <1>5. DictPlaced(c, k)'
    BY <1>1, <1>2, <1>4, DictKept DEF Placed
  <1>6. InNew(c, k, new)'
    BY <1>1, <1>2, <1>4, NewKept DEF Placed
  <1>7. AtHome(c, k, old, new)'
    BY <1>1, <1>2, <1>4, HomeKept DEF Healthy
  <1> QED
    BY <1>5, <1>6, <1>7 DEF Placed, Healthy

\* The same where the old inverted file has skips.
LEMMA ProgramStuck ==
  ASSUME NEW c \in Coll, NEW old, NEW new, NEW keep, NEW i \in 13 .. 14, NEW k \in {14, 15},
         Placed(c, i, keep, old, new), k = i + 1,
         \A p \in {"base", "new"} : SameAll(p, c, Kinds), Stuck(c, k, old, new)'
  PROVE  Placed(c, k, keep, old, new)'
  <1>1. SameAll("new", c, Five) /\ Same("base", c, "text.dict") /\ Same("new", c, "text.dict")
    BY Turns DEF SameAll, Kinds
  <1>2. i \in 0 .. 27 /\ k \in 0 .. 27 /\ i \in 6 .. 26 /\ k = i + 1 /\ i >= 2 /\ i <= 19 /\ k \in 2 .. 19
    OBVIOUS
  <1>3. DictPlaced(c, k)'
    BY <1>1, <1>2, DictKept DEF Placed
  <1>4. InNew(c, k, new)'
    BY <1>1, <1>2, NewKept DEF Placed
  <1> QED
    BY <1>3, <1>4 DEF Placed

\* A step of the script that reads documents on offer no more.
LEMMA FreshLater ==
  ASSUME NEW c \in Coll, NEW old, NEW new, NEW i \in 7 .. 26, Fresh(c, i, old, new),
         UNCHANGED <<arrived, late, ready>>
  PROVE  Fresh(c, i + 1, old, new)'
  <1>1. new # <<>> /\ i \in 0 .. 27 /\ i + 1 \in 0 .. 27 /\ i + 1 >= 7 /\ i >= 7 /\ ~(i + 1 \in 4 .. 6)
    BY SMTT(60) DEF Fresh
  <1>2. late'[c] \cup ready'[c] = late[c] \cup ready[c] /\ arrived'[c] = arrived[c]
    OBVIOUS
  <1> QED
    BY <1>1, <1>2, FreshKept

\* What the two files are about when one is put after the other.
LEMMA TextBoth ==
  ASSUME NEW old \in Seq(Nat), NEW new \in Seq(Nat), NEW a, NEW b,
         About("text", a, old), About("text", b, new)
  PROVE  About("text", Appended(a, b), old \o new)
  <1>1. \A docs : Built(docs, FALSE)["text"] = [n |-> Len(docs), docs |-> docs]
    BY DEF Built
  <1>2. Len(old \o new) = Len(old) + Len(new)
    BY Joined
  <1>3. a = [n |-> Len(old), docs |-> old] /\ b = [n |-> Len(new), docs |-> new]
    BY <1>1 DEF About
  <1>4. Appended(a, b) = [n |-> Len(old) + Len(new), docs |-> old \o new]
    BY <1>3 DEF Appended
  <1> QED
    BY <1>1, <1>2, <1>4 DEF About

\* The offsets of one text followed by another are those of both.
LEMMA IndexBoth ==
  ASSUME NEW old \in Seq(Nat), NEW new \in Seq(Nat), NEW a, NEW b,
         About("text.idx", a, old), About("text.idx", b, new)
  PROVE  About("text.idx", MergedIndex(a, b), old \o new)
  <1>1. \A docs : Built(docs, FALSE)["text.idx"] = [n |-> Len(docs), offs |-> Offsets(Len(docs))]
    BY DEF Built
  <1>2. Len(old \o new) = Len(old) + Len(new) /\ Len(old) \in Nat /\ Len(new) \in Nat
    BY Joined
  <1>3. a = [n |-> Len(old), offs |-> Offsets(Len(old))] /\ b = [n |-> Len(new), offs |-> Offsets(Len(new))]
    BY <1>1 DEF About
  <1> QED
    BY <1>1, <1>2, <1>3, MergedIndexIs DEF About

\* What mg_text_merge does to the files of its collection.
LEMMA TextMergeWrites ==
  ASSUME NEW c \in Coll, IInv, TextMerge(c)
  PROVE  /\ \A p \in Places, s \in Kinds :
              <<p, s>> \notin {<<"old", "text">>, <<"merge", "text.idx">>} => Same(p, c, s)
         /\ \A p \in {"old", "new"}, s \in TextKinds : Exists(p, c, s)
         /\ Exists("old", c, "text")'
         /\ Get("old", c, "text")' = Appended(Get("old", c, "text"), Get("new", c, "text"))
         /\ Exists("merge", c, "text.idx")'
         /\ Get("merge", c, "text.idx")' = MergedIndex(Get("old", c, "text.idx"), Get("new", c, "text.idx"))
  <1> DEFINE idx == MergedIndex(Get("old", c, "text.idx"), Get("new", c, "text.idx"))
             text == Appended(Get("old", c, "text"), Get("new", c, "text"))
             names == {<<"old", c, "text">>, <<"merge", c, "text.idx">>}
             files == [name \in names |-> IF name[1] = "old" THEN text ELSE idx]
  <1>1. Types /\ FilesOK /\ Local(c)
    BY DEF IInv, Local
  <1>2. pc[c] = 13
    BY <1>1, AtStep DEF TextMerge
  <1>3. \A p \in {"old", "new"}, s \in {"text", "text.idx"} : Exists(p, c, s)
    BY <1>1, <1>2 DEF Local, TextPlaced, Accounted
  <1>4. fs' = Writes(files)
    BY <1>3 DEF TextMerge
  <1>5. DOMAIN files = names /\ files[<<"old", c, "text">>] = text /\ files[<<"merge", c, "text.idx">>] = idx
    OBVIOUS
  <1> HIDE DEF files, text, idx
  <1>6. \A p \in Places, s \in Kinds :
          <<p, c, s>> \in DOMAIN files <=> <<p, s>> \in {<<"old", "text">>, <<"merge", "text.idx">>}
    BY <1>5
  <1>7. {"old", "merge"} \subseteq Places /\ {"text", "text.idx"} \subseteq Kinds
    BY DEF Places, Kinds
  <1>8. \A p \in Places, s \in Kinds :
          <<p, s>> \notin {<<"old", "text">>, <<"merge", "text.idx">>} => Same(p, c, s)
    BY <1>4, <1>6, WritesFiles
  <1>9. /\ Exists("old", c, "text")' /\ Get("old", c, "text")' = text
        /\ Exists("merge", c, "text.idx")' /\ Get("merge", c, "text.idx")' = idx
    BY <1>4, <1>5, <1>6, <1>7, WritesFiles
  <1> QED
    BY <1>3, <1>8, <1>9 DEF TextKinds, text, idx

\* mg_text_merge: all four files are there, so both results are made.
LEMMA TextMergeShape ==
  ASSUME NEW c \in Coll, IInv, NEW old \in Seq(Nat), NEW new \in Seq(Nat), Shape(c, old, new), TextMerge(c)
  PROVE  Shape(c, old, new)'
  <1>1. pc[c] = 13 /\ pc'[c] = 14 /\ UNCHANGED <<guess, late, ready, arrived>>
    BY TextMergeFiles DEF TextMerge, IInv, Types
  <1>2. PICK keep : keep = guess[c]
    OBVIOUS
  <1>3. Fresh(c, 13, old, new) /\ Placed(c, 13, keep, old, new)
    BY <1>1, <1>2 DEF Shape
  <1>4. /\ \A p \in Places, s \in Kinds :
              <<p, s>> \notin {<<"old", "text">>, <<"merge", "text.idx">>} => Same(p, c, s)
        /\ \A p \in {"old", "new"}, s \in TextKinds : Exists(p, c, s)
        /\ Exists("old", c, "text")'
        /\ Get("old", c, "text")' = Appended(Get("old", c, "text"), Get("new", c, "text"))
        /\ Exists("merge", c, "text.idx")'
        /\ Get("merge", c, "text.idx")' = MergedIndex(Get("old", c, "text.idx"), Get("new", c, "text.idx"))
    BY TextMergeWrites
  <1>5. (\A p \in {"base", "new"} : SameAll(p, c, Kinds)) /\ SameAll("old", c, Kinds \ {"text"})
        /\ SameAll("merge", c, Kinds \ {"text.idx"})
    BY <1>4 DEF SameAll, Places
  <1>6. Has("new", c, "text", new) /\ Has("new", c, "text.idx", new)
    BY <1>3 DEF Placed, InNew
  <1>7. ASSUME Healthy(c, 13, keep, old, new) PROVE Placed(c, 14, keep, old, new)'
    <2>1. Has("old", c, "text", old) /\ Has("old", c, "text.idx", old)
      BY <1>7, Turns DEF Healthy, InOld, Five, Away
    <2>2. Has("old", c, "text", old \o new)' /\ Has("merge", c, "text.idx", old \o new)'
      BY <1>4, <1>6, <2>1, TextBoth, IndexBoth DEF Has
    <2>3. InOld(c, 14, old, new)'
      <3>1. ASSUME NEW s \in Five, s # "text" PROVE Has("old", c, s, old)'
        <4>0. InOld(c, 13, old, new) /\ Away(s) \in 7 .. 11
          BY <1>7, Turns DEF Healthy
        <4>1. Has("old", c, s, old)
          BY <3>1, <4>0 DEF InOld
        <4>2. Same("old", c, s) /\ s \in Kinds /\ "old" \in Places
          BY <1>5, <3>1, Turns DEF SameAll, Places
        <4> QED
          BY <4>1, <4>2, HasSame
      <3>2. \A s \in Five : Away(s) \in 7 .. 11
        BY Turns
      <3> QED
        BY <2>2, <3>1, <3>2 DEF InOld
    <2>4. InMerge(c, 14, keep, old, new)'
      <3>1. Has("merge", c, "weight", old)'
        <4>1. Has("merge", c, "weight", old)
          BY <1>7 DEF Healthy, InMerge
        <4>2. Same("merge", c, "weight") /\ "weight" \in Kinds /\ "merge" \in Places
          BY <1>5 DEF SameAll, Places, Kinds
        <4> QED
          BY <4>1, <4>2, HasSame
      <3>2. \A s \in Nine : Made(s) < 14 => s = "text.idx"
        BY DEF Nine, Made
      <3> QED
        BY <2>2, <3>1, <3>2 DEF InMerge
    <2>5. PICK i \in 13 .. 16, k \in 14 .. 17 : i = 13 /\ k = 14 /\ k = i + 1
      OBVIOUS
    <2>6. Placed(c, i, keep, old, new) /\ Healthy(c, i, keep, old, new)
      BY <1>3, <1>7, <2>5
    <2>7. InOld(c, k, old, new)' /\ InMerge(c, k, keep, old, new)'
      BY <2>3, <2>4, <2>5
    <2>8. Placed(c, k, keep, old, new)'
      BY <1>5, <2>5, <2>6, <2>7, ProgramPlaced
    <2> QED
      BY <2>5, <2>8
  <1>8. ASSUME Stuck(c, 13, old, new) PROVE Placed(c, 14, keep, old, new)'
    <2>1. Get("merge", c, "text.idx")'.n = Len(old) + Len(new)
      <3>1. Get("old", c, "text.idx").n = Len(old) /\ Get("new", c, "text.idx").n = Len(new)
        BY <1>6, <1>8 DEF Stuck, Has, About, Built
      <3>2. \A a, b : MergedIndex(a, b).n = a.n + b.n
        BY DEF MergedIndex
      <3> QED
        BY <1>4, <3>1, <3>2
    <2>2. SameAll("base", c, Five) /\ SameAll("old", c, Five \ {"text"})
      BY <1>5, Turns DEF SameAll
    <2>3. Stuck(c, 13, old, new)'
      <3>1. PICK k \in 0 .. 27 : k = 13 /\ k <= 13
        OBVIOUS
      <3>2. Stuck(c, k, old, new)
        BY <1>8, <3>1
      <3>3. Stuck(c, k, old, new)'
        BY <2>2, <3>1, <3>2, StuckKept
      <3> QED
        BY <3>1, <3>3
    <2>4. Stuck(c, 14, old, new)'
      BY <1>4, <2>1, <2>3 DEF Stuck
    <2> QED
      BY <1>3, <1>5, <2>4, ProgramStuck
  <1>9. Placed(c, 14, keep, old, new)'
    BY <1>3, <1>7, <1>8 DEF Placed
  <1>10. Fresh(c, 14, old, new)'
    BY <1>1, <1>3, FreshLater
  <1>11. guess'[c] = keep
    BY <1>1, <1>2
  <1> QED
    BY <1>1, <1>9, <1>10, <1>11, ShapeNext

\* What mg_invf_merge writes when everything is there, and when it refuses the old file.
Written(keep) == {"invf", "invf.idx", "invf.dict"} \cup (IF keep THEN {"weight"} ELSE {})

\* mg_invf_merge with all files there, and with an old inverted file that has skips.
LEMMA InvfWrittenWhole ==
  ASSUME NEW c \in Coll,
         \A s \in {"invf", "invf.idx", "invf.dict"} : Exists("old", c, s) /\ Exists("new", c, s),
         Get("old", c, "invf").skips = FALSE, Exists("merge", c, "weight")
  PROVE  /\ \A name : name \in DOMAIN InvfWritten(c) <=> \E s \in Written(guess[c]) : name = <<"merge", c, s>>
         /\ InvfWritten(c)[<<"merge", c, "invf">>]
              = [docs |-> Get("old", c, "invf").docs \o Get("new", c, "invf").docs, skips |-> FALSE]
         /\ InvfWritten(c)[<<"merge", c, "invf.idx">>] = Get("old", c, "invf.idx") \o Get("new", c, "invf.idx")
         /\ InvfWritten(c)[<<"merge", c, "invf.dict">>] = Get("old", c, "invf.dict") \o Get("new", c, "invf.dict")
         /\ guess[c] => InvfWritten(c)[<<"merge", c, "weight">>]
                          = Get("merge", c, "weight") \o Get("new", c, "invf.dict")
  <1> DEFINE names == {<<"merge", c, s>> : s \in {"invf", "invf.idx", "invf.dict"} \cup (IF guess[c] THEN {"weight"} ELSE {})}
  <1>1. InvfWritten(c) =
          [name \in names |->
             CASE name[3] = "weight"    -> Get("merge", c, "weight") \o Get("new", c, "invf.dict")
               [] name[3] = "invf"      -> [docs |-> Get("old", c, "invf").docs \o Get("new", c, "invf").docs, skips |-> FALSE]
               [] OTHER                 -> Get("old", c, name[3]) \o Get("new", c, name[3])]
    BY DEF InvfWritten
  <1>2. DOMAIN InvfWritten(c) = names
    BY <1>1
  <1>3. <<"merge", c, "invf">> \in names /\ <<"merge", c, "invf.idx">> \in names /\ <<"merge", c, "invf.dict">> \in names
        /\ (guess[c] => <<"merge", c, "weight">> \in names)
    OBVIOUS
  <1>4. InvfWritten(c)[<<"merge", c, "invf">>]
          = [docs |-> Get("old", c, "invf").docs \o Get("new", c, "invf").docs, skips |-> FALSE]
    BY <1>1, <1>3
  <1>5. /\ InvfWritten(c)[<<"merge", c, "invf.idx">>] = Get("old", c, "invf.idx") \o Get("new", c, "invf.idx")
        /\ InvfWritten(c)[<<"merge", c, "invf.dict">>] = Get("old", c, "invf.dict") \o Get("new", c, "invf.dict")
    BY <1>1, <1>3
  <1>6. guess[c] => InvfWritten(c)[<<"merge", c, "weight">>] = Get("merge", c, "weight") \o Get("new", c, "invf.dict")
    BY <1>1, <1>3
  <1>7. \A name : name \in DOMAIN InvfWritten(c) <=> \E s \in Written(guess[c]) : name = <<"merge", c, s>>
    BY <1>2 DEF Written
  <1> QED
    BY <1>4, <1>5, <1>6, <1>7

LEMMA InvfWrittenSkips ==
  ASSUME NEW c \in Coll, Exists("old", c, "invf.dict"), Exists("new", c, "invf.dict"),
         Get("old", c, "invf").skips = TRUE
  PROVE  /\ DOMAIN InvfWritten(c) = {<<"merge", c, "invf.dict">>}
         /\ InvfWritten(c)[<<"merge", c, "invf.dict">>] = Get("old", c, "invf.dict")
  <1>1. InvfWritten(c) =
          [name \in {<<"merge", c, s>> : s \in {"invf.dict"}} |->
             CASE name[3] = "weight"    -> Get("merge", c, "weight") \o Get("new", c, "invf.dict")
               [] name[3] = "invf"      -> [docs |-> <<>>, skips |-> FALSE]
               [] name[3] = "invf.dict" -> Get("old", c, "invf.dict")
               [] OTHER                 -> Get("old", c, name[3]) \o Get("new", c, name[3])]
    BY DEF InvfWritten
  <1> QED
    BY <1>1

\* What the files of a collection are about, one by one.
LEMMA AboutIs ==
  ASSUME NEW file, NEW docs
  PROVE  /\ \A s \in {"invf.idx", "invf.dict", "invf.dict.blocked", "weight", "weight.approx"} :
              About(s, file, docs) <=> file = docs
         /\ About("invf", file, docs) <=> file.docs = docs /\ file.skips \in BOOLEAN
         /\ About("text", file, docs) <=> file = [n |-> Len(docs), docs |-> docs]
         /\ About("text.idx", file, docs) <=> file = [n |-> Len(docs), offs |-> Offsets(Len(docs))]
         /\ About("text.idx.wgt", file, docs) <=>
              file = [idx |-> [n |-> Len(docs), offs |-> Offsets(Len(docs))], docs |-> docs]
  BY DEF About, Built

LEMMA HasIs ==
  ASSUME NEW p, NEW c, NEW docs
  PROVE  /\ \A s \in {"invf.idx", "invf.dict", "invf.dict.blocked", "weight", "weight.approx"} :
              Has(p, c, s, docs) <=> Exists(p, c, s) /\ Get(p, c, s) = docs
         /\ Has(p, c, "invf", docs) <=>
              /\ Exists(p, c, "invf") /\ Get(p, c, "invf").docs = docs
              /\ Get(p, c, "invf").skips \in BOOLEAN
         /\ Has(p, c, "text", docs) <=>
              Exists(p, c, "text") /\ Get(p, c, "text") = [n |-> Len(docs), docs |-> docs]
         /\ Has(p, c, "text.idx", docs) <=>
              /\ Exists(p, c, "text.idx")
              /\ Get(p, c, "text.idx") = [n |-> Len(docs), offs |-> Offsets(Len(docs))]
  <1>1. \A s \in {"invf.idx", "invf.dict", "invf.dict.blocked", "weight", "weight.approx"} :
          About(s, Get(p, c, s), docs) <=> Get(p, c, s) = docs
    BY AboutIs
  <1>2. About("invf", Get(p, c, "invf"), docs) <=>
          Get(p, c, "invf").docs = docs /\ Get(p, c, "invf").skips \in BOOLEAN
    BY AboutIs
  <1>3. About("text", Get(p, c, "text"), docs) <=> Get(p, c, "text") = [n |-> Len(docs), docs |-> docs]
    BY AboutIs
  <1>4. About("text.idx", Get(p, c, "text.idx"), docs) <=>
          Get(p, c, "text.idx") = [n |-> Len(docs), offs |-> Offsets(Len(docs))]
    BY AboutIs
  <1> HIDE DEF About, Get, Exists
  <1> QED
    BY <1>1, <1>2, <1>3, <1>4 DEF Has

\* mg_invf_merge, whose status the script does not look at.
LEMMA InvfMergeShape ==
  ASSUME NEW c \in Coll, IInv, NEW old \in Seq(Nat), NEW new \in Seq(Nat), Shape(c, old, new), InvfMerge(c)
  PROVE  Shape(c, old, new)'
  <1> DEFINE files == InvfWritten(c)
  <1>1. pc[c] = 14 /\ Checked(c, TRUE) /\ Types
    BY AtStep DEF InvfMerge, Unchecked, IInv
  <1>2. pc[c] # 27 /\ pc[c] + 1 = 15
    BY <1>1
  <1>3. pc'[c] = 15 /\ UNCHANGED <<guess, late, ready, arrived>> /\ fs' = Writes(files)
    BY <1>1, <1>2, StepOn DEF InvfMerge
  <1>4. PICK keep : keep = guess[c]
    OBVIOUS
  <1>5. Fresh(c, 14, old, new) /\ Placed(c, 14, keep, old, new)
    BY <1>1, <1>4 DEF Shape
  <1>6. /\ \A s \in {"invf", "invf.idx"} : Has("new", c, s, new)
        /\ Exists("new", c, "invf.dict") /\ Get("new", c, "invf.dict") = new
    BY <1>5 DEF Placed, InNew
  <1>7. Get("new", c, "invf").docs = new /\ Get("new", c, "invf.idx") = new
    BY <1>6, AboutIs DEF Has
  <1> HIDE DEF files
  <1>8. ASSUME \A name \in DOMAIN files : \E s \in Kinds : name = <<"merge", c, s>>
        PROVE  (\A p \in Places \ {"merge"} : SameAll(p, c, Kinds))
    <2>1. \A p \in Places, s \in Kinds : p # "merge" => <<p, c, s>> \notin DOMAIN files
      BY <1>8
    <2>2. \A p \in Places, s \in Kinds : p # "merge" => Same(p, c, s)
      BY <1>3, <2>1, WritesFiles
    <2> QED
      BY <2>2 DEF SameAll
  <1>9. ASSUME Skips("old", c), \A s \in {"text.idx", "invf", "invf.dict"} : Has("old", c, s, old),
               \A s \in Five : ~Exists("base", c, s),
               Exists("merge", c, "text.idx"), Get("merge", c, "text.idx").n = Len(old) + Len(new)
        PROVE  Placed(c, 15, keep, old, new)'
    <2>1. Get("old", c, "invf.dict") = old /\ Exists("old", c, "invf.dict") /\ Get("old", c, "invf").skips = TRUE
      BY <1>9, AboutIs DEF Has, Skips
    <2>2. DOMAIN files = {<<"merge", c, "invf.dict">>} /\ files[<<"merge", c, "invf.dict">>] = old
      BY <1>6, <2>1, InvfWrittenSkips DEF files
    <2>3. \A p \in Places \ {"merge"} : SameAll(p, c, Kinds)
      BY <1>8, <2>2 DEF Kinds
    <2>4. \A p \in Places, s \in Kinds : <<p, c, s>> \in DOMAIN files <=> p = "merge" /\ s = "invf.dict"
      BY <2>2
    <2>5. "merge" \in Places /\ "invf.dict" \in Kinds /\ "text.idx" \in Kinds
      BY DEF Places, Kinds
    <2>6. /\ Exists("merge", c, "invf.dict")' /\ Get("merge", c, "invf.dict")' = old
          /\ Same("merge", c, "text.idx")
      BY <1>3, <2>2, <2>4, <2>5, WritesFiles
    <2>7. \A s \in Five : ~Exists("base", c, s)'
      BY <1>9, <2>3, Turns DEF SameAll, Same, Places
    <2>8. \A s \in Kinds : Same("old", c, s)
      BY <2>3 DEF SameAll, Places
    <2>9. \A s \in {"text.idx", "invf", "invf.dict"} : Has("old", c, s, old)'
      BY <1>9, <2>8, HasSame DEF Kinds, Places
    <2>10. Skips("old", c)'
      BY <1>9, <2>8 DEF Skips, Same, Kinds
    <2>11. Exists("merge", c, "text.idx")' /\ Get("merge", c, "text.idx")'.n = Len(old) + Len(new)
      BY <1>9, <2>6 DEF Same
    <2>12. Stuck(c, 15, old, new)'
      BY <2>6, <2>7, <2>9, <2>10, <2>11 DEF Stuck
    <2>13. PICK i \in 13 .. 14, k \in {14, 15} : i = 14 /\ k = 15 /\ k = i + 1
      OBVIOUS
    <2>14. Placed(c, i, keep, old, new) /\ Stuck(c, k, old, new)' /\ k # 0
      BY <1>5, <2>12, <2>13
    <2>15. \A p \in {"base", "new"} : SameAll(p, c, Kinds)
      BY <2>3 DEF Places
    <2>16. Placed(c, k, keep, old, new)'
      BY <2>13, <2>14, <2>15, ProgramStuck
    <2> QED
      BY <2>13, <2>16
  <1>10. ASSUME Healthy(c, 14, keep, old, new) PROVE Placed(c, 15, keep, old, new)'
    <2>1. /\ \A s \in {"text.idx", "invf", "invf.idx", "invf.dict"} : Has("old", c, s, old)
          /\ Has("old", c, "text", old \o new)
      <3>1. \A s \in Five : Away(s) \in 7 .. 11
        BY Turns
      <3>2. InOld(c, 14, old, new) /\ \A s \in {"text.idx", "invf", "invf.idx", "invf.dict"} : s \in Five /\ s # "text"
        BY <1>10 DEF Healthy, Five
      <3>3. "text" \in Five
        BY DEF Five
      <3>4. Has("old", c, "text", old \o new)
        BY <3>2, <3>3 DEF InOld
      <3>5. ASSUME NEW s \in {"text.idx", "invf", "invf.idx", "invf.dict"} PROVE Has("old", c, s, old)
        <4>1. s \in Five /\ s # "text" /\ Away(s) \in 7 .. 11
          BY <3>1, <3>2
        <4> QED
          BY <3>2, <4>1 DEF InOld
      <3> QED
        BY <3>4, <3>5
    <2>2. \A s \in Five : ~Exists("base", c, s)
      <3>0. \A s \in Five : s \in Nine /\ Away(s) \in 7 .. 11 /\ Back(s) \in 17 .. 26
        BY Turns
      <3>1. AtHome(c, 14, old, new)
        BY <1>10 DEF Healthy
      <3>2. ASSUME NEW s \in Five PROVE ~Exists("base", c, s)
        <4>1. s \in Nine /\ Away(s) < 14
          BY <3>0
        <4>2. 14 <= Back(s)
          BY <3>0, SMTT(60)
        <4> QED
          BY <3>1, <4>1, <4>2 DEF AtHome
      <3> QED
        BY <3>2
    <2>3. Has("merge", c, "weight", old) /\ Has("merge", c, "text.idx", old \o new)
      <3>1. "text.idx" \in Nine /\ Made("text.idx") < 14 /\ 14 <= Back("text.idx")
        BY DEF Nine, Made, Back
      <3> QED
        BY <1>10, <3>1 DEF Healthy, InMerge
    <2>4. Len(old \o new) = Len(old) + Len(new)
      BY Joined
    <2>5. CASE Skips("old", c)
      <3>1. Exists("merge", c, "text.idx") /\ Get("merge", c, "text.idx").n = Len(old) + Len(new)
        <4>1. Exists("merge", c, "text.idx") /\
              Get("merge", c, "text.idx") = [n |-> Len(old \o new), offs |-> Offsets(Len(old \o new))]
          <5>1. \A docs : Built(docs, FALSE)["text.idx"] = [n |-> Len(docs), offs |-> Offsets(Len(docs))]
            BY DEF Built
          <5> QED
            BY <2>3, <5>1 DEF Has, About
        <4> QED
          BY <2>4, <4>1
      <3> QED
        BY <1>9, <2>1, <2>2, <2>5, <3>1
    <2>6. CASE ~Skips("old", c)
      <3> DEFINE kinds == Written(keep)
      <3>1. /\ \A s \in {"invf", "invf.idx", "invf.dict"} : Exists("old", c, s) /\ Exists("new", c, s)
            /\ Exists("merge", c, "weight") /\ Get("merge", c, "weight") = old
            /\ Get("old", c, "invf").docs = old /\ Get("old", c, "invf").skips \in BOOLEAN
            /\ Get("old", c, "invf.idx") = old /\ Get("old", c, "invf.dict") = old
        BY <1>6, <2>1, <2>3, HasIs
      <3>2. Get("old", c, "invf").skips = FALSE
        BY <2>6, <3>1 DEF Skips
      <3>3. /\ \A name : name \in DOMAIN files <=> \E s \in kinds : name = <<"merge", c, s>>
            /\ files[<<"merge", c, "invf">>] = [docs |-> old \o new, skips |-> FALSE]
            /\ files[<<"merge", c, "invf.idx">>] = old \o new
            /\ files[<<"merge", c, "invf.dict">>] = old \o new
            /\ keep => files[<<"merge", c, "weight">>] = old \o new
        <4>1. \A s \in {"invf.idx", "invf.dict"} : Get("old", c, s) = old /\ Get("new", c, s) = new
          BY <1>6, <1>7, <3>1
        <4>2. Get("old", c, "invf").docs = old /\ Get("new", c, "invf").docs = new
          BY <1>7, <3>1
        <4>3. /\ \A name : name \in DOMAIN files <=> \E s \in Written(guess[c]) : name = <<"merge", c, s>>
              /\ files[<<"merge", c, "invf">>] = [docs |-> old \o new, skips |-> FALSE]
              /\ files[<<"merge", c, "invf.idx">>] = old \o new
              /\ files[<<"merge", c, "invf.dict">>] = old \o new
              /\ guess[c] => files[<<"merge", c, "weight">>] = Get("merge", c, "weight") \o new
          <5>1. \A s \in {"invf", "invf.idx", "invf.dict"} : Exists("old", c, s) /\ Exists("new", c, s)
            BY <3>1
          <5>2. Exists("merge", c, "weight")
            BY <3>1
          <5>3. /\ \A name : name \in DOMAIN InvfWritten(c) <=> \E s \in Written(guess[c]) : name = <<"merge", c, s>>
                /\ InvfWritten(c)[<<"merge", c, "invf">>]
                     = [docs |-> Get("old", c, "invf").docs \o Get("new", c, "invf").docs, skips |-> FALSE]
                /\ InvfWritten(c)[<<"merge", c, "invf.idx">>] = Get("old", c, "invf.idx") \o Get("new", c, "invf.idx")
                /\ InvfWritten(c)[<<"merge", c, "invf.dict">>] = Get("old", c, "invf.dict") \o Get("new", c, "invf.dict")
                /\ guess[c] => InvfWritten(c)[<<"merge", c, "weight">>]
                                 = Get("merge", c, "weight") \o Get("new", c, "invf.dict")
            BY <3>2, <5>1, <5>2, InvfWrittenWhole
          <5> QED
            BY <4>1, <4>2, <5>3 DEF files
        <4> QED
          BY <1>4, <3>1, <4>3
      <3>4. kinds \subseteq Kinds /\ "merge" \in Places
        BY DEF Kinds, Places, Written
      <3>5. \A p \in Places, s \in Kinds : <<p, c, s>> \in DOMAIN files <=> p = "merge" /\ s \in kinds
        BY <3>3
      <3>6. \A p \in Places \ {"merge"} : SameAll(p, c, Kinds)
        <4>1. \A name \in DOMAIN files : \E s \in Kinds : name = <<"merge", c, s>>
          BY <3>3, <3>4
        <4> QED
          BY <1>8, <4>1
      <3>7. \A s \in kinds : Exists("merge", c, s)' /\ Get("merge", c, s)' = files[<<"merge", c, s>>]
        BY <1>3, <3>4, <3>5, WritesFiles
      <3>8. \A s \in Kinds \ kinds : Same("merge", c, s)
        BY <1>3, <3>4, <3>5, WritesFiles
      <3>9. /\ {"invf", "invf.idx", "invf.dict"} \subseteq kinds /\ "text.idx" \notin kinds /\ "text.idx" \in Kinds
            /\ keep => "weight" \in kinds
            /\ ~keep => "weight" \in Kinds \ kinds
        BY DEF Kinds, Written
      <3>10. \A s \in {"invf", "invf.idx", "invf.dict"} : Has("merge", c, s, old \o new)'
        <4>1. /\ About("invf", files[<<"merge", c, "invf">>], old \o new)
              /\ About("invf.idx", files[<<"merge", c, "invf.idx">>], old \o new)
              /\ About("invf.dict", files[<<"merge", c, "invf.dict">>], old \o new)
          <5>1. About("invf", files[<<"merge", c, "invf">>], old \o new)
            <6>1. \A docs : About("invf", [docs |-> docs, skips |-> FALSE], docs)
              BY DEF About
            <6> QED
              BY <3>3, <6>1
          <5>2. /\ About("invf.idx", files[<<"merge", c, "invf.idx">>], old \o new)
                /\ About("invf.dict", files[<<"merge", c, "invf.dict">>], old \o new)
            BY <3>3, AboutIs
          <5> QED
            BY <5>1, <5>2
        <4>2. \A s \in {"invf", "invf.idx", "invf.dict"} :
                Exists("merge", c, s)' /\ Get("merge", c, s)' = files[<<"merge", c, s>>]
          BY <3>7, <3>9
        <4>3. ASSUME NEW s, NEW file, Exists("merge", c, s)', Get("merge", c, s)' = file, About(s, file, old \o new)
              PROVE  Has("merge", c, s, old \o new)'
          BY <4>3 DEF Has, About
        <4> QED
          BY <4>1, <4>2, <4>3
      <3>11. Has("merge", c, "text.idx", old \o new)'
        BY <2>3, <3>4, <3>8, <3>9, HasSame
      <3>12. Exists("merge", c, "weight")' /\ (keep => Has("merge", c, "weight", old \o new)')
        <4>1. CASE keep
          <5>1. About("weight", files[<<"merge", c, "weight">>], old \o new)
            BY <3>3, <4>1, AboutIs
          <5>2. Exists("merge", c, "weight")' /\ Get("merge", c, "weight")' = files[<<"merge", c, "weight">>]
            BY <3>7, <3>9, <4>1
          <5> QED
            BY <5>1, <5>2 DEF Has, About
        <4>2. CASE ~keep
          <5>1. Same("merge", c, "weight")
            BY <3>8, <3>9, <4>2
          <5> QED
            BY <3>1, <4>2, <5>1 DEF Same
        <4> QED
          BY <4>1, <4>2
      <3>13. \A s \in Kinds : Same("old", c, s)
        BY <3>6 DEF SameAll, Places
      <3>14. ~Skips("old", c)'
        BY <2>6, <3>13 DEF Skips, Same, Kinds
      <3>15. InMerge(c, 15, keep, old, new)'
        <4>1. \A s \in Nine : Made(s) < 15 => s \in {"text.idx", "invf", "invf.idx", "invf.dict"}
          BY DEF Nine, Made
        <4> QED
          BY <3>10, <3>11, <3>12, <3>14, <4>1 DEF InMerge
      <3>16. InOld(c, 15, old, new)'
        <4>1. PICK i \in 0 .. 27, k \in 0 .. 27 : i = 14 /\ k = 15 /\ k = i + 1 /\ i \in 14 .. 27
          OBVIOUS
        <4>2. InOld(c, i, old, new)
          BY <1>10, <4>1 DEF Healthy
        <4>3. SameAll("old", c, Five \ {"text"}) /\ Same("old", c, "text")
          BY <3>13, Turns DEF SameAll, Kinds
        <4>4. InOld(c, k, old, new)'
          BY <4>1, <4>2, <4>3, OldKept
        <4> QED
          BY <4>1, <4>4
      <3>17. PICK i \in 13 .. 16, k \in 14 .. 17 : i = 14 /\ k = 15 /\ k = i + 1
        OBVIOUS
      <3>18. Placed(c, i, keep, old, new) /\ Healthy(c, i, keep, old, new)
        BY <1>5, <1>10, <3>17
      <3>19. InOld(c, k, old, new)' /\ InMerge(c, k, keep, old, new)'
        BY <3>15, <3>16, <3>17
      <3>20. (\A p \in {"base", "new"} : SameAll(p, c, Kinds)) /\ SameAll("old", c, Kinds \ {"text"})
        BY <3>6 DEF SameAll, Places
      <3>21. Placed(c, k, keep, old, new)'
        BY <3>17, <3>18, <3>19, <3>20, ProgramPlaced
      <3> QED
        BY <3>17, <3>21
    <2> QED
      BY <2>5, <2>6
  <1>11. ASSUME Stuck(c, 14, old, new) PROVE Placed(c, 15, keep, old, new)'
    BY <1>9, <1>11 DEF Stuck
  <1>12. Placed(c, 15, keep, old, new)'
    BY <1>5, <1>10, <1>11 DEF Placed
  <1>13. Fresh(c, 15, old, new)'
    BY <1>3, <1>5, FreshLater
  <1>14. guess'[c] = keep
    BY <1>3, <1>4
  <1> QED
    BY <1>3, <1>12, <1>13, <1>14, ShapeNext

\* What mg_weights_build makes of complete files, and what it leaves alone in any case.
LEMMA WeightsWrittenAre ==
  ASSUME NEW c \in Coll, Indexes(c), Get("merge", c, "invf.dict") \in Seq(Nat),
         WeightsKept(c) => Get("merge", c, "weight") = Get("merge", c, "invf.dict"),
         ~WeightsKept(c) => Get("merge", c, "invf").docs = Get("merge", c, "invf.dict")
  PROVE  /\ \A name : name \in DOMAIN WeightsWritten(c) <=>
              \E s \in {"weight", "weight.approx", "text.idx.wgt"} : name = <<"merge", c, s>>
         /\ WeightsWritten(c)[<<"merge", c, "weight">>] = Get("merge", c, "invf.dict")
         /\ WeightsWritten(c)[<<"merge", c, "weight.approx">>] = Get("merge", c, "invf.dict")
         /\ WeightsWritten(c)[<<"merge", c, "text.idx.wgt">>]
              = [idx |-> Get("merge", c, "text.idx"), docs |-> Get("merge", c, "invf.dict")]
  <1> DEFINE names == {<<"merge", c, s>> : s \in {"weight", "weight.approx", "text.idx.wgt"}}
             dict == Get("merge", c, "invf.dict")
             approx == [i \in DOMAIN dict |-> IF i \in DOMAIN dict THEN dict[i] ELSE 0]
             weights == IF WeightsKept(c) THEN Get("merge", c, "weight") ELSE Get("merge", c, "invf").docs
             guessed == [i \in DOMAIN dict |-> IF i \in DOMAIN weights THEN weights[i] ELSE 0]
  <1>1. weights = dict
    OBVIOUS
  <1>2. approx = dict
    <2>1. PICK f \in Seq(Nat) : f = dict
      OBVIOUS
    <2>2. [i \in DOMAIN f |-> IF i \in DOMAIN f THEN f[i] ELSE 0] = f
      OBVIOUS
    <2> QED
      BY <2>1, <2>2
  <1>3. guessed = dict
    BY <1>1, <1>2
  <1>4. WeightsWritten(c) =
          [name \in names |->
             CASE name[3] = "weight"        -> weights
               [] name[3] = "weight.approx" -> guessed
               [] name[3] = "text.idx.wgt" /\ Indexes(c) -> [idx |-> Get("merge", c, "text.idx"), docs |-> guessed]
               [] OTHER                     -> [idx |-> [n |-> 0, offs |-> <<>>], docs |-> <<>>]]
    BY DEF WeightsWritten
  <1> HIDE DEF weights, guessed
  <1>5. \A s \in {"weight", "weight.approx", "text.idx.wgt"} : <<"merge", c, s>> \in names
    OBVIOUS
  <1>6. WeightsWritten(c)[<<"merge", c, "weight">>] = weights
    BY <1>4, <1>5
  <1>7. WeightsWritten(c)[<<"merge", c, "weight.approx">>] = guessed
    BY <1>4, <1>5
  <1>8. WeightsWritten(c)[<<"merge", c, "text.idx.wgt">>] = [idx |-> Get("merge", c, "text.idx"), docs |-> guessed]
    BY <1>4, <1>5
  <1>9. DOMAIN WeightsWritten(c) = names
    BY <1>4
  <1> QED
    BY <1>1, <1>3, <1>6, <1>7, <1>8, <1>9

LEMMA WeightsBuildOther ==
  ASSUME NEW c \in Coll, WeightsBuild(c)
  PROVE  \A p \in Places \ {"merge"} : SameAll(p, c, Kinds)
  <1> DEFINE weight == <<"merge", c, "weight">>
  <1>1. \/ fs' = Writes(WeightsWritten(c))
        \/ fs' = [name \in DOMAIN fs \ (IF guess[c] THEN {} ELSE {weight}) |-> fs[name]]
    BY DEF WeightsBuild
  <1>2. CASE fs' = Writes(WeightsWritten(c))
    <2>1. DOMAIN WeightsWritten(c) \subseteq
            {<<"merge", c, s>> : s \in {"weight", "weight.approx", "text.idx.wgt"}}
      BY DEF WeightsWritten
    <2>2. \A p \in Places, s \in Kinds : p # "merge" => <<p, c, s>> \notin DOMAIN WeightsWritten(c)
      BY <2>1
    <2> QED
      BY <1>2, <2>2, WritesFiles DEF SameAll
  <1>3. CASE fs' = [name \in DOMAIN fs \ (IF guess[c] THEN {} ELSE {weight}) |-> fs[name]]
    <2>1. \A p \in Places \ {"merge"}, s \in Kinds : <<p, c, s>> # weight
      OBVIOUS
    <2> QED
      BY <1>3, <2>1 DEF SameAll, Same, Exists, Get
  <1> QED
    BY <1>1, <1>2, <1>3

\* mg_weights_build: with a whole merge it succeeds, without one it ends the script.
LEMMA WeightsBuildShape ==
  ASSUME NEW c \in Coll, IInv, NEW old \in Seq(Nat), NEW new \in Seq(Nat), Shape(c, old, new), WeightsBuild(c)
  PROVE  Shape(c, old, new)'
  <1>1. pc[c] = 15 /\ Checked(c, Indexes(c)) /\ Types
    BY AtStep DEF WeightsBuild, IInv
  <1>2. pc[c] # 27 /\ pc[c] + 1 = 16
    BY <1>1
  <1>3. UNCHANGED <<guess, late, ready, arrived>>
    BY DEF WeightsBuild
  <1>4. (Indexes(c) => pc'[c] = 16) /\ (~Indexes(c) => pc'[c] = 0)
    BY <1>1, <1>2, NextStep DEF Types
  <1>5. PICK keep : keep = guess[c]
    OBVIOUS
  <1>6. Fresh(c, 15, old, new) /\ Placed(c, 15, keep, old, new)
    BY <1>1, <1>5 DEF Shape
  <1>7. \A p \in Places \ {"merge"} : SameAll(p, c, Kinds)
    BY WeightsBuildOther
  <1>8. new # <<>> /\ Len(old) \in Nat /\ Len(new) \in Nat /\ Len(new) # 0
    BY <1>6, EmptySeq DEF Fresh
  <1>9. (\A p \in {"base", "new"} : SameAll(p, c, Kinds)) /\ SameAll("old", c, Kinds \ {"text"})
        /\ Same("old", c, "text")
    BY <1>7 DEF SameAll, Places, Kinds
  <1>10. old \o new \in Seq(Nat) /\ Len(old \o new) = Len(old) + Len(new)
    BY Joined
  <1>11. ASSUME Healthy(c, 15, keep, old, new) PROVE Placed(c, 16, keep, old, new)' /\ Indexes(c)
    <2>1. /\ Exists("merge", c, "weight") /\ (keep => Has("merge", c, "weight", old \o new))
          /\ ~Skips("old", c)
      BY <1>11 DEF Healthy, InMerge
    <2>2. \A s \in {"text.idx", "invf", "invf.idx", "invf.dict"} : Has("merge", c, s, old \o new)
      <3>1. \A s \in {"text.idx", "invf", "invf.idx", "invf.dict"} : s \in Nine /\ Made(s) < 15 /\ 15 <= Back(s)
        BY DEF Nine, Made, Back
      <3> QED
        BY <1>11, <3>1 DEF Healthy, InMerge
    <2>3. /\ Get("merge", c, "invf.dict") = old \o new /\ Get("merge", c, "invf").docs = old \o new
          /\ Exists("merge", c, "invf.dict") /\ Exists("merge", c, "invf") /\ Exists("merge", c, "invf.idx")
      BY <2>2, HasIs DEF Has
    <2>4. /\ Exists("merge", c, "text.idx")
          /\ Get("merge", c, "text.idx") = [n |-> Len(old \o new), offs |-> Offsets(Len(old \o new))]
      <3>1. \A docs : Built(docs, FALSE)["text.idx"] = [n |-> Len(docs), offs |-> Offsets(Len(docs))]
        BY DEF Built
      <3> QED
        BY <2>2, <3>1 DEF Has, About
    <2>5. WeightsKept(c) <=> keep
      BY <1>5, <2>1 DEF WeightsKept
    <2>6. keep => Get("merge", c, "weight") = old \o new
      <3>1. \A docs : Built(docs, FALSE)["weight"] = docs
        BY DEF Built
      <3> QED
        BY <2>1, <3>1 DEF Has, About
    <2>7. Indexes(c)
      BY <2>3, <2>4 DEF Indexes, Weighs
    <2>8. fs' = Writes(WeightsWritten(c))
      BY <2>7 DEF WeightsBuild, Indexes
    <2> DEFINE files == WeightsWritten(c)
               kinds == {"weight", "weight.approx", "text.idx.wgt"}
    <2>9. /\ \A name : name \in DOMAIN files <=> \E s \in kinds : name = <<"merge", c, s>>
          /\ files[<<"merge", c, "weight">>] = old \o new
          /\ files[<<"merge", c, "weight.approx">>] = old \o new
          /\ files[<<"merge", c, "text.idx.wgt">>]
               = [idx |-> [n |-> Len(old \o new), offs |-> Offsets(Len(old \o new))], docs |-> old \o new]
      <3>1. Get("merge", c, "invf.dict") \in Seq(Nat)
        BY <1>10, <2>3
      <3>2. /\ WeightsKept(c) => Get("merge", c, "weight") = Get("merge", c, "invf.dict")
            /\ ~WeightsKept(c) => Get("merge", c, "invf").docs = Get("merge", c, "invf.dict")
        BY <2>3, <2>5, <2>6
      <3>3. /\ \A name : name \in DOMAIN WeightsWritten(c) <=>
                 \E s \in {"weight", "weight.approx", "text.idx.wgt"} : name = <<"merge", c, s>>
            /\ WeightsWritten(c)[<<"merge", c, "weight">>] = Get("merge", c, "invf.dict")
            /\ WeightsWritten(c)[<<"merge", c, "weight.approx">>] = Get("merge", c, "invf.dict")
            /\ WeightsWritten(c)[<<"merge", c, "text.idx.wgt">>]
                 = [idx |-> Get("merge", c, "text.idx"), docs |-> Get("merge", c, "invf.dict")]
        BY <2>7, <3>1, <3>2, WeightsWrittenAre
      <3> QED
        BY <2>3, <2>4, <3>3
    <2> HIDE DEF files
    <2>10. kinds \subseteq Kinds /\ "merge" \in Places /\ {"text.idx", "invf", "invf.idx", "invf.dict"} \subseteq Kinds \ kinds
      BY DEF Kinds, Places
    <2>11. \A p \in Places, s \in Kinds : <<p, c, s>> \in DOMAIN files <=> p = "merge" /\ s \in kinds
      BY <2>9
    <2>12. /\ \A s \in kinds : Exists("merge", c, s)' /\ Get("merge", c, s)' = files[<<"merge", c, s>>]
           /\ \A s \in Kinds \ kinds : Same("merge", c, s)
      <3>1. fs' = Writes(files)
        BY <2>8 DEF files
      <3> HIDE DEF kinds
      <3>2. \A s \in kinds : Exists("merge", c, s)' /\ Get("merge", c, s)' = files[<<"merge", c, s>>]
        BY <2>10, <2>11, <3>1, WritesFiles
      <3>3. \A s \in Kinds \ kinds : Same("merge", c, s)
        BY <2>10, <2>11, <3>1, WritesFiles
      <3> QED
        BY <3>2, <3>3
    <2>13. \A s \in kinds : About(s, files[<<"merge", c, s>>], old \o new)
      <3>1. About("weight", files[<<"merge", c, "weight">>], old \o new)
        BY <2>9, AboutIs
      <3>2. About("weight.approx", files[<<"merge", c, "weight.approx">>], old \o new)
        BY <2>9, AboutIs
      <3>3. About("text.idx.wgt", files[<<"merge", c, "text.idx.wgt">>], old \o new)
        BY <2>9, AboutIs
      <3> QED
        BY <3>1, <3>2, <3>3
    <2>14. \A s \in kinds : Has("merge", c, s, old \o new)'
      <3>1. ASSUME NEW s, NEW file, Exists("merge", c, s)', Get("merge", c, s)' = file, About(s, file, old \o new)
            PROVE  Has("merge", c, s, old \o new)'
        BY <3>1 DEF Has, About
      <3> QED
        BY <2>12, <2>13, <3>1
    <2>15. \A s \in {"text.idx", "invf", "invf.idx", "invf.dict"} : Has("merge", c, s, old \o new)'
      BY <2>2, <2>10, <2>12, HasSame
    <2>16. ~Skips("old", c)'
      BY <1>9, <2>1 DEF SameAll, Kinds, Skips, Same
    <2>17. InMerge(c, 16, keep, old, new)'
      <3>1. \A s \in Nine : Made(s) < 16 => s \in kinds \cup {"text.idx", "invf", "invf.idx", "invf.dict"}
        BY DEF Nine, Made
      <3> QED
        BY <2>14, <2>15, <2>16, <3>1 DEF InMerge
    <2>18. InOld(c, 16, old, new)'
      <3>1. PICK i \in 0 .. 27, k \in 0 .. 27 : i = 15 /\ k = 16 /\ k = i + 1 /\ i \in 14 .. 27
        OBVIOUS
      <3>2. InOld(c, i, old, new)
        BY <1>11, <3>1 DEF Healthy
      <3>3. SameAll("old", c, Five \ {"text"})
        BY <1>9, Turns DEF SameAll
      <3>4. InOld(c, k, old, new)'
        BY <1>9, <3>1, <3>2, <3>3, OldKept
      <3> QED
        BY <3>1, <3>4
    <2>19. PICK i \in 13 .. 16, k \in 14 .. 17 : i = 15 /\ k = 16 /\ k = i + 1
      OBVIOUS
    <2>20. Placed(c, i, keep, old, new) /\ Healthy(c, i, keep, old, new)
      BY <1>6, <1>11, <2>19
    <2>21. InOld(c, k, old, new)' /\ InMerge(c, k, keep, old, new)'
      BY <2>17, <2>18, <2>19
    <2>22. Placed(c, k, keep, old, new)'
      BY <1>9, <2>19, <2>20, <2>21, ProgramPlaced
    <2> QED
      BY <2>7, <2>19, <2>22
  <1>12. ASSUME Stuck(c, 15, old, new) PROVE Placed(c, 0, keep, old, new)' /\ ~Indexes(c)
    <2>1. ~Indexes(c)
      BY <1>8, <1>12 DEF Stuck, Indexes
    <2>2. PICK i \in 0 .. 27, k \in 0 .. 27 : i = 15 /\ k = 0 /\ k <= 13 /\ k <= 3 /\ k <= 1
      OBVIOUS
    <2>3. SameAll("base", c, Five) /\ SameAll("old", c, Five \ {"text"}) /\ SameAll("new", c, Five)
          /\ Same("base", c, "text.dict") /\ Same("new", c, "text.dict")
      BY <1>9, Turns DEF SameAll, Kinds
    <2>4. Stuck(c, i, old, new) /\ DictPlaced(c, i) /\ InNew(c, i, new)
      BY <1>6, <1>12, <2>2 DEF Placed
    <2>5. Stuck(c, k, old, new)'
      BY <2>2, <2>3, <2>4, StuckKept
    <2>6. DictPlaced(c, k)' /\ InNew(c, k, new)'
      BY <2>2, <2>3, <2>4, DictKept, NewKept
    <2> QED
      BY <2>1, <2>2, <2>5, <2>6 DEF Placed
  <1>13. guess'[c] = keep
    BY <1>3, <1>5
  <1>14. CASE Healthy(c, 15, keep, old, new)
    <2>1. Fresh(c, 16, old, new)'
      BY <1>3, <1>6, FreshLater
    <2> QED
      BY <1>4, <1>11, <1>13, <1>14, <2>1, ShapeNext
  <1>15. CASE Stuck(c, 15, old, new)
    <2>1. PICK i \in 0 .. 27, k \in 0 .. 27 : i = 15 /\ k = 0 /\ ~(k \in 4 .. 6) /\ ~(k >= 4) /\ ~(k >= 7)
      OBVIOUS
    <2>2. Fresh(c, i, old, new) /\ late'[c] \cup ready'[c] = late[c] \cup ready[c] /\ arrived'[c] = arrived[c]
      BY <1>3, <1>6, <2>1
    <2>3. Fresh(c, k, old, new)'
      BY <2>1, <2>2, FreshKept
    <2>4. pc'[c] = k /\ Placed(c, k, keep, old, new)'
      BY <1>4, <1>12, <1>15, <2>1
    <2> QED
      BY <1>13, <2>3, <2>4, ShapeNext
  <1> QED
    BY <1>6, <1>14, <1>15 DEF Placed

\* mg_invf_dict runs only behind a whole merge.
LEMMA InvfDictShape ==
  ASSUME NEW c \in Coll, IInv, NEW old \in Seq(Nat), NEW new \in Seq(Nat), Shape(c, old, new), InvfDict(c)
  PROVE  Shape(c, old, new)'
  <1> DEFINE files == [name \in {<<"merge", c, "invf.dict.blocked">>} |-> Get("merge", c, "invf.idx")]
  <1>1. pc[c] = 16 /\ Checked(c, TRUE) /\ Types
    BY AtStep DEF InvfDict, Unchecked, IInv
  <1>2. pc[c] # 27 /\ pc[c] + 1 = 17
    BY <1>1
  <1>3. pc'[c] = 17 /\ UNCHANGED <<guess, late, ready, arrived>>
    BY <1>1, <1>2, StepOn DEF InvfDict
  <1>4. PICK keep : keep = guess[c]
    OBVIOUS
  <1>5. Fresh(c, 16, old, new) /\ Placed(c, 16, keep, old, new)
    BY <1>1, <1>4 DEF Shape
  <1>6. Healthy(c, 16, keep, old, new)
    BY <1>5 DEF Placed, Stuck
  <1> DEFINE made == {"text.idx", "invf", "invf.idx", "invf.dict", "weight", "weight.approx", "text.idx.wgt"}
  <1>7. (\A s \in made : Has("merge", c, s, old \o new)) /\ ~Skips("old", c)
    <2>1. \A s \in made : s \in Nine /\ Made(s) < 16 /\ 16 <= Back(s)
      BY DEF Nine, Made, Back
    <2> QED
      BY <1>6, <2>1 DEF Healthy, InMerge
  <1>8. Exists("merge", c, "invf.dict") /\ Exists("merge", c, "invf.idx") /\ Get("merge", c, "invf.idx") = old \o new
    <2>1. \A docs : Built(docs, FALSE)["invf.idx"] = docs
      BY DEF Built
    <2> QED
      BY <1>7, <2>1 DEF Has, About
  <1>9. fs' = Writes(files)
    BY <1>8 DEF InvfDict
  <1>10. /\ \A name : name \in DOMAIN files <=> name = <<"merge", c, "invf.dict.blocked">>
         /\ files[<<"merge", c, "invf.dict.blocked">>] = old \o new
    BY <1>8
  <1>11. "invf.dict.blocked" \in Kinds /\ "merge" \in Places /\ made \subseteq Kinds \ {"invf.dict.blocked"}
    BY DEF Kinds, Places
  <1> HIDE DEF files, made
  <1>12. \A p \in Places, s \in Kinds : <<p, c, s>> \in DOMAIN files <=> p = "merge" /\ s = "invf.dict.blocked"
    BY <1>10
  <1>13. /\ Exists("merge", c, "invf.dict.blocked")' /\ Get("merge", c, "invf.dict.blocked")' = old \o new
         /\ \A p \in Places, s \in Kinds : p # "merge" \/ s # "invf.dict.blocked" => Same(p, c, s)
    <2>1. <<"merge", c, "invf.dict.blocked">> \in DOMAIN files
      BY <1>10
    <2>2. Exists("merge", c, "invf.dict.blocked")' /\ Get("merge", c, "invf.dict.blocked")' = old \o new
      BY <1>9, <1>10, <1>11, <2>1, WritesFiles
    <2>3. \A p \in Places, s \in Kinds : p # "merge" \/ s # "invf.dict.blocked" => Same(p, c, s)
      BY <1>9, <1>12, WritesFiles
    <2> QED
      BY <2>2, <2>3
  <1>14. Has("merge", c, "invf.dict.blocked", old \o new)'
    <2>1. \A docs : Built(docs, FALSE)["invf.dict.blocked"] = docs
      BY DEF Built
    <2> QED
      BY <1>13, <2>1 DEF Has, About
  <1>15. \A s \in made : Has("merge", c, s, old \o new)'
    BY <1>7, <1>11, <1>13, HasSame
  <1>16. (\A p \in {"base", "new"} : SameAll(p, c, Kinds)) /\ SameAll("old", c, Kinds \ {"text"})
         /\ Same("old", c, "text") /\ Same("old", c, "invf")
    BY <1>13 DEF SameAll, Places, Kinds
  <1>17. InMerge(c, 17, keep, old, new)'
    <2>1. \A s \in Nine : Made(s) < 17 => s \in made \cup {"invf.dict.blocked"}
      BY DEF Nine, Made, made
    <2>2. ~Skips("old", c)'
      BY <1>7, <1>16 DEF Skips, Same
    <2> QED
      BY <1>14, <1>15, <2>1, <2>2 DEF InMerge
  <1>18. InOld(c, 17, old, new)'
    <2>1. PICK i \in 0 .. 27, k \in 0 .. 27 : i = 16 /\ k = 17 /\ k = i + 1 /\ i \in 14 .. 27
      OBVIOUS
    <2>2. InOld(c, i, old, new)
      BY <1>6, <2>1 DEF Healthy
    <2>3. SameAll("old", c, Five \ {"text"})
      BY <1>16, Turns DEF SameAll
    <2>4. InOld(c, k, old, new)'
      BY <1>16, <2>1, <2>2, <2>3, OldKept
    <2> QED
      BY <2>1, <2>4
  <1>19. PICK i \in 13 .. 16, k \in 14 .. 17 : i = 16 /\ k = 17 /\ k = i + 1
    OBVIOUS
  <1>20. Placed(c, i, keep, old, new) /\ Healthy(c, i, keep, old, new)
    BY <1>5, <1>6, <1>19
  <1>21. InOld(c, k, old, new)' /\ InMerge(c, k, keep, old, new)'
    BY <1>17, <1>18, <1>19
  <1>22. Placed(c, k, keep, old, new)'
    BY <1>16, <1>19, <1>20, <1>21, ProgramPlaced
  <1>23. Placed(c, 17, keep, old, new)'
    BY <1>19, <1>22
  <1>24. Fresh(c, 17, old, new)'
    BY <1>3, <1>5, FreshLater
  <1>25. guess'[c] = keep
    BY <1>3, <1>4
  <1> QED
    BY <1>3, <1>23, <1>24, <1>25, ShapeNext

\* The end of a merge: MERGE is emptied, and the old documents are those of both.
LEMMA RemoveAllShape ==
  ASSUME NEW c \in Coll, IInv, NEW old \in Seq(Nat), NEW new \in Seq(Nat), Shape(c, old, new), RemoveAll(c)
  PROVE  Shape(c, old \o new, new)'
  <1>1. pc[c] = 27 /\ pc'[c] = 0 /\ UNCHANGED <<guess, late, ready, arrived>>
    BY RemoveAllLocal DEF RemoveAll, IInv, Types
  <1>2. PICK keep : keep = guess[c]
    OBVIOUS
  <1>3. Fresh(c, 27, old, new) /\ DictPlaced(c, 27) /\ Healthy(c, 27, keep, old, new)
    BY <1>1, <1>2 DEF Shape, Placed, Stuck
  <1>4. \A s \in Kinds : Same("base", c, s)
    BY DEF RemoveAll, Same, Exists, Get
  <1>5. \A p \in Places \ {"base"}, s \in Kinds : ~Exists(p, c, s)'
    BY DEF RemoveAll, Exists
  <1>6. \A s \in Nine : Has("base", c, s, old \o new)'
    <2>1. \A s \in Nine : Back(s) \in 17 .. 26
      BY Turns
    <2>2. ASSUME NEW s \in Nine PROVE Has("base", c, s, old \o new)
      <3>0. Back(s) \in 17 .. 26
        BY <2>1
      <3>1. 27 > Back(s)
        BY <3>0
      <3> QED
        BY <1>3, <3>1 DEF Healthy, AtHome
    <2> QED
      BY <1>4, <2>2, HasSame, Turns DEF Places
  <1>7. AtHome(c, 0, old \o new, new)'
    <2>1. \A s \in Nine : Away(s) \in 7 .. 26 /\ Back(s) \in 17 .. 26
      BY Turns
    <2>2. ASSUME NEW s \in Nine PROVE ~(Away(s) < 0) /\ ~(0 > Back(s))
      <3>1. Away(s) \in 7 .. 26 /\ Back(s) \in 17 .. 26
        BY <2>1
      <3> QED
        BY <3>1
    <2> QED
      BY <1>6, <2>2 DEF AtHome
  <1>8. InOld(c, 0, old \o new, new)'
    <2>1. \A s \in Five : Away(s) \in 7 .. 11 /\ s \in Kinds
      BY Turns
    <2>2. "old" \in Places \ {"base"}
      BY DEF Places
    <2> QED
      BY <1>5, <2>1, <2>2 DEF InOld
  <1>9. InMerge(c, 0, keep, old \o new, new)'
    <2>1. \A s \in Nine : Made(s) \in 13 .. 27
      BY Turns
    <2>2. ASSUME NEW s \in Nine PROVE ~(Made(s) < 0)
      <3>1. Made(s) \in 13 .. 27
        BY <2>1
      <3> QED
        BY <3>1
    <2> QED
      BY <2>2 DEF InMerge
  <1>10. DictPlaced(c, 0)' /\ InNew(c, 0, new)'
    <2>1. Exists("base", c, "text.dict")' /\ ~Exists("new", c, "text.dict")'
      BY <1>3, <1>4, <1>5 DEF DictPlaced, Same, Kinds, Places
    <2> QED
      BY <2>1 DEF DictPlaced, InNew
  <1>11. PICK both : both = old \o new
    OBVIOUS
  <1>12. Placed(c, 0, keep, both, new)'
    BY <1>7, <1>8, <1>9, <1>10, <1>11 DEF Placed, Healthy
  <1>13. Fresh(c, 0, both, new)'
    BY <1>1, <1>3, <1>11, RemoveFresh
  <1>14. guess'[c] = keep
    BY <1>1, <1>2
  <1>15. Shape(c, both, new)'
    BY <1>1, <1>12, <1>13, <1>14, ShapeNext
  <1> QED
    BY <1>11, <1>15

----------------------------------------------------------------------------
(* All steps.                                                              *)

\* mgbuild leaves files of one generation.
LEMMA InitWhole == Init => \A c \in Coll : Whole(c)
  <1> SUFFICES ASSUME Init, NEW c \in Coll PROVE Whole(c)
    OBVIOUS
  <1>1. PICK rebuilt \in Rebuilt : fs = BuiltFiles(rebuilt)
    BY DEF Init
  <1> DEFINE suffixes == DOMAIN Built(<<1>>, FALSE)
             names == {<<"base", d, s>> : d \in Coll, s \in suffixes}
             File(name) == Built(<<1>>, name[2] \in rebuilt)[name[3]]
  <1>2. fs = [name \in names |-> File(name)]
    BY <1>1 DEF BuiltFiles
  <1>3. names = {<<"base", d, s>> : d \in Coll, s \in Kinds \ {"invf.dict.hash"}}
    <2>1. suffixes = Kinds \ {"invf.dict.hash"}
      BY DEF Built, Kinds
    <2> HIDE DEF suffixes
    <2> QED
      BY <2>1
  <1> HIDE DEF names, File
  <1>4. \A p \in Places, s \in Kinds : Exists(p, c, s) <=> p = "base" /\ s # "invf.dict.hash"
    BY <1>2, <1>3 DEF Exists
  <1>5. \A s \in Kinds \ {"invf.dict.hash"} : Get("base", c, s) = Built(<<1>>, c \in rebuilt)[s]
    <2> TAKE s \in Kinds \ {"invf.dict.hash"}
    <2>1. <<"base", c, s>> \in names
      BY <1>3
    <2> QED
      BY <1>2, <2>1 DEF Get, File
  <1>6. ASSUME NEW s \in Nine PROVE Has("base", c, s, <<1>>)
    <2>1. s \in Kinds \ {"invf.dict.hash"} /\ "base" \in Places
      BY DEF Nine, Kinds, Places
    <2>2. \A skips \in BOOLEAN : About(s, Built(<<1>>, skips)[s], <<1>>)
      BY DEF About, Built, Nine
    <2>3. (c \in rebuilt) \in BOOLEAN
      OBVIOUS
    <2>4. About(s, Get("base", c, s), <<1>>)
      BY <1>5, <2>1, <2>2, <2>3
    <2> QED
      BY <1>4, <2>1, <2>4 DEF Has
  <1>7. AtHome(c, 0, <<1>>, <<>>)
    <2>1. \A s \in Nine : Away(s) \in 7 .. 26 /\ Back(s) \in 17 .. 26
      BY Turns
    <2>2. ASSUME NEW s \in Nine PROVE ~(Away(s) < 0) /\ ~(0 > Back(s))
      <3>1. Away(s) \in 7 .. 26 /\ Back(s) \in 17 .. 26
        BY <2>1
      <3> QED
        BY <3>1
    <2> QED
      BY <1>6, <2>2 DEF AtHome
  <1>8. InOld(c, 0, <<1>>, <<>>)
    <2>1. \A s \in Five : Away(s) \in 7 .. 11 /\ s \in Kinds
      BY Turns
    <2>2. \A s \in Five : ~Exists("old", c, s)
      BY <1>4, <2>1 DEF Places
    <2> QED
      BY <2>1, <2>2 DEF InOld
  <1>9. InMerge(c, 0, TRUE, <<1>>, <<>>)
    <2>1. \A s \in Nine : Made(s) \in 13 .. 27
      BY Turns
    <2>2. ASSUME NEW s \in Nine PROVE ~(Made(s) < 0)
      <3>1. Made(s) \in 13 .. 27
        BY <2>1
      <3> QED
        BY <3>1
    <2> QED
      BY <2>2 DEF InMerge
  <1>10. DictPlaced(c, 0) /\ InNew(c, 0, <<>>)
    <2>1. Exists("base", c, "text.dict") /\ ~Exists("new", c, "text.dict")
      BY <1>4 DEF Places, Kinds
    <2> QED
      BY <2>1 DEF DictPlaced, InNew
  <1>11. pc[c] = 0 /\ guess[c] = TRUE /\ late[c] = {} /\ ready[c] = {} /\ arrived[c] = 1
    BY DEF Init
  <1>12. Fresh(c, 0, <<1>>, <<>>)
    <2>1. Once(<<1>>)
      BY DEF Once
    <2>2. Range(<<1>>) = {1}
      BY DEF Range
    <2>3. <<1>> # <<>>
      OBVIOUS
    <2> QED
      BY <1>11, <2>1, <2>2, <2>3 DEF Fresh
  <1>13. Shape(c, <<1>>, <<>>)
    BY <1>7, <1>8, <1>9, <1>10, <1>11, <1>12 DEF Shape, Placed, Healthy
  <1>14. <<1>> \in Seq(Nat) /\ <<>> \in Seq(Nat)
    OBVIOUS
  <1> QED
    BY <1>13, <1>14 DEF Whole

Acts(c) ==
  \/ Start(c) \/ Move(c) \/ GetInit(c) \/ PassOne(c) \/ PerfHashBuild(c) \/ PassTwo(c)
  \/ Cleanup(c) \/ TextMerge(c) \/ InvfMerge(c) \/ WeightsBuild(c) \/ InvfDict(c)
  \/ RemoveAll(c) \/ Arrive(c) \/ Interrupt(c)

\* A step of one collection's script leaves the files of the others alone: what rm -f MERGE/*
\* removes is its own, as no other merge is under way.
LEMMA ActsOwn ==
  ASSUME NEW c \in Coll, IInv, Acts(c)
  PROVE  Own(c)
  <1>1. Types /\ FilesOK /\ Numbered(c)
    BY DEF IInv
  <1>2. UNCHANGED fs => Own(c)
    BY <1>1, NoFileChanged
  <1>3. Start(c) \/ GetInit(c) \/ Cleanup(c) \/ Arrive(c) \/ Interrupt(c) => UNCHANGED fs
    BY DEF Start, GetInit, Cleanup, Arrive, Interrupt
  <1>4. PassOne(c) \/ PerfHashBuild(c) \/ InvfMerge(c) \/ InvfDict(c) \/ WeightsBuild(c) => Own(c)
    BY <1>1, PassOneFiles, PerfHashBuildFiles, InvfMergeFiles, InvfDictFiles, WeightsBuildFiles
  <1>5. PassTwo(c) \/ TextMerge(c) => Own(c)
    BY <1>1, PassTwoFiles, TextMergeFiles
  <1>6. Move(c) \/ RemoveAll(c) => Own(c)
    BY MoveLocal, RemoveAllLocal
  <1> QED
    BY <1>2, <1>3, <1>4, <1>5, <1>6 DEF Acts

\* A step of one collection's script changes no file of another's.
LEMMA ActsOthers ==
  ASSUME NEW c \in Coll, IInv, Acts(c), NEW d \in Coll, d # c
  PROVE  /\ \A p \in Places : SameAll(p, d, Kinds)
         /\ pc'[d] = pc[d] /\ guess'[d] = guess[d] /\ late'[d] = late[d] /\ ready'[d] = ready[d]
         /\ arrived'[d] = arrived[d]
  <1>1. \A p \in Places : SameAll(p, d, Kinds)
    BY ActsOwn DEF Own, SameAll
  <1>2. Types
    BY DEF IInv
  <1>3. \A ok : Checked(c, ok) => pc'[d] = pc[d]
    BY <1>2 DEF Checked, Types
  <1>4. CASE Start(c) \/ Arrive(c) \/ Interrupt(c)
    BY <1>1, <1>2, <1>4 DEF Start, Arrive, Interrupt, Types
  <1>5. CASE GetInit(c) \/ Cleanup(c)
    <2>1. \E ok : Checked(c, ok)
      BY <1>5 DEF GetInit, Cleanup, Unchecked
    <2>2. pc'[d] = pc[d]
      BY <1>3, <2>1
    <2> QED
      BY <1>1, <1>2, <1>5, <2>2 DEF GetInit, Cleanup, Types
  <1>6. CASE Move(c) \/ PassOne(c) \/ PerfHashBuild(c) \/ PassTwo(c) \/ TextMerge(c) \/ InvfMerge(c)
             \/ WeightsBuild(c) \/ InvfDict(c) \/ RemoveAll(c)
    <2>1. UNCHANGED <<guess, late, ready, arrived>>
      BY <1>6 DEF Move, PassOne, PerfHashBuild, PassTwo, TextMerge, InvfMerge, WeightsBuild, InvfDict, RemoveAll
    <2>2. Move(c) \/ TextMerge(c) \/ InvfMerge(c) \/ InvfDict(c) \/ RemoveAll(c) => Checked(c, TRUE)
      BY DEF Move, TextMerge, InvfMerge, InvfDict, RemoveAll, Unchecked
    <2>3. PassOne(c) \/ PerfHashBuild(c) => \E ok : Checked(c, ok)
      BY DEF PassOne, PerfHashBuild
    <2>4. PassTwo(c) => \E ok : Checked(c, ok)
      BY DEF PassTwo
    <2>5. WeightsBuild(c) => \E ok : Checked(c, ok)
      BY DEF WeightsBuild
    <2>6. \E ok : Checked(c, ok)
      BY <1>6, <2>2, <2>3, <2>4, <2>5
    <2>7. pc'[d] = pc[d]
      BY <1>3, <2>6
    <2> QED
      BY <1>1, <2>1, <2>7
  <1> QED
    BY <1>4, <1>5, <1>6 DEF Acts

\* Until a merge ends its collection stands for the same old documents.
LEMMA ActsShape ==
  ASSUME NEW c \in Coll, Careful, IInv, Acts(c), NEW old \in Seq(Nat), NEW new \in Seq(Nat), Shape(c, old, new)
  PROVE  \/ \E new2 \in Seq(Nat) : Shape(c, old, new2)'
         \/ RemoveAll(c) /\ Shape(c, old \o new, new)'
  <1>1. CASE Shape(c, old, new)'
    BY <1>1
  <1>2. CASE PassOne(c) /\ ~Shape(c, old, new)'
    <2>1. Text(c)' = Text(c) /\ Shape(c, old, Text(c))'
      BY <1>2, PassOneShape
    <2>2. Text(c) \in Seq(Nat)
      BY TextRange DEF IInv
    <2>3. PICK new2 \in Seq(Nat) : new2 = Text(c)
      BY <2>2
    <2>4. Shape(c, old, new2)'
      BY <2>1, <2>3 DEF Shape, Fresh, Placed, InNew, DictPlaced, Healthy, Stuck, AtHome, InOld, InMerge
    <2> QED
      BY <2>4
  <1>3. CASE RemoveAll(c)
    BY <1>3, RemoveAllShape
  <1>4. Start(c) \/ GetInit(c) \/ Cleanup(c) \/ Arrive(c) \/ Interrupt(c) => Shape(c, old, new)'
    BY StartShape, GetInitShape, CleanupShape, ArriveShape, InterruptShape
  <1>5. Move(c) \/ PerfHashBuild(c) \/ PassTwo(c) => Shape(c, old, new)'
    BY MoveShape, PerfHashBuildShape, PassTwoShape
  <1>6. TextMerge(c) \/ InvfMerge(c) \/ WeightsBuild(c) \/ InvfDict(c) => Shape(c, old, new)'
    BY TextMergeShape, InvfMergeShape, WeightsBuildShape, InvfDictShape
  <1> QED
    BY <1>1, <1>2, <1>3, <1>4, <1>5, <1>6 DEF Acts

LEMMA StepActs == [Next]_vars => UNCHANGED vars \/ \E c \in Coll : Acts(c)
  BY DEF Next, Acts

\* Every step keeps every collection whole.
LEMMA StepWhole ==
  ASSUME Careful, IInv, \A c \in Coll : Whole(c), [Next]_vars
  PROVE  (\A c \in Coll : Whole(c))'
  <1>1. CASE UNCHANGED vars
    <2> SUFFICES ASSUME NEW d \in Coll PROVE Whole(d)'
      OBVIOUS
    <2>1. \A p \in Places : SameAll(p, d, Kinds)
      BY <1>1, FilesSame DEF SameAll, vars
    <2> QED
      BY <1>1, <2>1, OthersWhole DEF IInv, vars
  <1>2. ASSUME NEW c \in Coll, Acts(c), NEW d \in Coll PROVE Whole(d)'
    <2>1. CASE d = c
      <3>1. PICK old \in Seq(Nat), new \in Seq(Nat) : Shape(c, old, new)
        BY DEF Whole
      <3>2. old \o new \in Seq(Nat)
        BY Joined
      <3>3. \/ \E new2 \in Seq(Nat) : Shape(c, old, new2)'
            \/ Shape(c, old \o new, new)'
        BY <1>2, <3>1, ActsShape
      <3> QED
        BY <2>1, <3>2, <3>3 DEF Whole
    <2>2. CASE d # c
      BY <1>2, <2>2, ActsOthers, OthersWhole DEF IInv
    <2> QED
      BY <2>1, <2>2
  <1> QED
    BY <1>1, <1>2, StepActs

----------------------------------------------------------------------------
(* What follows.                                                           *)

\* The step that brings a file back is the only one.
LEMMA BackAtIs == BackAt("invf") = 20 /\ BackAt("text.idx.wgt") = 26
  <1> DEFINE brings(i, s) == Script[i].do = "mv" /\ Script[i].to = "base" /\ Script[i].suffix = s
  <1>1. DOMAIN Script = 1 .. 27
    BY ScriptSteps
  <1>2. \A from, to, s :
          Mv(from, to, s).do = "mv" /\ Mv(from, to, s).from = from /\ Mv(from, to, s).to = to /\ Mv(from, to, s).suffix = s
    BY DEF Mv
  <1>3. ASSUME NEW i \in 1 .. 27, NEW s \in {"invf", "text.idx.wgt"}, brings(i, s) PROVE i = Back(s)
    <2>1. i \in {1} \cup (7 .. 11) \cup {12} \cup {19} \cup ((17 .. 26) \ {19})
      BY <1>3, StepOf
    <2>2. i # 1 /\ i # 12 /\ i # 19
      BY <1>2, <1>3, DictSteps, WeightStep
    <2>3. i \notin 7 .. 11
      BY <1>2, <1>3, AwaySteps
    <2>4. i \in 17 .. 26 /\ i # 19
      BY <2>1, <2>2, <2>3
    <2>5. PICK t \in Nine : /\ Script[i] = Mv(IF t = "text" THEN "old" ELSE "merge", "base", t)
                            /\ Back(t) = i
      BY <2>4, BackSteps
    <2>6. t = s
      BY <1>2, <1>3, <2>5
    <2> QED
      BY <2>5, <2>6
  <1>4. Back("invf") = 20 /\ Back("text.idx.wgt") = 26
    BY DEF Back
  <1>5. brings(20, "invf") /\ brings(26, "text.idx.wgt")
    <2>1. Script[20] = MoveBack[4] /\ Script[26] = MoveBack[10]
      BY ScriptBack
    <2> QED
      BY <1>2, <2>1, MoveBackSteps
  <1> HIDE DEF brings
  <1>6. BackAt("invf") = 20
    <2>1. BackAt("invf") = CHOOSE i \in 1 .. 27 : brings(i, "invf")
      BY <1>1 DEF BackAt, brings
    <2> QED
      BY <1>3, <1>4, <1>5, <2>1
  <1>7. BackAt("text.idx.wgt") = 26
    <2>1. BackAt("text.idx.wgt") = CHOOSE i \in 1 .. 27 : brings(i, "text.idx.wgt")
      BY <1>1 DEF BackAt, brings
    <2> QED
      BY <1>3, <1>4, <1>5, <2>1
  <1> QED
    BY <1>6, <1>7

\* FilesAgree, ServedWhole and Held follow from it.
LEMMA WholeAgrees == IInv /\ (\A c \in Coll : Whole(c)) => FilesAgree
  <1> SUFFICES ASSUME IInv, NEW c \in Coll, Whole(c), pc[c] \in 0 .. 6,
                      ~(Exists("old", c, "invf") /\ Get("old", c, "invf").skips)
               PROVE  /\ Exists("base", c, "invf") /\ Agree(c, Get("base", c, "invf").docs)
                      /\ Exists("base", c, "text.dict") # Exists("new", c, "text.dict")
    BY FirstPhaseIs DEF FilesAgree
  <1>1. PICK old \in Seq(Nat), new \in Seq(Nat) : Shape(c, old, new)
    BY DEF Whole
  <1>2. PICK k \in 0 .. 6 : k = pc[c]
    OBVIOUS
  <1>3. DictPlaced(c, k) /\ AtHome(c, k, old, new)
    BY <1>1, <1>2 DEF Shape, Placed, Healthy, Stuck, Skips
  <1>4. ASSUME NEW s \in Nine PROVE Has("base", c, s, old)
    <2>1. Away(s) \in 7 .. 26
      BY Turns
    <2>2. \A a \in 7 .. 26 : k <= a
      BY <1>2
    <2>3. k <= Away(s)
      BY <2>1, <2>2
    <2> QED
      BY <1>3, <2>3 DEF AtHome
  <1>5. Exists("base", c, "invf") /\ Get("base", c, "invf").docs = old
    BY <1>4 DEF Nine, Has, About
  <1>6. DOMAIN Built(old, FALSE) \ {"text.dict"} = Nine /\ Built(old, FALSE)["invf"].docs = old
    BY DEF Built, Nine
  <1>7. Agree(c, old)
    BY <1>4, <1>6 DEF Agree, Has, About
  <1>8. Exists("base", c, "text.dict") # Exists("new", c, "text.dict")
    BY <1>3 DEF DictPlaced, Exists
  <1> QED
    BY <1>5, <1>7, <1>8

LEMMA WholeServed == IInv /\ (\A c \in Coll : Whole(c)) => ServedWhole
  <1> SUFFICES ASSUME IInv, NEW c \in Coll, Whole(c), Opens(c), pc[c] \notin 21 .. 26
               PROVE  LET docs == Get("base", c, "invf").docs
                      IN /\ Get("base", c, "text").docs = docs
                         /\ Get("base", c, "invf.dict.blocked") = docs
                         /\ Exists("base", c, "text.idx.wgt") =>
                              Get("base", c, "text.idx.wgt")
                                = [idx |-> [n |-> Len(docs), offs |-> Offsets(Len(docs))], docs |-> docs]
    BY BackAtIs DEF ServedWhole
  <1>1. PICK old \in Seq(Nat), new \in Seq(Nat) : Shape(c, old, new)
    BY DEF Whole
  <1>2. PICK k \in 0 .. 27 : k = pc[c]
    BY DEF IInv, Types
  <1>3. /\ Exists("base", c, "text") /\ Exists("base", c, "text.dict") /\ Exists("base", c, "invf")
        /\ Exists("base", c, "invf.dict.blocked")
    BY DEF Opens
  <1>4. DictPlaced(c, k) /\ AtHome(c, k, old, new)
    BY <1>1, <1>2, <1>3 DEF Shape, Placed, Healthy, Stuck, Five
  <1>5. k \notin 2 .. 19
    BY <1>3, <1>4 DEF DictPlaced
  <1>6. k # 20
    <2>1. "invf" \in Nine /\ Away("invf") = 9 /\ Back("invf") = 20
      BY DEF Nine, Away, Back
    <2>2. Away("invf") < k /\ k <= Back("invf") => ~Exists("base", c, "invf")
      BY <1>4, <2>1 DEF AtHome
    <2> QED
      BY <1>3, <2>1, <2>2
  <1>7. k <= 1 \/ k = 27
    <2>1. k \notin 21 .. 26 /\ k \in 0 .. 27
      BY <1>2
    <2> QED
      BY <1>5, <1>6, <2>1
  <1>8. \E docs \in {old, old \o new} : \A s \in Nine : Has("base", c, s, docs)
    <2>1. ASSUME NEW s \in Nine
          PROVE  (k <= 1 => Has("base", c, s, old)) /\ (k = 27 => Has("base", c, s, old \o new))
      <3>1. Away(s) \in 7 .. 26 /\ Back(s) \in 17 .. 26
        BY Turns
      <3>2. \A a \in 7 .. 26, b \in 17 .. 26 : (k <= 1 => k <= a) /\ (k = 27 => k > b)
        <4>1. k \in Int
          BY <1>2
        <4> TAKE a \in 7 .. 26, b \in 17 .. 26
        <4>2. k <= 1 => k <= a
          BY <4>1
        <4>3. k = 27 => k > b
          OBVIOUS
        <4> QED
          BY <4>2, <4>3
      <3>3. (k <= 1 => k <= Away(s)) /\ (k = 27 => k > Back(s))
        BY <3>1, <3>2
      <3> QED
        BY <1>4, <3>3 DEF AtHome
    <2> QED
      BY <1>7, <2>1
  <1>9. PICK docs : \A s \in Nine : Has("base", c, s, docs)
    BY <1>8
  <1>10. /\ Get("base", c, "invf").docs = docs
         /\ Get("base", c, "text") = [n |-> Len(docs), docs |-> docs]
         /\ Get("base", c, "invf.dict.blocked") = docs
         /\ Get("base", c, "text.idx.wgt")
              = [idx |-> [n |-> Len(docs), offs |-> Offsets(Len(docs))], docs |-> docs]
    <2>1. /\ Built(docs, FALSE)["text"] = [n |-> Len(docs), docs |-> docs]
          /\ Built(docs, FALSE)["invf.dict.blocked"] = docs
          /\ Built(docs, FALSE)["text.idx.wgt"]
               = [idx |-> [n |-> Len(docs), offs |-> Offsets(Len(docs))], docs |-> docs]
      BY DEF Built
    <2> QED
      BY <1>9, <2>1 DEF Nine, Has, About
  <1> QED
    BY <1>10

\* The text of a collection never loses a document.
LEMMA HomeStays ==
  ASSUME NEW c \in Coll, TextPlaced(c), Same("base", c, "text"), Same("old", c, "text")
  PROVE  TextAt(Home(c), c)' = TextAt(Home(c), c)
  BY DEF TextPlaced, Same, Home, TextAt

LEMMA HomeMoved ==
  ASSUME NEW c \in Coll, IInv, Move(c)
  PROVE  TextAt(Home(c), c)' = TextAt(Home(c), c)
  <1> DEFINE step == Script[pc[c]]
  <1>1. TextPlaced(c) /\ pc[c] \in 1 .. 26
    BY MoveLocal DEF IInv
  <1>2. step.do = "mv" /\ Moved(<<step.from, c, step.suffix>>, <<step.to, c, step.suffix>>)
    BY DEF Move, Does, Moved
  <1>3. step.from \in Places /\ step.to \in Places /\ step.suffix \in Kinds
    BY <1>1, <1>2, Moves
  <1>4. \A from, to, suffix :
          Mv(from, to, suffix).from = from /\ Mv(from, to, suffix).to = to /\ Mv(from, to, suffix).suffix = suffix
    BY DEF Mv
  <1>5. "text" \in Kinds /\ "base" \in Places /\ "old" \in Places
    BY DEF Kinds, Places
  <1>6. CASE pc[c] = 7
    <2>1. Moved(<<"base", c, "text">>, <<"old", c, "text">>)
      BY <1>1, <1>2, <1>4, <1>6, Moves
    <2>2. /\ Exists("base", c, "text") => /\ Exists("old", c, "text")' /\ ~Exists("base", c, "text")'
                                          /\ Get("old", c, "text")' = Get("base", c, "text")
          /\ ~Exists("base", c, "text") => Same("base", c, "text") /\ Same("old", c, "text")
      BY <1>5, <2>1, MoveFile
    <2>3. CASE Exists("base", c, "text")
      BY <2>2, <2>3 DEF Home, TextAt
    <2>4. CASE ~Exists("base", c, "text")
      BY <1>1, <2>2, <2>4, HomeStays
    <2> QED
      BY <2>3, <2>4
  <1>7. CASE pc[c] = 17
    <2>1. Moved(<<"old", c, "text">>, <<"base", c, "text">>)
      BY <1>1, <1>2, <1>4, <1>7, Moves
    <2>2. Exists("old", c, "text") => /\ Exists("base", c, "text")'
                                      /\ Get("base", c, "text")' = Get("old", c, "text")
      BY <1>5, <2>1, MoveFile
    <2>3. Exists("old", c, "text") /\ ~Exists("base", c, "text")
      BY <1>1, <1>7 DEF TextPlaced
    <2> QED
      BY <2>2, <2>3 DEF Home, TextAt
  <1>8. CASE pc[c] \notin {7, 17}
    <2>1. step.suffix # "text"
      <3>1. pc[c] = 8 => step.suffix = "text.idx"
        BY <1>1, <1>2, <1>4, Moves
      <3>2. pc[c] = 18 => step.suffix = "text.idx"
        BY <1>1, <1>2, <1>4, Moves
      <3>3. pc[c] \notin {7, 8, 17, 18} => step.suffix \notin {"text", "text.idx"}
        BY <1>1, <1>2, Moves
      <3> QED
        BY <1>8, <3>1, <3>2, <3>3
    <2>2. Same("base", c, "text") /\ Same("old", c, "text")
      <3>1. \A p \in {"base", "old"} : /\ <<p, c, "text">> # <<step.from, c, step.suffix>>
                                       /\ <<p, c, "text">> # <<step.to, c, step.suffix>>
        BY <2>1
      <3> HIDE DEF step
      <3> QED
        BY <1>2, <3>1 DEF Moved, Same, Exists, Get
    <2> QED
      BY <1>1, <2>2, HomeStays
  <1> QED
    BY <1>6, <1>7, <1>8

\* The text of a collection that its script works on only grows.
LEMMA HomeGrows ==
  ASSUME NEW c \in Coll, IInv, Acts(c), NEW d \in Coll
  PROVE  TextAt(Home(d), d) \subseteq TextAt(Home(d), d)'
  <1>1. TextPlaced(c) /\ TextPlaced(d) /\ FilesOK /\ Types /\ Numbered(c)
    BY DEF IInv
  <1>2. CASE d # c
    <2>1. Same("base", d, "text") /\ Same("old", d, "text")
      BY <1>2, ActsOwn DEF Own, Places, Kinds
    <2> QED
      BY <1>1, <2>1, HomeStays
  <1> DEFINE Stays == Same("base", c, "text") /\ Same("old", c, "text")
  <1>3. Stays => TextAt(Home(c), c) \subseteq TextAt(Home(c), c)'
    BY <1>1, HomeStays
  <1>4. Start(c) \/ GetInit(c) \/ Cleanup(c) \/ Arrive(c) \/ Interrupt(c) => Stays
    <2>1. UNCHANGED fs => Stays
      BY FilesSame DEF Places, Kinds
    <2> QED
      BY <2>1 DEF Start, GetInit, Cleanup, Arrive, Interrupt
  <1>5. TextsKept => Stays
    BY DEF TextsKept, TextKinds, Places
  <1>6. PassOne(c) \/ PerfHashBuild(c) \/ InvfMerge(c) \/ InvfDict(c) \/ WeightsBuild(c) => Stays
    BY <1>1, <1>5, PassOneFiles, PerfHashBuildFiles, InvfMergeFiles, InvfDictFiles, WeightsBuildFiles
  <1>7. PassTwo(c) => Stays
    <2>1. UNCHANGED fs => Stays
      BY FilesSame DEF Places, Kinds
    <2>2. (\A p \in Places \ {"new"}, s \in TextKinds : Same(p, c, s)) => Stays
      BY DEF Places, TextKinds
    <2> QED
      BY <1>1, <2>1, <2>2, PassTwoFiles
  <1>8. TextMerge(c) => TextAt(Home(c), c) \subseteq TextAt(Home(c), c)'
    <2> SUFFICES ASSUME TextMerge(c) PROVE TextAt(Home(c), c) \subseteq TextAt(Home(c), c)'
      OBVIOUS
    <2>1. pc[c] = 13 /\ TextAt("old", c)' = TextAt("old", c) \cup TextAt("new", c)
      BY TextMergeFiles
    <2>2. Same("base", c, "text")
      BY TextMergeFiles DEF Places, TextKinds
    <2>3. ~Exists("base", c, "text") /\ ~Exists("base", c, "text")'
      BY <1>1, <2>1, <2>2 DEF TextPlaced, Same
    <2>4. Home(c) = "old" /\ Home(c)' = "old"
      BY <2>3 DEF Home
    <2> QED
      BY <2>1, <2>4 DEF TextAt
  <1>9. RemoveAll(c) => TextAt(Home(c), c) \subseteq TextAt(Home(c), c)'
    <2> SUFFICES ASSUME RemoveAll(c) PROVE TextAt(Home(c), c) \subseteq TextAt(Home(c), c)'
      OBVIOUS
    <2>1. pc[c] = 27
      BY RemoveAllLocal
    <2>2. Same("base", c, "text")
      BY DEF RemoveAll, Same, Exists, Get
    <2>3. Exists("base", c, "text") /\ Exists("base", c, "text")'
      BY <1>1, <2>1, <2>2 DEF TextPlaced, Same
    <2> QED
      BY <2>2, <2>3 DEF Home, TextAt, Same
  <1>10. Move(c) => TextAt(Home(c), c) \subseteq TextAt(Home(c), c)'
    BY HomeMoved
  <1> HIDE DEF Stays
  <1> QED
    BY <1>2, <1>3, <1>4, <1>6, <1>7, <1>8, <1>9, <1>10 DEF Acts

\* A collection's text can be read at every moment: it is in one place and so is its dictionary.
LEMMA StepKeepsHeld ==
  ASSUME IInv, \A c \in Coll : Whole(c), IInv', (\A c \in Coll : Whole(c))', [Next]_vars
  PROVE  \A c \in Coll : Held(c) \subseteq Held(c)'
  <1> SUFFICES ASSUME NEW d \in Coll PROVE Held(d) \subseteq Held(d)'
    OBVIOUS
  <1>1. CASE UNCHANGED vars
    BY <1>1 DEF vars, Held, Exists, Get
  <1>2. ASSUME NEW c \in Coll, Acts(c) PROVE Held(d) \subseteq Held(d)'
    <2>1. TextAt(Home(d), d) \subseteq TextAt(Home(d), d)'
      BY <1>2, HomeGrows
    <2>2. Held(d) \subseteq TextAt(Home(d), d)
      <3>1. Exists("base", d, "text") <=> ~Exists("old", d, "text")
        BY DEF IInv, TextPlaced
      <3> QED
        BY <3>1 DEF Held, Home, TextAt
    <2>3. (\E p \in {"base", "new"} : Exists(p, d, "text.dict"))'
      <3>1. PICK k \in 0 .. 27 : k = pc'[d]
        BY DEF IInv, Types
      <3>2. DictPlaced(d, k)'
        BY <3>1 DEF Whole, Shape, Placed, DictPlaced
      <3>3. k <= 1 \/ k \in 2 .. 19 \/ k >= 20
        BY <3>1
      <3> QED
        BY <3>2, <3>3 DEF DictPlaced
    <2>4. TextAt(Home(d), d)' \subseteq Held(d)'
      <3>1. Exists("base", d, "text")' <=> ~Exists("old", d, "text")'
        BY DEF IInv, TextPlaced
      <3> QED
        BY <2>3, <3>1 DEF Held, Home, TextAt
    <2> QED
      BY <2>1, <2>2, <2>4
  <1> QED
    BY <1>1, <1>2, StepActs

\* The documents a collection stands for.
OldDocs(c) == Get(IF Exists("old", c, "invf") THEN "old" ELSE "base", c, "invf").docs

\* The documents a collection stands for: the old ones, until its old files are gone.
LEMMA ShapeDocs ==
  \A c \in Coll, old, new \in Seq(Nat) : IInv /\ Shape(c, old, new) => OldDocs(c) = old
  <1> SUFFICES ASSUME NEW c \in Coll, NEW old \in Seq(Nat), NEW new \in Seq(Nat), IInv, Shape(c, old, new)
               PROVE  OldDocs(c) = old
    OBVIOUS
  <1>1. PICK k \in 0 .. 27, keep \in BOOLEAN : k = pc[c] /\ keep = guess[c]
    BY DEF IInv, Types
  <1>2. Placed(c, k, keep, old, new)
    BY <1>1 DEF Shape
  <1>3. CASE Stuck(c, k, old, new)
    BY <1>3 DEF Stuck, Has, About, OldDocs
  <1>4. CASE Healthy(c, k, keep, old, new)
    <2>1. "invf" \in Nine /\ "invf" \in Five /\ Away("invf") = 9 /\ Back("invf") = 20
      BY DEF Nine, Five, Away, Back
    <2>2. CASE k <= 9
      <3>1. Has("base", c, "invf", old) /\ ~Exists("old", c, "invf")
        BY <1>4, <2>1, <2>2 DEF Healthy, AtHome, InOld
      <3> QED
        BY <3>1 DEF Has, About, OldDocs
    <2>3. CASE k > 9
      <3>1. Has("old", c, "invf", old)
        BY <1>4, <2>1, <2>3 DEF Healthy, InOld
      <3> QED
        BY <3>1 DEF Has, About, OldDocs
    <2> QED
      BY <1>1, <2>2, <2>3
  <1> QED
    BY <1>2, <1>3, <1>4 DEF Placed

LEMMA ShapeDocsNext ==
  (\A c \in Coll, old, new \in Seq(Nat) : IInv /\ Shape(c, old, new) => OldDocs(c) = old)'
  BY ShapeDocs, PTL

Docs == [c \in Coll |-> OldDocs(c)]

\* Initial states are initial states of MergedCollection,
LEMMA InitPromise == Init => Promise!Init
  <1> SUFFICES ASSUME Init PROVE Promise!Init
    OBVIOUS
  <1>1. IInv /\ \A c \in Coll : Whole(c)
    BY InitIInv, InitWhole
  <1>2. ASSUME NEW c \in Coll
        PROVE  Docs[c] # <<>> /\ Promise!Distinct(Docs[c])
    <2>1. PICK old \in Seq(Nat), new \in Seq(Nat) : Shape(c, old, new)
      BY <1>1 DEF Whole
    <2>2. old # <<>> /\ Once(old)
      BY <2>1 DEF Shape, Fresh
    <2>3. Docs[c] = old
      BY <1>1, <2>1, ShapeDocs DEF Docs
    <2> QED
      BY <2>2, <2>3 DEF Once, Promise!Distinct
  <1> QED
    BY <1>2 DEF Promise!Init, Docs, OldDocs

LEMMA PrefixKept ==
  ASSUME NEW s \in Seq(Nat), NEW t \in Seq(Nat)
  PROVE  SubSeq(s \o t, 1, Len(s)) = s
  <1> DEFINE st == s \o t
             p == SubSeq(st, 1, Len(s))
  <1>1. st \in Seq(Nat) /\ Len(st) = Len(s) + Len(t) /\ \A i \in 1 .. Len(s) : st[i] = s[i]
    BY Joined
  <1>2. Len(s) \in Nat /\ Len(t) \in Nat
    OBVIOUS
  <1> HIDE DEF st
  <1>3. p \in Seq(Nat) /\ Len(p) = Len(s) /\ \A i \in 1 .. Len(s) : p[i] = st[i]
    <2>1. Len(s) \in 1 - 1 .. Len(st)
      BY <1>1, <1>2
    <2> QED
      BY <1>1, <1>2, <2>1, SubSeqProperties
  <1> HIDE DEF p
  <1>4. \A i \in 1 .. Len(s) : p[i] = s[i]
    BY <1>1, <1>3
  <1>5. p = s
    BY <1>3, <1>4, SeqEqual
  <1> QED
    BY <1>5 DEF p, st

\* A step either leaves the documents of every collection, or ends one merge.
LEMMA StepPromise ==
  ASSUME Careful, IInv, \A c \in Coll : Whole(c), IInv', [Next]_vars
  PROVE  \/ Docs' = Docs
         \/ \E c \in Coll : \E new \in Seq(Nat) :
              /\ new # <<>> /\ Docs[c] \in Seq(Nat) /\ Docs'[c] = Docs[c] \o new
              /\ Once(Docs'[c])
              /\ \A d \in Coll \ {c} : Docs'[d] = Docs[d]
  <1>1. CASE UNCHANGED vars
    BY <1>1 DEF vars, Docs, OldDocs, Get, Exists
  <1>2. ASSUME NEW c \in Coll, Acts(c), Docs' # Docs
        PROVE  \E new \in Seq(Nat) :
                 /\ new # <<>> /\ Docs[c] \in Seq(Nat) /\ Docs'[c] = Docs[c] \o new
                 /\ Once(Docs'[c])
                 /\ \A d \in Coll \ {c} : Docs'[d] = Docs[d]
    <2>1. PICK old \in Seq(Nat), new \in Seq(Nat) : Shape(c, old, new)
      BY DEF Whole
    <2>2. OldDocs(c) = old
      BY <2>1, ShapeDocs
    <2>3. ASSUME NEW d \in Coll \ {c} PROVE OldDocs(d)' = OldDocs(d)
      <3>1. PICK a \in Seq(Nat), b \in Seq(Nat) : Shape(d, a, b)
        BY DEF Whole
      <3>2. OldDocs(d) = a
        BY <3>1, ShapeDocs
      <3>3. Same("old", d, "invf") /\ Same("base", d, "invf")
        BY <1>2, <2>3, ActsOthers DEF SameAll, Places, Kinds
      <3>4. Exists("old", d, "invf") \/ Exists("base", d, "invf")
        <4>1. PICK k \in 0 .. 27, keep \in BOOLEAN : k = pc[d] /\ keep = guess[d]
          BY DEF IInv, Types
        <4>2. Placed(d, k, keep, a, b)
          BY <3>1, <4>1 DEF Shape
        <4>3. "invf" \in Nine /\ "invf" \in Five /\ Away("invf") = 9
          BY DEF Nine, Five, Away
        <4>4. k <= 9 \/ k > 9
          <5>1. k \in Int
            BY <4>1
          <5> QED
            BY <5>1
        <4> QED
          BY <4>2, <4>3, <4>4 DEF Placed, Healthy, Stuck, AtHome, InOld, Has
      <3> QED
        BY <3>3, <3>4 DEF OldDocs, Same
    <2>4. CASE \E new2 \in Seq(Nat) : Shape(c, old, new2)'
      <3>1. PICK new2 \in Seq(Nat) : Shape(c, old, new2)'
        BY <2>4
      <3>2. OldDocs(c)' = old
        BY <3>1, ShapeDocsNext
      <3>3. \A d \in Coll : OldDocs(d)' = OldDocs(d)
        BY <2>2, <2>3, <3>2
      <3>4. Docs' = Docs
        BY <3>3 DEF Docs
      <3> QED
        BY <1>2, <3>4
    <2>5. CASE RemoveAll(c) /\ Shape(c, old \o new, new)'
      <3>1. PICK both \in Seq(Nat) : both = old \o new
        BY Joined
      <3>2. Shape(c, both, new)'
        BY <2>5, <3>1 DEF Shape, Fresh, Placed, InNew, DictPlaced, Healthy, Stuck, AtHome, InOld, InMerge
      <3>3. OldDocs(c)' = both
        BY <3>2, ShapeDocsNext
      <3>4. pc[c] = 27
        BY <2>5, RemoveAllLocal
      <3>5. new # <<>>
        BY <2>1, <3>4 DEF Shape, Fresh
      <3>6. Once(both)
        BY <3>2 DEF Shape, Fresh
      <3>7. Docs[c] = old /\ Docs'[c] = both /\ \A d \in Coll \ {c} : Docs'[d] = Docs[d]
        BY <2>2, <2>3, <3>3 DEF Docs
      <3> QED
        BY <3>1, <3>5, <3>6, <3>7
    <2> QED
      BY <1>2, <2>1, <2>4, <2>5, ActsShape
  <1> QED
    BY <1>1, <1>2, StepActs

\* and every step adds a batch to one collection or stutters.
LEMMA StepRefines ==
  ASSUME Careful, IInv, \A c \in Coll : Whole(c), IInv', [Next]_vars
  PROVE  Docs' = Docs \/ Promise!Next
  <1>1. ASSUME NEW c \in Coll, NEW new \in Seq(Nat),
               new # <<>>, Docs[c] \in Seq(Nat), Docs'[c] = Docs[c] \o new, Once(Docs'[c]),
               \A d \in Coll \ {c} : Docs'[d] = Docs[d]
        PROVE  Promise!Add(c)
    <2>1. PICK old \in Seq(Nat) : old = Docs[c]
      BY <1>1
    <2>2. Docs'[c] = old \o new
      BY <1>1, <2>1
    <2>3. Len(old \o new) > Len(old)
      <3>1. Len(new) # 0
        BY <1>1, EmptySeq
      <3>2. Len(old \o new) = Len(old) + Len(new) /\ Len(old) \in Nat /\ Len(new) \in Nat
        BY Joined
      <3> QED
        BY <3>1, <3>2
    <2>4. SubSeq(old \o new, 1, Len(old)) = old
      BY PrefixKept
    <2>5. Len(Docs'[c]) > Len(Docs[c]) /\ SubSeq(Docs'[c], 1, Len(Docs[c])) = Docs[c]
      BY <2>1, <2>2, <2>3, <2>4
    <2>6. Promise!Distinct(Docs'[c])
      BY <1>1 DEF Once, Promise!Distinct
    <2> QED
      BY <1>1, <2>5, <2>6 DEF Promise!Add, Docs, OldDocs
  <1> QED
    BY <1>1, StepPromise DEF Promise!Next
----------------------------------------------------------------------------
(* The properties of the merge's files.                                    *)

IWhole == IInv /\ \A c \in Coll : Whole(c)

LEMMA InitIWhole == Init => IWhole
  BY InitIInv, InitWhole DEF IWhole

LEMMA StepIWhole ==
  ASSUME Careful
  PROVE  IWhole /\ [Next]_vars => IWhole'
  <1> SUFFICES ASSUME IWhole, [Next]_vars PROVE IWhole'
    OBVIOUS
  <1>1. IInv'
    BY StepIInv DEF IWhole
  <1>2. (\A c \in Coll : Whole(c))'
    BY StepWhole DEF IWhole
  <1> QED
    BY <1>1, <1>2 DEF IWhole

\* From the start of a merge to the end of its first phase, and whenever no merge is
\* under way, a collection's files are all there and of one generation, however its
\* merges went (the order and the checks of mgmerge.sh); but for one whose inverted
\* file has skips and could not be merged.
THEOREM FilesAlwaysAgree ==
  ASSUME Careful
  PROVE  Spec => []FilesAgree
  <1>1. Init => IWhole
    BY InitIWhole
  <1>2. IWhole /\ [Next]_vars => IWhole'
    BY StepIWhole
  <1>3. IWhole => FilesAgree
    BY WholeAgrees DEF IWhole
  <1> QED
    BY <1>1, <1>2, <1>3, PTL DEF Spec

\* Whoever opens a collection during a merge, but for the moves of its last phase, finds
\* a text, an inverted file and a dictionary of one generation (backend.c, mgmerge.sh).
THEOREM AlwaysServedWhole ==
  ASSUME Careful
  PROVE  Spec => []ServedWhole
  <1>1. Init => IWhole
    BY InitIWhole
  <1>2. IWhole /\ [Next]_vars => IWhole'
    BY StepIWhole
  <1>3. IWhole => ServedWhole
    BY WholeServed DEF IWhole
  <1> QED
    BY <1>1, <1>2, <1>3, PTL DEF Spec

\* No step of the script takes a document out of the text that can be read (mgmerge.1).
THEOREM NothingEverDeleted ==
  ASSUME Careful
  PROVE  Spec => NothingDeleted
  <1>1. Init => IWhole
    BY InitIWhole
  <1>2. IWhole /\ [Next]_vars => IWhole'
    BY StepIWhole
  <1>3. IWhole /\ IWhole' /\ [Next]_vars => [\A c \in Coll : Held(c) \subseteq Held(c)']_vars
    <2> SUFFICES ASSUME IWhole, IWhole', [Next]_vars
                 PROVE  \A c \in Coll : Held(c) \subseteq Held(c)'
      OBVIOUS
    <2>1. IInv /\ \A c \in Coll : Whole(c)
      BY DEF IWhole
    <2>2. IInv' /\ (\A c \in Coll : Whole(c))'
      BY DEF IWhole
    <2> QED
      BY <2>1, <2>2, StepKeepsHeld
  <1> QED
    BY <1>1, <1>2, <1>3, PTL DEF Spec, NothingDeleted

\* The merge of a collection implements the promise of MergedCollection: its documents
\* only grow, by a batch of new ones after the old, each once (mgmerge.1).
THEOREM MergeImplementsPromise ==
  ASSUME Careful
  PROVE  Spec => GrowsByBatches
  <1>1. Init => IWhole /\ Promise!Init
    BY InitIWhole, InitPromise
  <1>2. IWhole /\ [Next]_vars => IWhole'
    BY StepIWhole
  <1>3. IWhole /\ IWhole' /\ [Next]_vars => Docs' = Docs \/ Promise!Next
    BY StepRefines DEF IWhole
  <1>4. IWhole /\ IWhole' /\ [Next]_vars
          => [Promise!Next]_([c \in Coll |-> Get(IF Exists("old", c, "invf") THEN "old" ELSE "base", c, "invf").docs])
    BY <1>3 DEF Docs, OldDocs
  <1> QED
    BY <1>1, <1>2, <1>4, PTL DEF Spec, GrowsByBatches, Promise!Spec
==============================================================================
