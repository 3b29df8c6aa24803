SPECIFICATION Spec
CONSTANTS
  Word <- TwoWords
  Texts <- ThreeTexts
  MaxBuilt = 3
  MaxNew = 2
  MaxMerges = 2
INVARIANTS
  TypeOK
  InStep
  MergedAnswers
\* No merge begins after the last one.
CHECK_DEADLOCK FALSE
