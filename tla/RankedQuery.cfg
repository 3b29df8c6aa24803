CONSTANTS
  NumDocs = 4
  Methods = {"A", "S", "H", "L"}
  Limits = {2, 3, 9}
  Skips = {0, 1, 2}
  TermWeights <- MCTermWeights
  MaxParas = {1, 3}
  Weighings <- MCWeighings
SPECIFICATION SpecQuery
INVARIANTS
  TypeOK
  SumsExact
  AllAccumulated
  RoomEnough
  LimitKept
  BestAnswers
\* A query ends with its answers.
CHECK_DEADLOCK FALSE
