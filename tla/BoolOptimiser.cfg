CONSTANTS
  t1 = t1
  t2 = t2
  t3 = t3
  Words = {t1, t2, t3}
  Counts <- MCCounts
  Queries <- MCQueries
  Types = {0, 1, 2}
  IterLimit = 4
SPECIFICATION Spec
INVARIANTS
  TypeOK
  SameMeaning
  DnfAnswers
  AndOfOrsAnswers
  NoWrongDocument
PROPERTY Answered
\* A query ends with its answer.
CHECK_DEADLOCK FALSE
