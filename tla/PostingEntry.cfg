SPECIFICATION Spec
CONSTANTS
  MaxN = 8
  MaxFcnt = 4
  MaxWcnt = 13
INVARIANTS
  TypeOK
  GapsFit
  CountsFit
  RoundTrip
\* An entry is finished after fcnt postings.
CHECK_DEADLOCK FALSE
