\* Merges of one collection at a time, interrupted anywhere in the first phase;
\* the inverted file of one may have skips.
CONSTANTS
  mail = mail
  news = news
  Coll = {mail, news}
  Rebuilt = {{}, {news}}
  MaxDocs = 3
  Exclusive = TRUE
  MayStop = {1, 2, 3, 4, 5, 6}
SPECIFICATION Spec
INVARIANTS
  TypeOK
  FilesAgree
  ServedWhole
  QuietKept
PROPERTIES
  NothingDeleted
  GrowsByBatches
