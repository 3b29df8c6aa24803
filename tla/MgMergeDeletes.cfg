\* Two collections that merge in the same MERGE directory; nothing is interrupted.
CONSTANTS
  mail = mail
  news = news
  Coll = {mail, news}
  Rebuilt = {{}}
  MaxDocs = 2
  Exclusive = FALSE
  MayStop = {}
SPECIFICATION Spec
PROPERTIES
  NothingDeleted
