--------------------------- MODULE MCPostingEntry ---------------------------
(* Entries over up to MaxN documents; both kinds of region, both levels.   *)
EXTENDS PostingEntry
============================================================================
