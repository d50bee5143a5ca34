-------------------------------- MODULE StoredText --------------------------------
(***************************************************************************)
(* What PostStore and CommentStore have in common: the crawls that write,  *)
(* and the texts they store, as content_hash tells them apart.             *)
(***************************************************************************)
EXTENDS Naturals, FiniteSets

CONSTANTS
    Crawl,   \* crawls that may overlap
    NoText   \* no row
=============================================================================
