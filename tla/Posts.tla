------------------------------- MODULE Posts --------------------------------
(***************************************************************************)
(* What PostStore and CrawlSelection have in common.                       *)
(***************************************************************************)

CONSTANT Post  \* external_doc_id
=============================================================================
