---------------------------------- MODULE MCSaving ----------------------------------
(***************************************************************************)
(* MCStorage with two parts more: CrawlSelection, which chooses the posts  *)
(* that PostStore and CommentStore store, and BrowserCrawl, which fetches  *)
(* them.  A behaviour moves in one part.                                   *)
(***************************************************************************)
EXTENDS MCStorage, CrawlSelection, BrowserCrawl

OneEach == p1 :> 1 @@ p2 :> 1 @@ p3 :> 1

\* A part that rests rests in one initial state.
SavingInit ==
    /\ PostInit /\ CommentInit /\ ProxyInit /\ SelectionInit /\ BrowserInit
    /\ part \in Parts \union {"selection", "browser"}
    /\ part # "posts" => page = [p \in Post |-> CHOOSE text \in Content : TRUE]
    /\ part # "comments" => habit = "any"
    /\ part # "proxies" => boot = [p \in Proxy |-> 0]
    /\ part # "browser" => kind = "profile" /\ named = {}

storageVars == <<postVars, commentVars, proxyVars>>

SavingNext ==
    \/ part \in Parts /\ StorageNext /\ UNCHANGED <<selectionVars, browserVars>>
    \/ part = "selection" /\ SelectionNext /\ UNCHANGED <<part, storageVars, browserVars>>
    \/ part = "browser" /\ BrowserNext /\ UNCHANGED <<part, storageVars, selectionVars>>

SavingSpec == SavingInit /\ [][SavingNext]_<<part, storageVars, selectionVars, browserVars>>

\* Every part keeps its types.
SavingTypeOK == PostTypeOK /\ CommentTypeOK /\ ProxyTypeOK /\ SelectionTypeOK /\ BrowserTypeOK
=============================================================================
