--------------------------------- MODULE MCStorage ---------------------------------
(***************************************************************************)
(* Instances of PostStore, CommentStore and ProxyPool for TLC: what crawl  *)
(* batches share beside the keys and the accounts of FbCrawl.              *)
(*                                                                         *)
(* The three share no variable, so a behaviour moves in one of them, the   *)
(* part it starts with: steps of the others in between would change        *)
(* nothing that part can see.                                              *)
(***************************************************************************)
EXTENDS PostStore, CommentStore, ProxyPool, TLC

CONSTANTS Parts, t1, t2, t3, o1, o2, p1, p2, p3

VARIABLE part

\* Two targets of one owner, as two organizations that follow the same page have
\* them, and a target of another owner.
MCOwnerOf == t1 :> o1 @@ t2 :> o1 @@ t3 :> o2
MCPostsOf == o1 :> {p1, p2} @@ o2 :> {p3}

Symmetry == Permutations(Slot) \union Permutations(Text) \union Permutations(Crawl)

\* A part that rests rests in one initial state.
StorageInit ==
    /\ PostInit /\ CommentInit /\ ProxyInit /\ part \in Parts
    /\ part # "posts" => page = [p \in Post |-> CHOOSE text \in Content : TRUE]
    /\ part # "comments" => habit = "any"
    /\ part # "proxies" => boot = [p \in Proxy |-> 0]

StorageNext ==
    /\ UNCHANGED part
    /\ \/ part = "posts" /\ PostNext /\ UNCHANGED <<commentVars, proxyVars>>
       \/ part = "comments" /\ CommentNext /\ UNCHANGED <<postVars, proxyVars>>
       \/ part = "proxies" /\ ProxyNext /\ UNCHANGED <<postVars, commentVars>>

StorageSpec == StorageInit /\ [][StorageNext]_<<part, postVars, commentVars, proxyVars>>
=============================================================================
