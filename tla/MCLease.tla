---------------------------------- MODULE MCLease ----------------------------------
(***************************************************************************)
(* FbCrawl for TLC, in two kinds of behaviour.  "lease": one target, one   *)
(* account and two batches, with crashes and a deleted row; the other      *)
(* target is deleted before anything else happens and the other account    *)
(* never has a session.  "pinned": two targets, the one of them pinned,    *)
(* and one batch at a time.                                                *)
(***************************************************************************)
EXTENDS MCFbCrawl

VARIABLE part

\* t1 is crawled on any account, t2 is pinned to a2.
PinOther == t1 :> NoKey @@ t2 :> a2

LeaseMCInit ==
    /\ Init /\ part \in {"lease", "pinned"}
    /\ part = "lease" => ~fb_accounts[a2].session
    /\ part = "pinned" => \A a \in Account : fb_accounts[a].session

LeaseStep ==
    /\ IF Exists(t2) THEN DeleteSource(t2) ELSE Next
    /\ UNCHANGED fb_accounts[a2]

\* No crash, no deleted or duplicate row, no message that waits, and no second batch.
PinnedStep ==
    /\ \/ Dispatcher \/ Tick
       \/ \E b \in Batch : Start(b) \/ Drop(b) \/ TaskStep(b)
       \/ \E a \in Account : OperatorRelease(a)
    /\ \A b \in Batch : batch'[b].phase = "queued" => batch'[b].clock = 0
    /\ Cardinality({b \in Batch : batch'[b].phase # "free"}) <= 1

LeaseMCNext ==
    /\ UNCHANGED part
    /\ \/ part = "lease" /\ LeaseStep
       \/ part = "pinned" /\ PinnedStep

LeaseMCSpec == LeaseMCInit /\ [][LeaseMCNext]_<<part, vars>>
=============================================================================
