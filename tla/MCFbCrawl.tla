-------------------------------- MODULE MCFbCrawl --------------------------------
(***************************************************************************)
(* Instances of FbCrawl for TLC.  One tick is about 450 s in the lease     *)
(* runs (cooldown 900, interval 900, budget 1500, time_limit 1680, lock    *)
(* TTL 1800): only the order of the durations matters.                     *)
(***************************************************************************)
EXTENDS FbCrawl, TLC

CONSTANTS t1, t2, a1, a2

Symmetry == Permutations(Batch)

\* No target is pinned.
PinNone == [t \in Target |-> NoKey]
=============================================================================
