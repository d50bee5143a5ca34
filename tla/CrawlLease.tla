---------------------------------- MODULE CrawlLease ----------------------------------
(***************************************************************************)
(* What the in-flight keys are for: a target is given to one holder at a   *)
(* time, the dispatcher first and then a batch, for as long as the key     *)
(* lives.  Nobody renews a lease and nobody asks who holds it; a holder    *)
(* whose lease is gone while it is at work goes on, and the lease is lost. *)
(***************************************************************************)
EXTENDS Naturals

CONSTANTS
    Target,
    Holder,
    Dispatcher,  \* the holder that takes leases
    Ttl          \* how long they last

VARIABLES
    left,     \* how long the lease of a target lasts
    holders,  \* who has the target to work on
    lost      \* targets whose lease has ended under a holder

leaseVars == <<left, holders, lost>>

LeaseInit ==
    /\ left = [t \in Target |-> 0]
    /\ holders = [t \in Target |-> {}]
    /\ lost = {}

\* Nobody has a target that is free, unless its lease was lost before.
Take(t) ==
    /\ left[t] = 0 /\ (holders[t] = {} \/ t \in lost)
    /\ left' = [left EXCEPT ![t] = Ttl]
    /\ holders' = [holders EXCEPT ![t] = @ \union {Dispatcher}]
    /\ UNCHANGED lost

\* A holder with nothing to do takes over targets.
PassOn(h, S) ==
    /\ \A t \in Target : h \notin holders[t]
    /\ \A t \in S : Dispatcher \in holders[t]
    /\ holders' = [t \in Target |-> IF t \in S THEN (holders[t] \ {Dispatcher}) \union {h} ELSE holders[t]]
    /\ UNCHANGED <<left, lost>>

\* A holder is done with the targets of S and ends the leases of those of U.  Somebody
\* else's lease is not ended that way, or it is lost.
GiveBack(h, S, U) ==
    /\ \A t \in S : h \in holders[t]
    /\ holders' = [t \in Target |-> IF t \in S THEN holders[t] \ {h} ELSE holders[t]]
    /\ left' = [t \in Target |-> IF t \in U THEN 0 ELSE left[t]]
    /\ lost' = lost \union {t \in U : holders'[t] # {}}

Elapse ==
    /\ left' = [t \in Target |-> IF left[t] > 0 THEN left[t] - 1 ELSE 0]
    /\ lost' = lost \union {t \in Target : left[t] = 1 /\ holders[t] # {}}
    /\ UNCHANGED holders

LeaseNext ==
    \/ \E t \in Target : Take(t)
    \/ \E h \in Holder, S \in SUBSET Target : PassOn(h, S) \/ \E U \in SUBSET Target : GiveBack(h, S, U)
    \/ Elapse

LeaseSpec == LeaseInit /\ [][LeaseNext]_leaseVars

\* The holder of a lease that is not lost is the only one, and its key is there.
OneHolder ==
    \A t \in Target \ lost : \A h \in holders[t] : holders[t] = {h} /\ left[t] > 0
=============================================================================
