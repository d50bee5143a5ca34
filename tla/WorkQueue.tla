---------------------------------- MODULE WorkQueue ----------------------------------
(***************************************************************************)
(* What a task of the content pipeline promises: documents wait for it,    *)
(* one run at a time takes up to so many of them, and then all it has      *)
(* taken are done, or none and they wait as before.  Nothing leaves the    *)
(* queue but by being taken and done.  Others may put documents into the   *)
(* queue, or back into it, at any time.                                    *)
(***************************************************************************)
EXTENDS Naturals, FiniteSets

CONSTANTS
    Item,
    Limit  \* how many a run takes

VARIABLES
    waiting,
    taken

queueVars == <<waiting, taken>>

QueueInit == waiting \subseteq Item /\ taken = {}

Arrive(S) == waiting' = waiting \union S /\ UNCHANGED taken

Take(S) ==
    /\ taken = {} /\ S \subseteq waiting /\ Cardinality(S) <= Limit
    /\ taken' = S
    /\ UNCHANGED waiting

\* The commit.
Complete == waiting' = waiting \ taken /\ taken' = {}

\* The run dies, or fails.
Abandon == taken' = {} /\ UNCHANGED waiting

QueueNext == (\E S \in SUBSET Item : Arrive(S) \/ Take(S)) \/ Complete \/ Abandon

QueueSpec == QueueInit /\ [][QueueNext]_queueVars
=============================================================================
