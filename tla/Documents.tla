--------------------------------- MODULE Documents ---------------------------------
(***************************************************************************)
(* What the modules about the content pipeline have in common: the         *)
(* documents, the organizations, and the target a document belongs to.     *)
(***************************************************************************)
EXTENDS Naturals, FiniteSets

CONSTANTS
    Org,
    NoOrg,     \* the "organization" of targets without one
    Doc,
    OrgOf      \* the organization of a document's target, or NoOrg

Client == Org \union {NoOrg}

ASSUME DocAssumption == IsFiniteSet(Doc)
ASSUME OrgAssumption == NoOrg \notin Org /\ OrgOf \in [Doc -> Client]
=============================================================================
