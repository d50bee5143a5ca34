------------------------------ MODULE MCPipelineLive ------------------------------
(***************************************************************************)
(* What the content pipeline must come to at last, for TLC: the gate and   *)
(* the classifier, the topics and the tagger, the gazetteer and the        *)
(* matcher, the behaviours of MCPipeline with the fairness of each.        *)
(***************************************************************************)
EXTENDS MCPipeline

-----------------------------------------------------------------------------
(* The n-th conditions of the parts can be one, because only one part is at work in a *)
(* behaviour.                                                                         *)

Weak(n) ==
    \/ OfContent /\ n = 1 /\ Pipeline
    \/ OfTopics /\ CASE n = 1 -> ReadRules [] n = 2 -> FailBatch
    \/ OfNames /\ n = 1 /\ StartMatch

Strong(n) ==
    \/ OfContent /\ CASE n = 1 -> FilterBatch [] n = 2 -> ReadOrgs
                      [] n = 3 -> ReadMode(o1) [] n = 4 -> ReadMode(NoOrg) [] n = 5 -> ReadRows
                      [] n = 6 -> Classify(d1) [] n = 7 -> Classify(d2) [] n = 8 -> CommitClasses
    \/ OfTopics /\ CASE n = 1 -> ReadBatch [] n = 2 -> TagBatch [] OTHER -> FALSE
    \/ OfNames /\ CASE n = 1 -> SelectUnmatched [] n = 2 -> CommitMatches [] OTHER -> FALSE

LiveSpec ==
    /\ PipelineSpec
    /\ \A n \in 1..2 : WF_allVars(Weak(n))
    /\ \A n \in 1..8 : SF_allVars(Strong(n))

-----------------------------------------------------------------------------
\* EventuallyFiltered and EventuallyClassified of ContentPipeline, where that part is at
\* work: every document gets to the gate, every matched one its class or a failure.
AllProcessed == part = "content" => EventuallyFiltered /\ EventuallyClassified

\* EventuallyMatched of EntityMatch, where that part is at work.
AllMatched == part = "names" => EventuallyMatched
=============================================================================
