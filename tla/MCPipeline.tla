-------------------------------- MODULE MCPipeline --------------------------------
(***************************************************************************)
(* Instances of ContentPipeline, TopicTags and EntityMatch for TLC.        *)
(*                                                                         *)
(* The tasks of the content_pipeline DAG write different columns and       *)
(* tables and read none of each other's, except that the classifier        *)
(* follows the gate.  So a behaviour moves in the gate and the classifier, *)
(* in the topics and the tagger, or in the gazetteer and the matcher,      *)
(* whichever part it starts with.                                          *)
(***************************************************************************)
EXTENDS ContentPipeline, TopicTags, EntityMatch, TLC

CONSTANTS o1, o2, d1, d2, k1, k2

VARIABLE part

AcrossOrgs == d1 :> o1 @@ d2 :> o2
SameOrg == d1 :> o1 @@ d2 :> o1
MCCount == d1 :> (k1 :> 1 @@ k2 :> 1) @@ d2 :> (k1 :> 2 @@ k2 :> 0)

\* Two names of one concept, and one of them again for another concept.
MCConcept == "f1" :> "c1" @@ "f2" :> "c1" @@ "f3" :> "c2"
MCName == "f1" :> "n1" @@ "f2" :> "n2" @@ "f3" :> "n1"
MCFound == "f1" :> {d1} @@ "f2" :> {d1} @@ "f3" :> {}

allVars == <<part, contentVars, topicVars, matchVars>>

\* A part that rests rests in one initial state.
PipelineInit ==
    /\ ContentInit /\ TopicInit /\ MatchInit
    /\ part \in {"content", "topics", "names"}
    /\ part # "content" => content = [d \in Doc |-> {}] /\ chosen = [o \in Org |-> {}]
    /\ part # "names" => forms = [f \in Form |-> "absent"]

\* A step of one part.
OfContent == part = "content" /\ UNCHANGED <<part, topicVars, matchVars>>
OfTopics == part = "topics" /\ UNCHANGED <<part, contentVars, matchVars>>
OfNames == part = "names" /\ UNCHANGED <<part, contentVars, topicVars>>

PipelineNext == (OfContent /\ ContentNext) \/ (OfTopics /\ TopicNext) \/ (OfNames /\ MatchNext)

PipelineSpec == PipelineInit /\ [][PipelineNext]_allVars

\* Classifier, tagger and matcher are queues: a run takes no more than its batch and only
\* what waits, all of a batch is done or none of it, whoever interferes, and nothing drops
\* out of a queue undone.
ImplementsQueues == ClassQueue!QueueSpec /\ TagQueue!QueueSpec /\ MatchQueue!QueueSpec
=============================================================================
