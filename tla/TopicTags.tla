------------------------------- MODULE TopicTags -------------------------------
(***************************************************************************)
(* The topics of the organizations and the tagger: the topic routes of     *)
(* api/routers/admin.py and run_topic_tag of pipeline/topic_tag.py.        *)
(*                                                                         *)
(* An admin request is one transaction.  The tagger reads the rules in one *)
(* transaction, and reads and tags a batch of documents in a second one,   *)
(* with admin requests before, between and within the two.                 *)
(***************************************************************************)
EXTENDS Documents, Sequences, FiniteSetsExt

CONSTANTS
    Term,      \* keywords of topics
    Count,     \* how often a term occurs in a document
    NoOwner,   \* no topic with this id
    NoTopic,   \* topic_tag_id NULL
    TagBatchSize, \* batch_size, 200 in the code
    MaxTopic,  \* bound: ids given to topics
    MaxImport, \* bound: topics of one imported file
    MaxChange  \* bound: admin requests

ASSUME OwnerAssumption == NoOwner \notin Client
ASSUME CountAssumption == Count \in [Doc -> [Term -> Nat]]
ASSUME TopicSizeAssumption == MaxTopic \in Nat /\ TagBatchSize \in Nat \ {0}
ASSUME NoTopicAssumption == NoTopic \notin 1..MaxTopic
ASSUME TopicBoundAssumption == MaxImport \in Nat /\ MaxChange \in Nat

Topic == 1..MaxTopic

\* How often the terms of a set occur in a document, all together.
Occurrences == [d \in Doc |-> [S \in SUBSET Term |-> MapThenSumSet(LAMBDA k : Count[d][k], S)]]

\* What a sum is, stated for the proofs, which cannot unfold it.
ASSUME OccurrencesAssumption ==
    /\ Occurrences \in [Doc -> [SUBSET Term -> Nat]]
    /\ \A d \in Doc : Occurrences[d][{}] = 0

VARIABLES
    owner,    \* organization_topics: the organization of a topic, or NoOwner
    keywords, \* organization_topic_keywords
    nextId,   \* the sequence the ids come from
    tag,      \* documents.topic_tag_id
    status,   \* documents.topic_tag_status
    tagger,   \* what a run of the tagger has read
    changes,  \* how many admin requests there were
    stale     \* history: documents tagged by rules that were changed since they were read

rules == <<owner, keywords, nextId>>
tags == <<tag, status>>
topicVars == <<owner, keywords, nextId, tag, status, tagger, changes, stale>>

Rules == [owner : [Topic -> Org \union {NoOwner}], keywords : [Topic -> SUBSET Term]]
NoRules == [owner |-> [t \in Topic |-> NoOwner], keywords |-> [t \in Topic |-> {}]]
NoTagger == [step |-> "idle", rules |-> NoRules, batch |-> {}]

TopicTypeOK ==
    /\ owner \in [Topic -> Org \union {NoOwner}]
    /\ keywords \in [Topic -> SUBSET Term]
    /\ nextId \in 1..(MaxTopic + 1)
    /\ tag \in [Doc -> Topic \union {NoTopic}]
    /\ status \in [Doc -> {"pending", "tagged", "none"}]
    /\ tagger \in [step : {"idle", "rules", "batch"}, rules : Rules, batch : SUBSET Doc]
    /\ changes \in 0..MaxChange
    /\ stale \subseteq Doc

TopicInit ==
    /\ owner = [t \in Topic |-> NoOwner]
    /\ keywords = [t \in Topic |-> {}]
    /\ nextId = 1
    /\ tag = [d \in Doc |-> NoTopic]
    /\ status = [d \in Doc |-> "pending"]
    /\ tagger = NoTagger
    /\ changes = 0
    /\ stale = {}

-----------------------------------------------------------------------------
(* The admin *)

AdminRequest ==
    /\ changes < MaxChange
    /\ changes' = changes + 1
    /\ UNCHANGED tagger

Renewed(org) == stale' = {d \in stale : OrgOf[d] # org}

\* (mutant) Only what had a tag is evaluated again.
ResetTagged(org) ==
    /\ Renewed(org)
    /\ tag' = [d \in Doc |-> IF OrgOf[d] = org THEN NoTopic ELSE tag[d]]
    /\ status' = [d \in Doc |->
          IF OrgOf[d] = org /\ status[d] = "tagged" THEN "pending" ELSE status[d]]

\* _reset_topic_tags.
Reset(org) ==
    /\ Renewed(org)
    /\ tag' = [d \in Doc |-> IF OrgOf[d] = org THEN NoTopic ELSE tag[d]]
    /\ status' = [d \in Doc |-> IF OrgOf[d] = org THEN "pending" ELSE status[d]]

\* A topic without keywords tags nothing, so nothing is evaluated again.
CreateTopic(org) ==
    /\ AdminRequest /\ nextId <= MaxTopic
    /\ owner' = [owner EXCEPT ![nextId] = org]
    /\ nextId' = nextId + 1
    /\ UNCHANGED <<keywords, tags, stale>>

\* Keywords go with their topic (ON DELETE CASCADE), and tags become NULL
\* (ON DELETE SET NULL), before the reset does the same to all of the
\* organization's documents.
DeleteTopic(t) ==
    /\ AdminRequest /\ owner[t] # NoOwner
    /\ owner' = [owner EXCEPT ![t] = NoOwner]
    /\ keywords' = [keywords EXCEPT ![t] = {}]
    /\ Reset(owner[t])
    /\ UNCHANGED nextId

CreateKeyword(t, k) ==
    /\ AdminRequest /\ owner[t] # NoOwner /\ k \notin keywords[t]
    /\ keywords' = [keywords EXCEPT ![t] = @ \union {k}]
    /\ Reset(owner[t])
    /\ UNCHANGED <<owner, nextId>>

DeleteKeyword(t, k) ==
    /\ AdminRequest /\ k \in keywords[t]
    /\ keywords' = [keywords EXCEPT ![t] = @ \ {k}]
    /\ Reset(owner[t])
    /\ UNCHANGED <<owner, nextId>>

\* The file replaces all of the organization's topics by new ones.
ImportTopics(org, file) ==
    LET last == nextId + Len(file) - 1
    IN  /\ AdminRequest /\ last <= MaxTopic
        /\ owner' = [t \in Topic |->
              IF t \in nextId..last THEN org ELSE IF owner[t] = org THEN NoOwner ELSE owner[t]]
        /\ keywords' = [t \in Topic |->
              IF t \in nextId..last THEN file[t - nextId + 1]
              ELSE IF owner[t] = org THEN {} ELSE keywords[t]]
        /\ nextId' = last + 1
        /\ Reset(org)

-----------------------------------------------------------------------------
(* The tagger *)

Now == [owner |-> owner, keywords |-> keywords]

\* How often the keywords of a topic occur in a document.
Matches(r, t, d) == Occurrences[d][r.keywords[t]]

\* The topics of the document's organization that occur in it.
Matching(r, d) == {t \in Topic : r.owner[t] = OrgOf[d] /\ Matches(r, t, d) > 0}

\* The one that occurs most, of several the one with the lowest id.
Best(r, d) ==
    CHOOSE t \in Matching(r, d) : \A u \in Matching(r, d) :
        Matches(r, u, d) < Matches(r, t, d) \/ (Matches(r, u, d) = Matches(r, t, d) /\ t <= u)

TagBy(r, d) == IF Matching(r, d) # {} THEN Best(r, d) ELSE NoTopic

\* The organizations that have a topic with a keyword.
Ruled(r) == {r.owner[t] : t \in {u \in Topic : r.keywords[u] # {}}}

ReadRules ==
    /\ tagger = NoTagger /\ Ruled(Now) # {}
    /\ tagger' = [NoTagger EXCEPT !.step = "rules", !.rules = Now]
    /\ UNCHANGED <<rules, tags, changes, stale>>

\* (mutant) Documents that have their tag are taken again.
CandidatesAll == {d \in Doc : OrgOf[d] \in Ruled(tagger.rules)}

Candidates == {d \in Doc : status[d] = "pending" /\ OrgOf[d] \in Ruled(tagger.rules)}

\* The SELECT has a LIMIT and no order.
ReadBatch ==
    /\ tagger.step = "rules"
    /\ \E batch \in kSubset(Min({TagBatchSize, Cardinality(Candidates)}), Candidates) :
          tagger' = [tagger EXCEPT !.step = "batch", !.batch = batch]
    /\ UNCHANGED <<rules, tags, changes, stale>>

\* The updates and the commit: what admin requests did to these documents since
\* the SELECT is overwritten.  'none' leaves topic_tag_id alone.
TagBatch ==
    LET to(d) == TagBy(tagger.rules, d)
        tagged == {d \in tagger.batch : to(d) # NoTopic}
    IN  /\ tagger.step = "batch"
        /\ \A d \in tagged : owner[to(d)] # NoOwner
        /\ tag' = [d \in Doc |-> IF d \in tagged THEN to(d) ELSE tag[d]]
        /\ status' = [d \in Doc |->
              IF d \in tagged THEN "tagged" ELSE IF d \in tagger.batch THEN "none" ELSE status[d]]
        /\ stale' = IF tagger.rules = Now THEN stale ELSE stale \union tagger.batch
        /\ tagger' = NoTagger
        /\ UNCHANGED <<rules, changes>>

\* A topic of the batch was deleted: the foreign key fails the run, and nothing
\* of the batch is tagged.
FailBatch ==
    /\ tagger.step = "batch"
    /\ \E d \in tagger.batch :
          TagBy(tagger.rules, d) # NoTopic /\ owner[TagBy(tagger.rules, d)] = NoOwner
    /\ tagger' = NoTagger
    /\ UNCHANGED <<rules, tags, changes, stale>>

Abort ==
    /\ tagger # NoTagger
    /\ tagger' = NoTagger
    /\ UNCHANGED <<rules, tags, changes, stale>>

Files == UNION {[1..n -> SUBSET Term \ {{}}] : n \in 0..MaxImport}

TopicNext ==
    \/ \E org \in Org : CreateTopic(org) \/ \E file \in Files : ImportTopics(org, file)
    \/ \E t \in Topic : DeleteTopic(t) \/ \E k \in Term : CreateKeyword(t, k) \/ DeleteKeyword(t, k)
    \/ ReadRules \/ ReadBatch \/ TagBatch \/ FailBatch \/ Abort

TopicSpec == TopicInit /\ [][TopicNext]_topicVars

\* The crawl DAGs trigger run after run, and no step is the one every run dies in.
TopicFairness ==
    WF_topicVars(ReadRules) /\ SF_topicVars(ReadBatch) /\ SF_topicVars(TagBatch) /\ WF_topicVars(FailBatch)

-----------------------------------------------------------------------------
\* A document is 'tagged' exactly when it has a tag: the report's two ways to
\* tell what is untagged agree, also when topics are deleted.
StatusAgrees == \A d \in Doc : (status[d] = "tagged") <=> (tag[d] # NoTopic)

\* A tag is an existing topic of the document's own organization.
TagOfOwnOrg == \A d \in Doc : tag[d] # NoTopic => owner[tag[d]] = OrgOf[d]

\* "Edits after the first tagging pass" apply: what is not pending has the tag
\* the current rules give it, unless they were changed while the tagger was
\* about to tag it by the old ones.
TaggedByCurrentRules ==
    \A d \in Doc \ stale : status[d] # "pending" => tag[d] = TagBy(Now, d)

\* The tagger's queue: the documents whose tag is pending.
TagQueue == INSTANCE WorkQueue WITH
    Item <- Doc, Limit <- TagBatchSize, waiting <- {d \in Doc : status[d] = "pending"}, taken <- tagger.batch

\* No document is left behind by the batch limit or by runs that fail: once the
\* rules rest, all documents of organizations that have rules are evaluated.
EventuallyTagged == \A d \in Doc : <>[](status[d] # "pending" \/ OrgOf[d] \notin Ruled(Now))
=============================================================================
