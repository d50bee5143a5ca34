------------------------------- MODULE PipelineProofs -------------------------------
(***************************************************************************)
(* Theorems about TopicTags, for every set of organizations, documents and *)
(* terms and any number of topics and admin requests; about EntityMatch,   *)
(* for every gazetteer and any texts; and about what MCPipeline and        *)
(* MCPipelineLive make of them and of ContentPipeline.                     *)
(***************************************************************************)
EXTENDS MCPipelineLive, ContentPipelineProofs, WellFoundedInduction, FiniteSetTheorems

(***************************************************************************)
(* The topic of a document                                                 *)
(***************************************************************************)

\* Rules as the tagger reads them are of this type.
LEMMA MatchesType ==
  ASSUME NEW r \in Rules, NEW t \in Topic, NEW d \in Doc
  PROVE  Matches(r, t, d) \in Nat
  BY OccurrencesAssumption DEF Matches, Rules

\* t comes before u in the tagger's choice.
Wins(r, d, t, u) ==
    Matches(r, u, d) < Matches(r, t, d) \/ (Matches(r, u, d) = Matches(r, t, d) /\ t <= u)

\* Of topics with ids up to n there is one that wins: by induction on n, put as
\* the absence of a smallest exception.
LEMMA WinnerExists ==
  ASSUME NEW r \in Rules, NEW d \in Doc, NEW T \in SUBSET Topic, T # {}
  PROVE  \E t \in T : \A u \in T : Wins(r, d, t, u)
  <1> DEFINE Good(n) == \A S \in SUBSET Topic :
                S # {} /\ S \subseteq 1..n => \E t \in S : \A u \in S : Wins(r, d, t, u)
             Bad == {n \in Nat : ~Good(n)}
  <1>1. MaxTopic \in Nat /\ Topic = 1..MaxTopic
    BY TopicSizeAssumption DEF Topic
  <1>2. Bad = {}
    <2> SUFFICES ASSUME Bad # {} PROVE FALSE
      OBVIOUS
    <2>1. PICK n \in Bad : \A m \in Bad : ~(<<m, n>> \in OpToRel(<, Nat))
      <3>1. Bad \subseteq Nat
        OBVIOUS
      <3>2. QED
        BY <3>1, NatLessThanWellFounded, WFMin
    <2>2. n \in Nat /\ ~Good(n)
      OBVIOUS
    <2>3. ASSUME NEW m \in Nat, m < n PROVE Good(m)
      <3>1. <<m, n>> \in OpToRel(<, Nat)
        BY <2>2, <2>3 DEF OpToRel
      <3>2. m \notin Bad
        BY <2>1, <3>1
      <3>3. QED
        BY <3>2
    <2>4. PICK S \in SUBSET Topic :
              S # {} /\ S \subseteq 1..n /\ ~(\E t \in S : \A u \in S : Wins(r, d, t, u))
      BY <2>2
    <2>5. n \in S
      <3> SUFFICES ASSUME n \notin S PROVE FALSE
        OBVIOUS
      <3>1. n # 0 /\ S \subseteq 1..(n - 1)
        <4>1. \A s \in S : s \in 1..n /\ s # n
          BY <2>4
        <4>2. \A s \in S : s \in Nat /\ s > 0 /\ s < n
          BY <4>1, <2>2
        <4>3. \E s \in S : TRUE
          BY <2>4
        <4>4. n # 0
          BY <4>2, <4>3, <2>2
        <4>5. QED
          BY <4>2, <4>4, <2>2
      <3>2. n - 1 \in Nat /\ n - 1 < n
        BY <2>2, <3>1
      <3>3. Good(n - 1)
        BY <2>3, <3>2
      <3>4. QED
        BY <2>4, <3>1, <3>3
    <2>6. n \in Topic /\ Matches(r, n, d) \in Nat
      BY <2>4, <2>5, MatchesType
    <2>7. Wins(r, d, n, n)
      BY <2>6 DEF Wins
    <2>8. CASE S \ {n} = {}
      BY <2>4, <2>5, <2>7, <2>8
    <2>9. CASE S \ {n} # {}
      <3>1. n - 1 \in Nat /\ n - 1 < n /\ S \ {n} \subseteq 1..(n - 1) /\ S \ {n} \in SUBSET Topic
        BY <2>2, <2>4, <2>6, <1>1
      <3>2. Good(n - 1)
        BY <2>3, <3>1
      <3>3. PICK b \in S \ {n} : \A u \in S \ {n} : Wins(r, d, b, u)
        BY <2>9, <3>1, <3>2
      <3>4. b \in Topic /\ Matches(r, b, d) \in Nat /\ b < n
        BY <3>1, <3>3, <1>1, MatchesType
      <3>5. CASE Matches(r, n, d) > Matches(r, b, d)
        <4>1. ASSUME NEW u \in S PROVE Wins(r, d, n, u)
          <5>1. u \in Topic /\ Matches(r, u, d) \in Nat
            BY <2>4, MatchesType
          <5>2. CASE u = n
            BY <5>2, <2>7
          <5>3. CASE u # n
            BY <5>1, <5>3, <2>6, <3>3, <3>4, <3>5 DEF Wins
          <5>4. QED
            BY <5>2, <5>3
        <4>2. QED
          BY <4>1, <2>4, <2>5
      <3>6. CASE ~(Matches(r, n, d) > Matches(r, b, d))
        <4>1. Wins(r, d, b, n)
          BY <2>6, <3>4, <3>6 DEF Wins
        <4>2. QED
          BY <4>1, <3>3, <2>4
      <3>7. QED
        BY <3>5, <3>6
    <2>10. QED
      BY <2>8, <2>9
  <1>3. Good(MaxTopic)
    BY <1>1, <1>2
  <1>4. QED
    BY <1>1, <1>3

\* Best is a topic of the document's organization, and the only one that wins.
LEMMA BestWins ==
  ASSUME NEW r \in Rules, NEW d \in Doc, Matching(r, d) # {}
  PROVE  /\ Best(r, d) \in Matching(r, d)
         /\ \A t \in Matching(r, d) :
               (\A u \in Matching(r, d) : Wins(r, d, t, u)) <=> t = Best(r, d)
  <1>1. Matching(r, d) \in SUBSET Topic
    BY DEF Matching
  <1>2. \E t \in Matching(r, d) : \A u \in Matching(r, d) : Wins(r, d, t, u)
    BY <1>1, WinnerExists
  <1>3. Best(r, d) = CHOOSE t \in Matching(r, d) : \A u \in Matching(r, d) : Wins(r, d, t, u)
    BY DEF Best, Wins
  <1>4. Best(r, d) \in Matching(r, d) /\ \A u \in Matching(r, d) : Wins(r, d, Best(r, d), u)
    BY <1>2, <1>3
  <1>5. ASSUME NEW t \in Matching(r, d), \A u \in Matching(r, d) : Wins(r, d, t, u)
        PROVE  t = Best(r, d)
    <2>1. Wins(r, d, t, Best(r, d)) /\ Wins(r, d, Best(r, d), t)
      BY <1>4, <1>5
    <2>2. t \in Nat /\ Best(r, d) \in Nat
      BY <1>1, <1>4, TopicSizeAssumption DEF Topic
    <2>3. Matches(r, t, d) \in Nat /\ Matches(r, Best(r, d), d) \in Nat
      BY <1>1, <1>4, MatchesType
    <2>4. QED
      BY <2>1, <2>2, <2>3 DEF Wins
  <1>6. QED
    BY <1>4, <1>5

\* The tag the rules give: a topic of the document's organization, or none.
LEMMA TagByOwn ==
  ASSUME NEW r \in Rules, NEW d \in Doc
  PROVE  \/ TagBy(r, d) = NoTopic
         \/ TagBy(r, d) \in Topic /\ r.owner[TagBy(r, d)] = OrgOf[d]
  BY BestWins DEF TagBy, Matching

\* Only what the rules say of the document's organization counts.
LEMMA TagBySame ==
  ASSUME NEW r \in Rules, NEW s \in Rules, NEW d \in Doc,
         Matching(r, d) = Matching(s, d),
         \A t \in Matching(r, d) : Matches(r, t, d) = Matches(s, t, d)
  PROVE  TagBy(r, d) = TagBy(s, d)
  <1>1. CASE Matching(r, d) = {}
    BY <1>1 DEF TagBy
  <1>2. CASE Matching(r, d) # {}
    <2>1. /\ Best(r, d) \in Matching(r, d)
          /\ \A u \in Matching(r, d) : Wins(r, d, Best(r, d), u)
      BY <1>2, BestWins
    <2>2. \A u \in Matching(s, d) : Wins(s, d, Best(r, d), u)
      BY <2>1 DEF Wins
    <2>3. Best(r, d) = Best(s, d)
      BY <1>2, <2>1, <2>2, BestWins
    <2>4. QED
      BY <2>3 DEF TagBy
  <1>3. QED
    BY <1>1, <1>2

(***************************************************************************)
(* Type correctness                                                        *)
(***************************************************************************)

LEMMA OwnerFacts == NoOwner \notin Org /\ \A d \in Doc : OrgOf[d] # NoOwner
  BY OwnerAssumption, OrgAssumption DEF Client

LEMMA ResetType ==
  ASSUME TopicTypeOK, NEW org, Reset(org)
  PROVE  /\ tag' \in [Doc -> Topic \union {NoTopic}]
         /\ status' \in [Doc -> {"pending", "tagged", "none"}]
         /\ stale' \subseteq Doc
  BY DEF TopicTypeOK, Reset, Renewed

LEMMA FileType ==
  ASSUME NEW file \in Files
  PROVE  Len(file) \in Nat /\ \A i \in 1..Len(file) : file[i] \in SUBSET Term \ {{}}
  <1>1. PICK n \in 0..MaxImport : file \in [1..n -> SUBSET Term \ {{}}]
    BY DEF Files
  <1>2. n \in Nat
    BY TopicBoundAssumption
  <1>3. Len(file) = n
    BY <1>1, <1>2
  <1>4. QED
    BY <1>1, <1>2, <1>3

LEMMA ImportType ==
  ASSUME TopicTypeOK, NEW org \in Org, NEW file \in Files, ImportTopics(org, file)
  PROVE  TopicTypeOK'
  <1> DEFINE last == nextId + Len(file) - 1
  <1>1. nextId \in Nat /\ nextId > 0 /\ last \in Nat /\ last <= MaxTopic /\ MaxTopic \in Nat
    BY FileType, TopicSizeAssumption DEF ImportTopics, TopicTypeOK
  <1>2. \A t \in nextId..last : t - nextId + 1 \in 1..Len(file)
    BY <1>1, FileType
  <1>3. owner' \in [Topic -> Org \union {NoOwner}]
    BY DEF ImportTopics, TopicTypeOK
  <1>4. keywords' \in [Topic -> SUBSET Term]
    <2>1. \A t \in nextId..last : file[t - nextId + 1] \in SUBSET Term
      BY <1>2, FileType
    <2>2. keywords' = [t \in Topic |->
              IF t \in nextId..last THEN file[t - nextId + 1]
              ELSE IF owner[t] = org THEN {} ELSE keywords[t]]
      BY DEF ImportTopics
    <2>3. QED
      BY <2>1, <2>2 DEF TopicTypeOK
  <1>5. nextId' \in 1..(MaxTopic + 1)
    BY <1>1, FileType DEF ImportTopics
  <1>6. changes' \in 0..MaxChange /\ tagger' = tagger
    BY TopicBoundAssumption DEF ImportTopics, AdminRequest, TopicTypeOK
  <1>7. QED
    BY <1>3, <1>4, <1>5, <1>6, ResetType DEF ImportTopics, TopicTypeOK

LEMMA TopicInitType == TopicInit => TopicTypeOK
  <1> SUFFICES ASSUME TopicInit PROVE TopicTypeOK
    OBVIOUS
  <1>1. nextId \in 1..(MaxTopic + 1) /\ changes \in 0..MaxChange
    BY TopicSizeAssumption, TopicBoundAssumption DEF TopicInit
  <1>2. NoRules \in Rules
    BY DEF NoRules, Rules
  <1>3. tagger \in [step : {"idle", "rules", "batch"}, rules : Rules, batch : SUBSET Doc]
    BY <1>2 DEF TopicInit, NoTagger
  <1>4. QED
    BY <1>1, <1>3 DEF TopicInit, TopicTypeOK

LEMMA TopicNextType == TopicTypeOK /\ [TopicNext]_topicVars => TopicTypeOK'
  <1> SUFFICES ASSUME TopicTypeOK, [TopicNext]_topicVars PROVE TopicTypeOK'
    OBVIOUS
  <1>1. AdminRequest => changes' \in 0..MaxChange /\ tagger' = tagger
    BY TopicBoundAssumption DEF AdminRequest, TopicTypeOK
  <1>2. NoTagger \in [step : {"idle", "rules", "batch"}, rules : Rules, batch : SUBSET Doc]
    BY DEF NoTagger, NoRules, Rules
  <1>3. Now \in Rules
    BY DEF Now, Rules, TopicTypeOK
  <1>4. ASSUME NEW org \in Org, CreateTopic(org) PROVE TopicTypeOK'
    <2>1. nextId \in Topic /\ nextId + 1 \in 1..(MaxTopic + 1)
      BY <1>4, TopicSizeAssumption DEF CreateTopic, TopicTypeOK, Topic
    <2>2. QED
      BY <1>1, <1>4, <2>1 DEF CreateTopic, TopicTypeOK, tags
  <1>5. ASSUME NEW org \in Org, NEW file \in Files, ImportTopics(org, file) PROVE TopicTypeOK'
    BY <1>5, ImportType
  <1>6. ASSUME NEW t \in Topic, DeleteTopic(t) PROVE TopicTypeOK'
    <2>1. owner' \in [Topic -> Org \union {NoOwner}] /\ keywords' \in [Topic -> SUBSET Term]
      BY <1>6 DEF DeleteTopic, TopicTypeOK
    <2>2. QED
      BY <1>1, <1>6, <2>1, ResetType DEF DeleteTopic, TopicTypeOK
  <1>7. ASSUME NEW t \in Topic, NEW k \in Term, CreateKeyword(t, k) \/ DeleteKeyword(t, k)
        PROVE  TopicTypeOK'
    <2>1. keywords' \in [Topic -> SUBSET Term]
      BY <1>7 DEF CreateKeyword, DeleteKeyword, TopicTypeOK
    <2>2. QED
      BY <1>1, <1>7, <2>1, ResetType DEF CreateKeyword, DeleteKeyword, TopicTypeOK
  <1>8. CASE ReadRules
    <2>1. tagger' = [NoTagger EXCEPT !.step = "rules", !.rules = Now]
      BY <1>8 DEF ReadRules
    <2>2. tagger' \in [step : {"idle", "rules", "batch"}, rules : Rules, batch : SUBSET Doc]
      BY <1>3, <2>1 DEF NoTagger
    <2>3. QED
      BY <1>8, <2>2 DEF ReadRules, rules, tags, TopicTypeOK
  <1>9. CASE ReadBatch
    <2>1. PICK batch \in SUBSET Doc : tagger' = [tagger EXCEPT !.step = "batch", !.batch = batch]
      BY <1>9 DEF ReadBatch, kSubset, Candidates
    <2>2. tagger' \in [step : {"idle", "rules", "batch"}, rules : Rules, batch : SUBSET Doc]
      BY <2>1 DEF TopicTypeOK
    <2>3. QED
      BY <1>9, <2>2 DEF ReadBatch, rules, tags, TopicTypeOK
  <1>10. CASE TagBatch
    <2>1. tagger.rules \in Rules /\ tagger.batch \in SUBSET Doc
      BY DEF TopicTypeOK
    <2>2. \A d \in Doc : TagBy(tagger.rules, d) \in Topic \union {NoTopic}
      BY <2>1, TagByOwn
    <2>3. tag' \in [Doc -> Topic \union {NoTopic}]
      BY <1>10, <2>2 DEF TagBatch, TopicTypeOK
    <2>4. status' \in [Doc -> {"pending", "tagged", "none"}]
      BY <1>10 DEF TagBatch, TopicTypeOK
    <2>5. QED
      BY <1>2, <1>10, <2>1, <2>3, <2>4 DEF TagBatch, rules, TopicTypeOK
  <1>11. CASE FailBatch \/ Abort
    BY <1>2, <1>11 DEF FailBatch, Abort, rules, tags, TopicTypeOK
  <1>12. CASE UNCHANGED topicVars
    BY <1>12 DEF topicVars, TopicTypeOK
  <1>13. QED
    BY <1>4, <1>5, <1>6, <1>7, <1>8, <1>9, <1>10, <1>11, <1>12 DEF TopicNext

\* Topics, tags and what the tagger has read keep their types: a document only
\* ever refers to an id that was given to a topic.
THEOREM TopicTypeCorrect == TopicSpec => []TopicTypeOK
  BY TopicInitType, TopicNextType, PTL DEF TopicSpec

(***************************************************************************)
(* Tags, topics and the rules the tagger has read                          *)
(***************************************************************************)

\* Ids not given yet have no topic, and no topic has no keywords.
NewIds ==
    \A t \in Topic : (t >= nextId => owner[t] = NoOwner) /\ (owner[t] = NoOwner => keywords[t] = {})

\* A topic the tagger has read still is its owner's, or deleted: ids are not
\* given a second time.
ReadIds ==
    \A t \in Topic : tagger.rules.owner[t] # NoOwner =>
        t < nextId /\ owner[t] \in {tagger.rules.owner[t], NoOwner}

\* What is in the tagger's batch is still waiting for it.
BatchPending == \A d \in tagger.batch : tagger.step = "batch" /\ status[d] = "pending"

TopicInv ==
    /\ TopicTypeOK /\ NewIds /\ ReadIds /\ BatchPending
    /\ StatusAgrees /\ TagOfOwnOrg /\ TaggedByCurrentRules

LEMMA TopicInitInv == TopicInit => TopicInv
  BY TopicInitType DEF TopicInit, TopicInv, NewIds, ReadIds, BatchPending, NoTagger, NoRules,
     StatusAgrees, TagOfOwnOrg, TaggedByCurrentRules

\* An admin request that changes topics of one organization and resets the tags
\* of its documents leaves the tags of all documents right.
LEMMA ResetInv ==
  ASSUME TopicInv, TopicTypeOK', NEW org \in Org, Reset(org), UNCHANGED tagger,
         \A t \in Topic : owner[t] \in Org \ {org} => owner'[t] = owner[t] /\ keywords'[t] = keywords[t],
         \A t \in Topic : owner'[t] \in Org \ {org} => owner[t] \in Org \ {org}
  PROVE  (BatchPending /\ StatusAgrees /\ TagOfOwnOrg /\ TaggedByCurrentRules)'
  <1>1. TopicTypeOK /\ BatchPending /\ StatusAgrees /\ TagOfOwnOrg /\ TaggedByCurrentRules
    BY DEF TopicInv
  <1>2. /\ \A d \in Doc : OrgOf[d] = org => tag'[d] = NoTopic /\ status'[d] = "pending"
        /\ \A d \in Doc : OrgOf[d] # org => tag'[d] = tag[d] /\ status'[d] = status[d]
    BY <1>1 DEF Reset, TopicTypeOK
  <1>3. BatchPending'
    BY <1>1, <1>2 DEF BatchPending, TopicTypeOK
  <1>4. StatusAgrees'
    BY <1>1, <1>2 DEF StatusAgrees
  <1>5. TagOfOwnOrg'
    <2> SUFFICES ASSUME NEW d \in Doc, tag'[d] # NoTopic PROVE owner'[tag'[d]] = OrgOf[d]
      BY DEF TagOfOwnOrg
    <2>1. OrgOf[d] # org /\ tag'[d] = tag[d] /\ tag[d] \in Topic /\ owner[tag[d]] = OrgOf[d]
      BY <1>1, <1>2 DEF TagOfOwnOrg, TopicTypeOK
    <2>2. owner[tag[d]] \in Org \ {org}
      BY <1>1, <2>1, OwnerFacts DEF TopicTypeOK
    <2>3. QED
      BY <2>1, <2>2
  <1>6. TaggedByCurrentRules'
    <2> DEFINE After == [owner |-> owner', keywords |-> keywords']
    <2> SUFFICES ASSUME NEW d \in Doc, d \notin stale', status'[d] # "pending"
                 PROVE  tag'[d] = TagBy(After, d)
      BY DEF TaggedByCurrentRules, Now
    <2>1. OrgOf[d] # org /\ d \notin stale /\ status[d] # "pending" /\ tag'[d] = tag[d]
      BY <1>2 DEF Reset, Renewed
    <2>2. tag[d] = TagBy(Now, d)
      BY <1>1, <2>1 DEF TaggedByCurrentRules
    <2>3. Now \in Rules /\ After \in Rules
      BY <1>1 DEF Now, Rules, TopicTypeOK
    <2>4. \A t \in Topic : owner[t] = OrgOf[d] <=> owner'[t] = OrgOf[d]
      BY <1>1, <2>1, OwnerFacts DEF TopicTypeOK
    <2>5. \A t \in Topic : owner[t] = OrgOf[d] => keywords'[t] = keywords[t]
      BY <1>1, <2>1, OwnerFacts DEF TopicTypeOK
    <2>6. Matching(Now, d) = Matching(After, d)
      BY <2>4, <2>5 DEF Matching, Matches, Now
    <2>7. \A t \in Matching(Now, d) : Matches(Now, t, d) = Matches(After, t, d)
      BY <2>5 DEF Matching, Matches, Now
    <2>8. QED
      BY <2>1, <2>2, <2>3, <2>6, <2>7, TagBySame
  <1>7. QED
    BY <1>3, <1>4, <1>5, <1>6

LEMMA CreateTopicInv ==
  ASSUME TopicInv, TopicTypeOK', NEW org \in Org, CreateTopic(org)
  PROVE  TopicInv'
  <1>1. /\ TopicTypeOK /\ NewIds /\ ReadIds /\ BatchPending
        /\ StatusAgrees /\ TagOfOwnOrg /\ TaggedByCurrentRules
    BY DEF TopicInv
  <1>2. /\ nextId \in Topic /\ owner[nextId] = NoOwner /\ keywords[nextId] = {} /\ nextId' = nextId + 1
        /\ owner' = [owner EXCEPT ![nextId] = org]
        /\ UNCHANGED <<keywords, tag, status, stale, tagger>>
    BY <1>1, TopicSizeAssumption DEF CreateTopic, AdminRequest, tags, TopicTypeOK, NewIds, Topic
  <1>3. \A t \in Topic : owner'[t] = IF t = nextId THEN org ELSE owner[t]
    BY <1>1, <1>2 DEF TopicTypeOK
  <1>4. nextId \in Nat /\ \A t \in Topic : t \in Nat
    BY <1>2, TopicSizeAssumption DEF Topic
  <1>5. NewIds' /\ ReadIds'
    BY <1>1, <1>2, <1>3, <1>4, OwnerFacts DEF NewIds, ReadIds
  <1>6. BatchPending' /\ StatusAgrees'
    BY <1>1, <1>2 DEF BatchPending, StatusAgrees
  <1>7. TagOfOwnOrg'
    BY <1>1, <1>2, <1>3, OwnerFacts DEF TagOfOwnOrg, TopicTypeOK
  <1>8. TaggedByCurrentRules'
    <2> DEFINE After == [owner |-> owner', keywords |-> keywords']
    <2> SUFFICES ASSUME NEW d \in Doc, d \notin stale', status'[d] # "pending"
                 PROVE  tag'[d] = TagBy(After, d)
      BY DEF TaggedByCurrentRules, Now
    <2>1. tag'[d] = TagBy(Now, d)
      BY <1>1, <1>2 DEF TaggedByCurrentRules
    <2>2. Now \in Rules /\ After \in Rules
      BY <1>1 DEF Now, Rules, TopicTypeOK
    <2>3. \A t \in Topic : Matches(Now, t, d) = Matches(After, t, d)
      BY <1>2 DEF Matches, Now
    <2>4. Matches(Now, nextId, d) = 0
      BY <1>2, OccurrencesAssumption DEF Matches, Now
    <2>5. Matching(Now, d) = Matching(After, d)
      BY <1>2, <1>3, <2>3, <2>4 DEF Matching, Now
    <2>6. QED
      BY <2>1, <2>2, <2>3, <2>5, TagBySame DEF Matching
  <1>9. QED
    BY <1>5, <1>6, <1>7, <1>8 DEF TopicInv

LEMMA DeleteTopicInv ==
  ASSUME TopicInv, TopicTypeOK', NEW t \in Topic, DeleteTopic(t)
  PROVE  TopicInv'
  <1>1. TopicTypeOK /\ NewIds /\ ReadIds
    BY DEF TopicInv
  <1>2. /\ owner[t] \in Org /\ Reset(owner[t]) /\ UNCHANGED <<nextId, tagger>>
        /\ \A u \in Topic : owner'[u] = IF u = t THEN NoOwner ELSE owner[u]
        /\ \A u \in Topic : keywords'[u] = IF u = t THEN {} ELSE keywords[u]
    BY <1>1 DEF DeleteTopic, AdminRequest, TopicTypeOK
  <1>3. NewIds' /\ ReadIds'
    BY <1>1, <1>2 DEF NewIds, ReadIds
  <1>4. QED
    BY <1>2, <1>3, ResetInv, OwnerFacts DEF TopicInv

LEMMA TopicKeywordInv ==
  ASSUME TopicInv, TopicTypeOK', NEW t \in Topic, NEW k \in Term, CreateKeyword(t, k) \/ DeleteKeyword(t, k)
  PROVE  TopicInv'
  <1>1. TopicTypeOK /\ NewIds /\ ReadIds
    BY DEF TopicInv
  <1>2. /\ owner[t] \in Org /\ Reset(owner[t]) /\ UNCHANGED <<owner, nextId, tagger>>
        /\ \A u \in Topic \ {t} : keywords'[u] = keywords[u]
    BY <1>1 DEF CreateKeyword, DeleteKeyword, AdminRequest, TopicTypeOK, NewIds
  <1>3. NewIds' /\ ReadIds'
    BY <1>1, <1>2, OwnerFacts DEF NewIds, ReadIds
  <1>4. QED
    BY <1>2, <1>3, ResetInv DEF TopicInv

LEMMA ImportInv ==
  ASSUME TopicInv, TopicTypeOK', NEW org \in Org, NEW file \in Files, ImportTopics(org, file)
  PROVE  TopicInv'
  <1> DEFINE last == nextId + Len(file) - 1
  <1>1. TopicTypeOK /\ NewIds /\ ReadIds
    BY DEF TopicInv
  <1>2. nextId \in Nat /\ last \in Nat /\ nextId <= last + 1 /\ nextId' = last + 1 /\ \A u \in Topic : u \in Nat
    BY <1>1, FileType, TopicSizeAssumption DEF ImportTopics, TopicTypeOK, Topic
  <1>3. /\ Reset(org) /\ UNCHANGED tagger
        /\ \A u \in Topic : owner'[u] = IF u \in nextId..last THEN org
                                        ELSE IF owner[u] = org THEN NoOwner ELSE owner[u]
        /\ \A u \in Topic : u \notin nextId..last =>
              keywords'[u] = IF owner[u] = org THEN {} ELSE keywords[u]
    BY <1>1 DEF ImportTopics, AdminRequest, TopicTypeOK
  <1>4. \A u \in nextId..last : u \in Topic => owner[u] = NoOwner
    BY <1>1, <1>2 DEF NewIds
  <1>5. NewIds'
    <2>1. ASSUME NEW u \in Topic, u >= nextId' PROVE owner'[u] = NoOwner
      <3>1. u \in Nat /\ u >= nextId /\ u \notin nextId..last
        BY <1>2, <2>1
      <3>2. QED
        BY <1>1, <1>3, <3>1, OwnerFacts DEF NewIds
    <2>2. ASSUME NEW u \in Topic, owner'[u] = NoOwner PROVE keywords'[u] = {}
      BY <1>1, <1>3, <2>2, OwnerFacts DEF NewIds
    <2>3. QED
      BY <2>1, <2>2 DEF NewIds
  <1>6. ReadIds'
    BY <1>1, <1>2, <1>3 DEF ReadIds
  <1>7. \A u \in Topic : owner[u] \in Org \ {org} => owner'[u] = owner[u] /\ keywords'[u] = keywords[u]
    BY <1>3, <1>4, OwnerFacts
  <1>8. \A u \in Topic : owner'[u] \in Org \ {org} => owner[u] \in Org \ {org}
    BY <1>3, OwnerFacts
  <1>9. QED
    BY <1>3, <1>5, <1>6, <1>7, <1>8, ResetInv DEF TopicInv

LEMMA TagBatchInv ==
  ASSUME TopicInv, TopicTypeOK', TagBatch
  PROVE  TopicInv'
  <1> DEFINE to(d) == TagBy(tagger.rules, d)
  <1>1. /\ TopicTypeOK /\ NewIds /\ ReadIds /\ BatchPending
        /\ StatusAgrees /\ TagOfOwnOrg /\ TaggedByCurrentRules
    BY DEF TopicInv
  <1>2. tagger.rules \in Rules /\ tagger.batch \subseteq Doc
    BY <1>1 DEF TopicTypeOK
  <1>3. /\ \A d \in Doc : tag'[d] = IF d \in tagger.batch /\ to(d) # NoTopic THEN to(d) ELSE tag[d]
        /\ \A d \in Doc : status'[d] = IF d \in tagger.batch
                                       THEN IF to(d) # NoTopic THEN "tagged" ELSE "none"
                                       ELSE status[d]
        /\ \A d \in tagger.batch : to(d) # NoTopic => owner[to(d)] # NoOwner
        /\ stale' = IF tagger.rules = Now THEN stale ELSE stale \union tagger.batch
        /\ tagger' = NoTagger /\ UNCHANGED <<owner, keywords, nextId>>
    BY DEF TagBatch, rules
  <1>4. \A d \in tagger.batch : status[d] = "pending" /\ tag[d] = NoTopic
    BY <1>1, <1>2 DEF BatchPending, StatusAgrees
  <1>5. NewIds' /\ ReadIds' /\ BatchPending'
    BY <1>1, <1>3 DEF NewIds, ReadIds, BatchPending, NoTagger, NoRules
  <1>6. StatusAgrees'
    BY <1>1, <1>3, <1>4 DEF StatusAgrees
  <1>7. TagOfOwnOrg'
    <2> SUFFICES ASSUME NEW d \in Doc, tag'[d] # NoTopic PROVE owner[tag'[d]] = OrgOf[d]
      BY <1>3 DEF TagOfOwnOrg
    <2>1. CASE d \in tagger.batch /\ to(d) # NoTopic
      <3>1. tag'[d] = to(d) /\ to(d) \in Topic /\ tagger.rules.owner[to(d)] = OrgOf[d]
        BY <1>2, <1>3, <2>1, TagByOwn
      <3>2. owner[to(d)] \in {OrgOf[d], NoOwner}
        BY <1>1, <3>1, OwnerFacts DEF ReadIds
      <3>3. QED
        BY <1>3, <2>1, <3>1, <3>2
    <2>2. CASE ~(d \in tagger.batch /\ to(d) # NoTopic)
      BY <1>1, <1>3, <2>2 DEF TagOfOwnOrg
    <2>3. QED
      BY <2>1, <2>2
  <1>8. TaggedByCurrentRules'
    <2> SUFFICES ASSUME NEW d \in Doc, d \notin stale', status'[d] # "pending"
                 PROVE  tag'[d] = TagBy(Now, d)
      BY <1>3 DEF TaggedByCurrentRules, Now
    <2>1. d \notin stale
      BY <1>3
    <2>2. CASE d \in tagger.batch
      <3>1. tagger.rules = Now
        BY <1>3, <2>2
      <3>2. QED
        BY <1>3, <1>4, <2>2, <3>1
    <2>3. CASE d \notin tagger.batch
      BY <1>1, <1>3, <2>1, <2>3 DEF TaggedByCurrentRules
    <2>4. QED
      BY <2>2, <2>3
  <1>9. QED
    BY <1>5, <1>6, <1>7, <1>8 DEF TopicInv

\* A step of the tagger that writes nothing.
LEMMA ReadInv ==
  ASSUME TopicInv, TopicTypeOK', UNCHANGED <<owner, keywords, nextId, tag, status, stale>>, ReadIds', BatchPending'
  PROVE  TopicInv'
  BY DEF TopicInv, NewIds, StatusAgrees, TagOfOwnOrg, TaggedByCurrentRules, Now

LEMMA TopicNextInv == TopicInv /\ [TopicNext]_topicVars => TopicInv'
  <1> SUFFICES ASSUME TopicInv, [TopicNext]_topicVars PROVE TopicInv'
    OBVIOUS
  <1>1. TopicTypeOK /\ TopicTypeOK' /\ NewIds /\ ReadIds /\ BatchPending
    BY TopicNextType DEF TopicInv
  <1>2. ASSUME tagger' = NoTagger PROVE ReadIds' /\ BatchPending'
    BY <1>2 DEF ReadIds, BatchPending, NoTagger, NoRules
  <1>3. CASE ReadRules
    <2>1. tagger'.rules.owner = owner /\ tagger'.batch = {}
      BY <1>3 DEF ReadRules, NoTagger, Now
    <2>2. ReadIds' /\ BatchPending'
      <3>1. \A t \in Topic : owner[t] # NoOwner => t < nextId
        BY <1>1, TopicSizeAssumption DEF NewIds, TopicTypeOK, Topic
      <3>2. QED
        BY <1>3, <2>1, <3>1 DEF ReadRules, rules, ReadIds, BatchPending
    <2>3. QED
      BY <1>1, <1>3, <2>2, ReadInv DEF ReadRules, rules, tags
  <1>4. CASE ReadBatch
    <2>1. PICK batch \in SUBSET Candidates : tagger' = [tagger EXCEPT !.step = "batch", !.batch = batch]
      BY <1>4 DEF ReadBatch, kSubset
    <2>2. tagger'.rules = tagger.rules /\ tagger'.batch = batch
      BY <1>1, <2>1 DEF TopicTypeOK
    <2>3. ReadIds' /\ BatchPending'
      BY <1>1, <1>4, <2>1, <2>2 DEF ReadBatch, rules, tags, ReadIds, BatchPending, Candidates
    <2>4. QED
      BY <1>1, <1>4, <2>3, ReadInv DEF ReadBatch, rules, tags
  <1>5. CASE FailBatch \/ Abort
    BY <1>1, <1>2, <1>5, ReadInv DEF FailBatch, Abort, rules, tags
  <1>6. CASE UNCHANGED topicVars
    BY <1>1, <1>6, ReadInv DEF topicVars, ReadIds, BatchPending
  <1>7. QED
    BY <1>1, <1>3, <1>4, <1>5, <1>6, CreateTopicInv, ImportInv, DeleteTopicInv, TopicKeywordInv,
       TagBatchInv DEF TopicNext

LEMMA TopicInvAlways == TopicSpec => []TopicInv
  BY TopicInitInv, TopicNextInv, PTL DEF TopicSpec

\* 'tagged' and a tag go together, whatever is deleted, imported and reset while
\* the tagger runs.
THEOREM StatusAndTag == TopicSpec => []StatusAgrees
  <1>1. TopicInv => StatusAgrees
    BY DEF TopicInv
  <1>2. QED
    BY <1>1, TopicInvAlways, PTL

\* No tag of a deleted topic or of another organization, in spite of rules read
\* in an earlier transaction.
THEOREM OwnTags == TopicSpec => []TagOfOwnOrg
  <1>1. TopicInv => TagOfOwnOrg
    BY DEF TopicInv
  <1>2. QED
    BY <1>1, TopicInvAlways, PTL

\* What is evaluated has the tag the current rules give it, unless they were
\* changed between the tagger's two transactions: the resets of the admin API
\* forget no document whose tag could change.
THEOREM CurrentTags == TopicSpec => []TaggedByCurrentRules
  <1>1. TopicInv => TaggedByCurrentRules
    BY DEF TopicInv
  <1>2. QED
    BY <1>1, TopicInvAlways, PTL

(***************************************************************************)
(* The tagger as a queue                                                   *)
(***************************************************************************)

LEMMA DocsFinite == ASSUME NEW S, S \subseteq Doc PROVE IsFiniteSet(S) /\ Cardinality(S) \in Nat
  BY DocAssumption, FS_Subset, FS_CardinalityType

\* The batch limits of classifier and tagger.
LEMMA BatchBounded ==
  ASSUME NEW n \in Nat, NEW S, S \subseteq Doc, NEW T \in kSubset(Min({n, Cardinality(S)}), S)
  PROVE  T \subseteq S /\ Cardinality(T) <= n
  <1>1. Cardinality(S) \in Nat
    BY DocsFinite
  <1>2. \E x \in {n, Cardinality(S)} : \A y \in {n, Cardinality(S)} : x <= y
    BY <1>1
  <1>3. Min({n, Cardinality(S)}) <= n
    BY <1>2 DEF Min
  <1>4. QED
    BY <1>3 DEF kSubset

LEMMA TagQueueStep ==
  ASSUME TopicInv, [TopicNext]_topicVars
  PROVE  [TagQueue!QueueNext]_(TagQueue!queueVars)
  <1> DEFINE W == {d \in Doc : status[d] = "pending"}
  <1>1. TopicTypeOK /\ BatchPending
    BY DEF TopicInv
  <1>2. ASSUME UNCHANGED <<status, tagger>> PROVE UNCHANGED TagQueue!queueVars
    BY <1>2 DEF TagQueue!queueVars
  <1>3. ASSUME NEW org, Reset(org), UNCHANGED tagger PROVE TagQueue!QueueNext
    <2>1. W' = W \union {d \in Doc : OrgOf[d] = org}
      BY <1>3 DEF Reset
    <2>2. TagQueue!Arrive({d \in Doc : OrgOf[d] = org})
      BY <1>3, <2>1 DEF TagQueue!Arrive
    <2>3. QED
      BY <2>2 DEF TagQueue!QueueNext
  <1>4. ASSUME NEW org \in Org, CreateTopic(org) PROVE UNCHANGED TagQueue!queueVars
    BY <1>2, <1>4 DEF CreateTopic, AdminRequest, tags
  <1>5. ASSUME NEW org \in Org, NEW file \in Files, ImportTopics(org, file) PROVE TagQueue!QueueNext
    BY <1>3, <1>5 DEF ImportTopics, AdminRequest
  <1>6. ASSUME NEW t \in Topic, DeleteTopic(t) PROVE TagQueue!QueueNext
    BY <1>3, <1>6 DEF DeleteTopic, AdminRequest
  <1>7. ASSUME NEW t \in Topic, NEW k \in Term, CreateKeyword(t, k) \/ DeleteKeyword(t, k)
        PROVE  TagQueue!QueueNext
    BY <1>3, <1>7 DEF CreateKeyword, DeleteKeyword, AdminRequest
  <1>8. CASE ReadRules \/ FailBatch \/ Abort
    <2>1. tagger'.batch = {} /\ status' = status
      <3>1. CASE ReadRules
        BY <3>1 DEF ReadRules, NoTagger, Now, tags
      <3>2. CASE FailBatch \/ Abort
        BY <3>2 DEF FailBatch, Abort, NoTagger, tags
      <3>3. QED
        BY <1>8, <3>1, <3>2
    <2>2. TagQueue!Abandon
      BY <2>1 DEF TagQueue!Abandon
    <2>3. QED
      BY <2>2 DEF TagQueue!QueueNext
  <1>9. CASE ReadBatch
    <2>1. PICK batch \in kSubset(Min({TagBatchSize, Cardinality(Candidates)}), Candidates) :
              tagger' = [tagger EXCEPT !.step = "batch", !.batch = batch]
      BY <1>9 DEF ReadBatch
    <2>2. Candidates \subseteq W /\ Candidates \subseteq Doc
      BY DEF Candidates
    <2>3. batch \subseteq Candidates /\ Cardinality(batch) <= TagBatchSize
      BY <2>1, <2>2, BatchBounded, TopicSizeAssumption
    <2>4. tagger'.batch = batch /\ status' = status
      BY <1>1, <1>9, <2>1 DEF TopicTypeOK, ReadBatch, tags
    <2>5. tagger.batch = {}
      BY <1>1, <1>9 DEF ReadBatch, BatchPending
    <2>6. TagQueue!Take(batch)
      BY <2>2, <2>3, <2>4, <2>5 DEF TagQueue!Take, TagQueue!Cardinality, Cardinality
    <2>7. batch \in SUBSET Doc
      BY <2>2, <2>3
    <2>8. QED
      BY <2>6, <2>7 DEF TagQueue!QueueNext
  <1>10. CASE TagBatch
    <2>1. tagger'.batch = {}
      BY <1>10 DEF TagBatch, NoTagger
    <2>2. \A d \in Doc : status'[d] = "pending" <=> status[d] = "pending" /\ d \notin tagger.batch
      BY <1>10 DEF TagBatch
    <2>3. TagQueue!Complete
      BY <2>1, <2>2 DEF TagQueue!Complete
    <2>4. QED
      BY <2>3 DEF TagQueue!QueueNext
  <1>11. CASE UNCHANGED topicVars
    BY <1>2, <1>11 DEF topicVars
  <1>12. QED
    BY <1>4, <1>5, <1>6, <1>7, <1>8, <1>9, <1>10, <1>11 DEF TopicNext

\* The tagger takes up to its batch size of pending documents and tags all of them or
\* none; admin requests put documents back, and nothing else does.
THEOREM TaggerIsQueue == TopicSpec => TagQueue!QueueSpec
  <1>1. TopicInit => TagQueue!QueueInit
    BY DEF TopicInit, NoTagger, TagQueue!QueueInit
  <1>2. TopicInv /\ [TopicNext]_topicVars => [TagQueue!QueueNext]_(TagQueue!queueVars)
    BY TagQueueStep
  <1>3. QED
    BY <1>1, <1>2, TopicInvAlways, PTL DEF TopicSpec, TagQueue!QueueSpec

(***************************************************************************)
(* The classifier as a queue                                               *)
(***************************************************************************)

LEMMA ClassQueueStep ==
  ASSUME Inv, [ContentNext]_contentVars
  PROVE  [ClassQueue!QueueNext]_(ClassQueue!queueVars)
  <1> DEFINE W == {d \in Doc : gate[d] = "matched" /\ class[d] = "pending"}
             H == run.todo \union {d \in Doc : run.out[d] # NoOutcome}
  <1>1. Typed /\ RunHolds
    BY DEF Inv
  <1>2. ASSUME UNCHANGED <<gate, class>>, H' = H PROVE UNCHANGED ClassQueue!queueVars
    BY <1>2 DEF ClassQueue!queueVars
  <1>3. ASSUME UNCHANGED <<gate, class>>, H' = {} PROVE ClassQueue!QueueNext
    <2>1. ClassQueue!Abandon
      BY <1>3 DEF ClassQueue!Abandon
    <2>2. QED
      BY <2>1 DEF ClassQueue!QueueNext
  <1>4. run.step # "rows" => H = {}
    BY <1>1 DEF RunHolds
  <1>5. CASE \/ \E d \in Doc : \E text \in SUBSET Keyword : EditDoc(d, text)
             \/ \E o \in Org, k \in Keyword : SelectKeyword(o, k) \/ DeselectKeyword(o, k)
             \/ \E k \in Keyword : ToggleKeyword(k)
             \/ \E o \in Org, mode \in Modes : SetMode(o, mode)
             \/ UNCHANGED contentVars
    <2>1. UNCHANGED <<gate, class, run>>
      BY <1>5 DEF EditDoc, SelectKeyword, DeselectKeyword, ToggleKeyword, SetMode, Request, documents, contentVars
    <2>2. QED
      BY <1>2, <2>1
  <1>6. CASE ReadKeywords \/ ReadOrgs \/ Finish \/ Die
    <2>1. run'.todo = {} /\ run'.out = NoRun.out /\ UNCHANGED <<gate, class>>
      <3>1. CASE ReadKeywords
        BY <3>1, NoRunType DEF ReadKeywords, documents, NoRun
      <3>2. CASE ReadOrgs
        BY <3>2, NoRunType DEF ReadOrgs, documents, NoRun
      <3>3. CASE Finish \/ Die
        BY <3>3, NoRunHolds DEF Finish, Die, documents
      <3>4. QED
        BY <1>6, <3>1, <3>2, <3>3
    <2>2. QED
      BY <1>3, <2>1, NoRunHolds
  <1>7. ASSUME NEW o \in Client, ReadMode(o) PROVE UNCHANGED ClassQueue!queueVars
    <2>1. run'.todo = run.todo /\ run'.out = run.out /\ UNCHANGED <<gate, class>>
      BY <1>1, <1>7 DEF ReadMode, Typed, Runs, documents
    <2>2. QED
      BY <1>2, <2>1
  <1>8. CASE FilterBatch
    <2>1. run'.todo = {} /\ run'.out = NoRun.out /\ run.step = "filter" /\ UNCHANGED class
      BY <1>8, NoRunType DEF FilterBatch, NoRun
    <2>2. H = {} /\ H' = {}
      BY <1>4, <2>1, NoRunHolds
    <2>3. \A d \in Doc : gate[d] = "matched" => gate'[d] = "matched"
      <3>1. PICK batch \in Chunk(FilterSize, PendingGate) :
              gate' = [d \in Doc |-> IF d \in {e \in batch : Opens(Found(e))} THEN "matched"
                                     ELSE IF d \in batch THEN "no_match" ELSE gate[d]]
        BY <1>8 DEF FilterBatch
      <3>2. batch \subseteq PendingGate
        BY <3>1, BatchIn
      <3>3. QED
        BY <3>1, <3>2 DEF PendingGate
    <2>4. W' = W \union W' /\ W' \in SUBSET Doc
      BY <2>1, <2>3
    <2>5. PICK S \in SUBSET Doc : S = W'
      BY <2>4
    <2>6. ClassQueue!Arrive(S)
      BY <2>2, <2>4, <2>5 DEF ClassQueue!Arrive
    <2>7. QED
      BY <2>6 DEF ClassQueue!QueueNext
  <1>9. CASE ReadRows
    <2>1. PICK batch \in Chunk(BatchSize, Waiting(run.org)) : run' = [run EXCEPT !.step = "rows", !.todo = batch]
      BY <1>9 DEF ReadRows
    <2>2. run'.todo = batch /\ run'.out = run.out /\ run.step = "mode" /\ UNCHANGED <<gate, class>>
      BY <1>1, <1>9, <2>1 DEF Typed, Runs, ReadRows, documents
    <2>3. Waiting(run.org) \subseteq W /\ Waiting(run.org) \subseteq Doc
      BY DEF Waiting
    <2>4. batch \subseteq Waiting(run.org) /\ Cardinality(batch) <= BatchSize
      BY <2>1, <2>3, BatchBounded, SizeAssumption DEF Chunk
    <2>5. H = {} /\ H' = batch
      BY <1>4, <2>2
    <2>6. ClassQueue!Take(batch)
      BY <2>2, <2>3, <2>4, <2>5 DEF ClassQueue!Take, ClassQueue!Cardinality, Cardinality
    <2>7. batch \in SUBSET Doc
      BY <2>3, <2>4
    <2>8. QED
      BY <2>6, <2>7 DEF ClassQueue!QueueNext
  <1>10. ASSUME NEW d \in Doc, Classify(d) PROVE UNCHANGED ClassQueue!queueVars
    <2>1. PICK cost \in Nat, o \in Outcomes :
            /\ run.step = "rows" /\ d \in run.todo /\ o.class # "pending"
            /\ cost > 0 => run.mode # "normal"
            /\ answers' = [answers EXCEPT ![d] = @ + cost]
            /\ run' = [run EXCEPT !.todo = @ \ {d}, !.out[d] = o]
            /\ UNCHANGED <<documents, config, ever, counts>>
      BY <1>1, <1>10, ClassifyStep
    <2>2. run'.todo = run.todo \ {d} /\ \A e \in Doc : run'.out[e] = IF e = d THEN o ELSE run.out[e]
      BY <1>1, <2>1 DEF Typed, Runs
    <2>3. o # NoOutcome /\ UNCHANGED <<gate, class>>
      BY <2>1 DEF NoOutcome, documents
    <2>4. H' = H
      BY <2>1, <2>2, <2>3
    <2>5. QED
      BY <1>2, <2>3, <2>4
  <1>11. CASE CommitClasses
    <2>1. run.todo = {} /\ UNCHANGED gate
      BY <1>11 DEF CommitClasses
    <2>2. run'.todo = {} /\ run'.out = NoRun.out
      BY <1>1, <1>11, <2>1 DEF CommitClasses, Typed, Runs
    <2>3. \A d \in Doc : class'[d] = IF run.out[d] # NoOutcome THEN run.out[d].class ELSE class[d]
      BY <1>11 DEF CommitClasses
    <2>4. \A d \in Doc : run.out[d] # NoOutcome => run.out[d].class # "pending"
      BY <1>1 DEF RunHolds
    <2>5. W' = W \ H /\ H' = {}
      BY <2>1, <2>2, <2>3, <2>4, NoRunHolds
    <2>6. ClassQueue!Complete
      BY <2>5 DEF ClassQueue!Complete
    <2>7. QED
      BY <2>6 DEF ClassQueue!QueueNext
  <1>12. QED
    BY <1>5, <1>6, <1>7, <1>8, <1>9, <1>10, <1>11 DEF ContentNext, Pipeline

\* The classifier takes up to its batch size of what has passed the gate, of one
\* organization at a time, and writes all of their classes in one commit or none.
THEOREM ClassifierIsQueue == ContentSpec => ClassQueue!QueueSpec
  <1>1. ContentInit => ClassQueue!QueueInit
    BY NoRunHolds DEF ContentInit, ClassQueue!QueueInit
  <1>2. Inv /\ [ContentNext]_contentVars => [ClassQueue!QueueNext]_(ClassQueue!queueVars)
    BY ClassQueueStep
  <1>3. QED
    BY <1>1, <1>2, InvAlways, PTL DEF ContentSpec, ClassQueue!QueueSpec

(***************************************************************************)
(* The matcher                                                             *)
(***************************************************************************)

MatcherTyped ==
    matcher \in [step : {"idle", "select", "tag"}, gazetteer : Seq(Form), docs : SUBSET Doc]

\* A run that writes holds documents without a row, and no other run holds any.
HoldsUnmatched == \A d \in matcher.docs : matcher.step = "tag" /\ entities[d] = {}

MatchInv == MatchTypeOK /\ MatcherTyped /\ HoldsUnmatched /\ MatchedRight

LEMMA NoMatcherType ==
  NoMatcher \in [step : {"idle", "select", "tag"}, gazetteer : Seq(Form), docs : SUBSET Doc]
  BY DEF NoMatcher

\* A concept found in a document gives one row, by the first of its forms in the gazetteer.
LEMMA RowsFoundWell ==
  ASSUME matcher.gazetteer \in Seq(Form), NEW d \in Doc, PlacesOf(d) # {}
  PROVE  /\ RowsFound(d) # {} /\ RowsFound(d) \subseteq RowsOf
         /\ \A row \in RowsFound(d) :
               /\ \E f \in Form : d \in FoundIn[f] /\ row = RowOf(f)
               /\ \A other \in RowsFound(d) : row.concept = other.concept => row = other
  <1> DEFINE g == matcher.gazetteer
             P == PlacesOf(d)
             First(k) == \A j \in P : j < k => ConceptOf[g[j]] # ConceptOf[g[k]]
  <1>1. P \subseteq Nat /\ \A k \in P : g[k] \in Form /\ d \in FoundIn[g[k]]
    BY DEF PlacesOf
  <1>2. RowsFound(d) = {RowOf(g[i]) : i \in {k \in P : First(k)}}
    BY DEF RowsFound
  <1>3. \E k \in P : First(k)
    <2>1. PICK k \in P : \A j \in P : ~(<<j, k>> \in OpToRel(<, Nat))
      BY <1>1, NatLessThanWellFounded, WFMin
    <2>2. \A j \in P : ~(j < k)
      BY <1>1, <2>1 DEF OpToRel
    <2>3. QED
      BY <2>2
  <1>4. ASSUME NEW i \in P, NEW k \in P, First(i), First(k), ConceptOf[g[i]] = ConceptOf[g[k]]
        PROVE  i = k
    BY <1>1, <1>4
  <1>5. \A f \in Form : RowOf(f) \in RowsOf /\ RowOf(f).concept = ConceptOf[f]
    BY DEF RowOf, RowsOf, Concepts
  <1> HIDE DEF g, P, First
  <1>6. RowsFound(d) # {}
    BY <1>2, <1>3
  <1>7. RowsFound(d) \subseteq RowsOf
    BY <1>1, <1>2, <1>5
  <1>8. ASSUME NEW row \in RowsFound(d)
        PROVE  /\ \E f \in Form : d \in FoundIn[f] /\ row = RowOf(f)
               /\ \A other \in RowsFound(d) : row.concept = other.concept => row = other
    <2>1. PICK i \in P : First(i) /\ row = RowOf(g[i])
      BY <1>2
    <2>2. ASSUME NEW other \in RowsFound(d), row.concept = other.concept PROVE row = other
      <3>1. PICK k \in P : First(k) /\ other = RowOf(g[k])
        BY <1>2
      <3>2. i = k
        BY <1>1, <1>4, <1>5, <2>1, <2>2, <3>1
      <3>3. QED
        BY <2>1, <3>1, <3>2
    <2>3. QED
      BY <1>1, <2>1, <2>2
  <1>9. QED
    BY <1>6, <1>7, <1>8

LEMMA MatchInitInv == MatchInit => MatchInv
  <1> SUFFICES ASSUME MatchInit PROVE MatchInv
    OBVIOUS
  <1>1. matcher = NoMatcher /\ \A d \in Doc : entities[d] = {}
    BY DEF MatchInit
  <1>2. MatcherTyped /\ HoldsUnmatched
    BY <1>1, NoMatcherType DEF MatcherTyped, HoldsUnmatched, NoMatcher
  <1>3. forms \in [Form -> {"absent", "active", "inactive"}]
    BY DEF MatchInit
  <1>4. formChanges \in 0..MaxForms
    BY FormAssumption DEF MatchInit
  <1>5. entities \in [Doc -> SUBSET RowsOf]
    BY DEF MatchInit
  <1>6. MatchTypeOK
    BY <1>2, <1>3, <1>4, <1>5 DEF MatchTypeOK, MatcherTyped
  <1>7. MatchedRight
    BY <1>1 DEF MatchedRight
  <1>8. QED
    BY <1>2, <1>6, <1>7 DEF MatchInv

\* A step that writes no rows.
LEMMA MatchReads ==
  ASSUME MatchInv, UNCHANGED entities, MatcherTyped', HoldsUnmatched',
         forms' \in [Form -> {"absent", "active", "inactive"}], formChanges' \in 0..MaxForms
  PROVE  MatchInv'
  BY DEF MatchInv, MatchTypeOK, MatcherTyped, MatchedRight, MatchedWell

LEMMA CommitMatchesInv ==
  ASSUME MatchInv, CommitMatches
  PROVE  /\ MatchInv'
         /\ \A d \in Doc : entities'[d] = {} <=> entities[d] = {} /\ d \notin matcher.docs
         /\ \A d \in Doc : entities[d] # {} => entities'[d] = entities[d]
  <1>1. MatchTypeOK /\ MatcherTyped /\ HoldsUnmatched /\ MatchedRight
    BY DEF MatchInv
  <1>2. \A d \in Doc : entities'[d] = IF d \notin matcher.docs THEN entities[d]
                                      ELSE IF PlacesOf(d) = {} THEN {Checked} ELSE RowsFound(d)
    BY DEF CommitMatches
  <1>3. DOMAIN entities' = Doc /\ entities' = [d \in Doc |-> entities'[d]]
    BY DEF CommitMatches
  <1>4. matcher.gazetteer \in Seq(Form) /\ matcher' = NoMatcher /\ UNCHANGED <<forms, formChanges>>
    BY <1>1 DEF MatcherTyped, CommitMatches
  <1>5. ASSUME NEW d \in matcher.docs, d \in Doc
        PROVE  entities'[d] # {} /\ entities'[d] \subseteq RowsOf /\ MatchedWell(d)'
    <2>1. CASE PlacesOf(d) = {}
      <3>1. entities'[d] = {Checked}
        BY <1>2, <1>5, <2>1
      <3>2. Checked \in RowsOf
        BY DEF Checked, RowsOf
      <3>3. MatchedWell(d)'
        BY <3>1 DEF MatchedWell, Checked
      <3>4. QED
        BY <3>1, <3>2, <3>3
    <2>2. CASE PlacesOf(d) # {}
      <3>1. entities'[d] = RowsFound(d)
        BY <1>2, <1>5, <2>2
      <3>2. QED
        BY <1>4, <1>5, <2>2, <3>1, RowsFoundWell DEF MatchedWell
    <2>3. QED
      BY <2>1, <2>2
  <1>6. ASSUME NEW d \in Doc, d \notin matcher.docs PROVE entities'[d] = entities[d]
    BY <1>2, <1>6
  <1>7. \A d \in Doc : entities'[d] \in SUBSET RowsOf
    BY <1>1, <1>5, <1>6 DEF MatchTypeOK
  <1>8. MatchedRight'
    BY <1>1, <1>5, <1>6 DEF MatchedRight, MatchedWell
  <1>9. MatchTypeOK'
    BY <1>1, <1>3, <1>4, <1>7, NoMatcherType DEF MatchTypeOK
  <1>10. MatcherTyped' /\ HoldsUnmatched'
    BY <1>4, NoMatcherType DEF MatcherTyped, HoldsUnmatched, NoMatcher
  <1>11. matcher.docs \subseteq Doc /\ \A d \in matcher.docs : entities[d] = {}
    BY <1>1 DEF MatcherTyped, HoldsUnmatched
  <1>12. QED
    BY <1>5, <1>6, <1>8, <1>9, <1>10, <1>11 DEF MatchInv

LEMMA SelectTaken ==
  ASSUME MatchInv, SelectUnmatched
  PROVE  \E docs \in SUBSET Doc :
            /\ docs \subseteq Unmatched /\ Cardinality(docs) <= MatchBatch
            /\ matcher.docs = {} /\ matcher'.docs = docs /\ matcher'.step = "tag" /\ MatcherTyped'
  <1>1. PICK docs \in SUBSET Unmatched :
            /\ Cardinality(docs) <= MatchBatch
            /\ docs # Unmatched => Cardinality(docs) = MatchBatch
            /\ matcher' = [matcher EXCEPT !.step = "tag", !.docs = docs]
    BY DEF SelectUnmatched
  <1>2. docs \in SUBSET Doc
    BY <1>1 DEF Unmatched
  <1>3. matcher'.docs = docs /\ matcher'.step = "tag" /\ MatcherTyped'
    BY <1>1, <1>2 DEF MatchInv, MatcherTyped
  <1>4. matcher.docs = {}
    BY DEF MatchInv, HoldsUnmatched, SelectUnmatched
  <1>5. QED
    BY <1>1, <1>2, <1>3, <1>4

LEMMA MatchNextInv == MatchInv /\ [MatchNext]_matchVars => MatchInv'
  <1> SUFFICES ASSUME MatchInv, [MatchNext]_matchVars PROVE MatchInv'
    OBVIOUS
  <1>1. MatchTypeOK /\ MatcherTyped /\ HoldsUnmatched
    BY DEF MatchInv
  <1>2. ASSUME ChangeForms, forms' \in [Form -> {"absent", "active", "inactive"}] PROVE MatchInv'
    <2>1. UNCHANGED <<entities, matcher>> /\ formChanges' \in 0..MaxForms
      BY <1>1, <1>2, FormAssumption DEF ChangeForms, MatchTypeOK
    <2>2. QED
      BY <1>1, <1>2, <2>1, MatchReads DEF MatcherTyped, HoldsUnmatched
  <1>3. ASSUME NEW f \in Form, CreateForm(f) PROVE MatchInv'
    BY <1>1, <1>2, <1>3 DEF CreateForm, MatchTypeOK
  <1>4. ASSUME NEW f \in Form, NEW state \in {"absent", "active", "inactive"}, UpdateEntity(NameOf[f], state)
        PROVE  MatchInv'
    BY <1>1, <1>2, <1>4 DEF UpdateEntity, MatchTypeOK
  <1>5. CASE StartMatch
    <2>1. PICK gazetteer \in SetToSeqs(ActiveForms) :
            matcher' = [NoMatcher EXCEPT !.step = "select", !.gazetteer = gazetteer]
      BY <1>5 DEF StartMatch
    <2>2. gazetteer \in Seq(Form)
      <3>1. ActiveForms \subseteq Form /\ IsFiniteSet(ActiveForms)
        BY FormAssumption, FS_Subset DEF ActiveForms
      <3>2. Cardinality(ActiveForms) \in Nat
        BY <3>1, FS_CardinalityType
      <3>3. gazetteer \in [1..Cardinality(ActiveForms) -> ActiveForms]
        BY <2>1 DEF SetToSeqs
      <3>4. QED
        BY <3>1, <3>2, <3>3
    <2>3. MatcherTyped' /\ HoldsUnmatched'
      BY <2>1, <2>2 DEF MatcherTyped, HoldsUnmatched, NoMatcher
    <2>4. QED
      BY <1>1, <1>5, <2>3, MatchReads DEF StartMatch, MatchTypeOK
  <1>6. CASE SelectUnmatched
    <2>1. MatcherTyped' /\ HoldsUnmatched'
      BY <1>6, SelectTaken DEF SelectUnmatched, HoldsUnmatched, Unmatched
    <2>2. QED
      BY <1>1, <1>6, <2>1, MatchReads DEF SelectUnmatched, MatchTypeOK
  <1>7. CASE CommitMatches
    BY <1>7, CommitMatchesInv
  <1>8. CASE MatchDies
    <2>1. MatcherTyped' /\ HoldsUnmatched'
      BY <1>8, NoMatcherType DEF MatchDies, MatcherTyped, HoldsUnmatched, NoMatcher
    <2>2. QED
      BY <1>1, <1>8, <2>1, MatchReads DEF MatchDies, MatchTypeOK
  <1>9. CASE UNCHANGED matchVars
    BY <1>1, <1>9, MatchReads DEF matchVars, MatchTypeOK, MatcherTyped, HoldsUnmatched
  <1>10. QED
    BY <1>3, <1>4, <1>5, <1>6, <1>7, <1>8, <1>9 DEF MatchNext

LEMMA MatchInvAlways == MatchSpec => []MatchInv
  BY MatchInitInv, MatchNextInv, PTL DEF MatchSpec

\* Gazetteer, rows and run are well-typed in every reachable state.
THEOREM MatchTypeCorrect == MatchSpec => []MatchTypeOK
  <1>1. MatchInv => MatchTypeOK
    BY DEF MatchInv
  <1>2. QED
    BY <1>1, MatchInvAlways, PTL

\* A document with rows has the names of forms in its text, one for a concept, or the row
\* that marks it as checked and no name beside it, in whatever order the gazetteer was read
\* and however it has been changed since.
THEOREM RowsAreRight == MatchSpec => []MatchedRight
  <1>1. MatchInv => MatchedRight
    BY DEF MatchInv
  <1>2. QED
    BY <1>1, MatchInvAlways, PTL

\* What a step that does not commit leaves as it is.
LEMMA NoCommit ==
  ASSUME [MatchNext]_matchVars, ~CommitMatches
  PROVE  UNCHANGED entities
  BY DEF MatchNext, CreateForm, UpdateEntity, ChangeForms, StartMatch, SelectUnmatched, MatchDies, matchVars

\* No run and no change of the gazetteer touches the rows of a document that has been matched.
THEOREM RowsStay == MatchSpec => MatchedOnce
  <1>1. MatchInv /\ [MatchNext]_matchVars
        => [\A d \in Doc : entities[d] # {} => entities'[d] = entities[d]]_matchVars
    BY CommitMatchesInv, NoCommit
  <1>2. QED
    BY <1>1, MatchInvAlways, PTL DEF MatchSpec, MatchedOnce

LEMMA MatchQueueStep ==
  ASSUME MatchInv, [MatchNext]_matchVars
  PROVE  [MatchQueue!QueueNext]_(MatchQueue!queueVars)
  <1>1. ASSUME UNCHANGED entities, matcher'.docs = {} PROVE MatchQueue!QueueNext
    <2>1. MatchQueue!Abandon
      BY <1>1 DEF MatchQueue!Abandon, Unmatched
    <2>2. QED
      BY <2>1 DEF MatchQueue!QueueNext
  <1>2. CASE SelectUnmatched
    <2>1. PICK docs \in SUBSET Doc :
            /\ docs \subseteq Unmatched /\ Cardinality(docs) <= MatchBatch
            /\ matcher.docs = {} /\ matcher'.docs = docs
      BY <1>2, SelectTaken
    <2>2. Unmatched' = Unmatched
      BY <1>2 DEF SelectUnmatched, Unmatched
    <2>3. MatchQueue!Take(docs)
      BY <2>1, <2>2 DEF MatchQueue!Take, MatchQueue!Cardinality, Cardinality
    <2>4. QED
      BY <2>1, <2>3 DEF MatchQueue!QueueNext
  <1>3. CASE CommitMatches
    <2>1. Unmatched' = Unmatched \ matcher.docs /\ matcher'.docs = {}
      BY <1>3, CommitMatchesInv DEF CommitMatches, NoMatcher, Unmatched
    <2>2. MatchQueue!Complete
      BY <2>1 DEF MatchQueue!Complete
    <2>3. QED
      BY <2>2 DEF MatchQueue!QueueNext
  <1>4. CASE StartMatch \/ MatchDies
    <2>1. CASE StartMatch
      <3>1. PICK gazetteer \in SetToSeqs(ActiveForms) :
              matcher' = [NoMatcher EXCEPT !.step = "select", !.gazetteer = gazetteer]
        BY <2>1 DEF StartMatch
      <3>2. UNCHANGED entities /\ matcher'.docs = {}
        BY <2>1, <3>1 DEF StartMatch, NoMatcher
      <3>3. QED
        BY <1>1, <3>2
    <2>2. CASE MatchDies
      <3>1. UNCHANGED entities /\ matcher'.docs = {}
        BY <2>2 DEF MatchDies, NoMatcher
      <3>2. QED
        BY <1>1, <3>1
    <2>3. QED
      BY <1>4, <2>1, <2>2
  <1>5. CASE \/ \E f \in Form : CreateForm(f) \/ \E state \in {"absent", "active", "inactive"} : UpdateEntity(NameOf[f], state)
             \/ UNCHANGED matchVars
    <2>1. UNCHANGED <<entities, matcher>>
      BY <1>5 DEF CreateForm, UpdateEntity, ChangeForms, matchVars
    <2>2. QED
      BY <2>1 DEF MatchQueue!queueVars, Unmatched
  <1>6. QED
    BY <1>2, <1>3, <1>4, <1>5 DEF MatchNext

\* The matcher takes up to its batch size of documents without a row and gives all of them
\* their rows or none; a document with a row is never taken again.
THEOREM MatcherIsQueue == MatchSpec => MatchQueue!QueueSpec
  <1>1. MatchInit => MatchQueue!QueueInit
    BY DEF MatchInit, NoMatcher, Unmatched, MatchQueue!QueueInit
  <1>2. MatchInv /\ [MatchNext]_matchVars => [MatchQueue!QueueNext]_(MatchQueue!queueVars)
    BY MatchQueueStep
  <1>3. QED
    BY <1>1, <1>2, MatchInvAlways, PTL DEF MatchSpec, MatchQueue!QueueSpec

(***************************************************************************)
(* The parts together                                                      *)
(***************************************************************************)

LEMMA PipelineParts ==
  ASSUME [PipelineNext]_allVars
  PROVE  [ContentNext]_contentVars /\ [TopicNext]_topicVars /\ [MatchNext]_matchVars
  BY DEF PipelineNext, OfContent, OfTopics, OfNames, allVars

\* What MCPipeline puts side by side are the parts as they are: a behaviour of it is one of
\* every part, and what is proved of a part holds there.
THEOREM PipelineIsItsParts == PipelineSpec => ContentSpec /\ TopicSpec /\ MatchSpec
  <1>1. PipelineInit => ContentInit /\ TopicInit /\ MatchInit
    BY DEF PipelineInit
  <1>2. QED
    BY <1>1, PipelineParts, PTL DEF PipelineSpec, ContentSpec, TopicSpec, MatchSpec

\* Classifier, tagger and matcher side by side are three queues.
THEOREM QueuesImplemented == PipelineSpec => ImplementsQueues
  BY PipelineIsItsParts, ClassifierIsQueue, TaggerIsQueue, MatcherIsQueue, PTL DEF ImplementsQueues

(***************************************************************************)
(* What the portal reads                                                   *)
(***************************************************************************)

\* A document has keywords when the gate has let it pass, and not before.
HitsWithGate == \A d \in Doc : gate[d] # "matched" => hits[d] = {}

\* What a batch of the gate does: it decides on what was waiting for it.
LEMMA GateStep ==
  ASSUME FilterBatch
  PROVE  \A d \in Doc :
            /\ gate[d] # "pending" => gate'[d] = gate[d] /\ hits'[d] = hits[d]
            /\ gate'[d] # "matched" => hits'[d] = hits[d]
  <1>1. PICK batch \in Chunk(FilterSize, PendingGate) :
          /\ gate' = [d \in Doc |-> IF d \in {e \in batch : Opens(Found(e))} THEN "matched"
                                    ELSE IF d \in batch THEN "no_match" ELSE gate[d]]
          /\ hits' = [d \in Doc |-> IF d \in {e \in batch : Opens(Found(e))} THEN Found(d) ELSE hits[d]]
    BY DEF FilterBatch
  <1>2. batch \subseteq PendingGate
    BY <1>1, BatchIn
  <1>3. QED
    BY <1>1, <1>2 DEF PendingGate

LEMMA GateElsewhere ==
  ASSUME [ContentNext]_contentVars, ~FilterBatch
  PROVE  UNCHANGED <<gate, hits>>
  BY DEF ContentNext, Pipeline, EditDoc, SelectKeyword, DeselectKeyword, ToggleKeyword, SetMode, Request,
     ReadKeywords, ReadOrgs, ReadMode, ReadRows, Classify, CommitClasses, Finish, Die, documents, contentVars

LEMMA HitsAlways == ContentSpec => []HitsWithGate
  <1>1. ContentInit => HitsWithGate
    BY DEF ContentInit, HitsWithGate
  <1>2. HitsWithGate /\ [ContentNext]_contentVars => HitsWithGate'
    <2> SUFFICES ASSUME HitsWithGate, [ContentNext]_contentVars PROVE HitsWithGate'
      OBVIOUS
    <2>1. CASE FilterBatch
      <3> SUFFICES ASSUME NEW d \in Doc, gate'[d] # "matched" PROVE hits'[d] = {}
        BY DEF HitsWithGate
      <3>1. hits'[d] = hits[d]
        BY <2>1, GateStep
      <3>2. gate[d] # "matched"
        BY <2>1, GateStep
      <3>3. QED
        BY <3>1, <3>2 DEF HitsWithGate
    <2>2. CASE ~FilterBatch
      BY <2>2, GateElsewhere DEF HitsWithGate
    <2>3. QED
      BY <2>1, <2>2
  <1>3. QED
    BY <1>1, <1>2, PTL DEF ContentSpec

LEMMA ClassElsewhere ==
  ASSUME [ContentNext]_contentVars, ~CommitClasses
  PROVE  UNCHANGED class
  BY DEF ContentNext, Pipeline, EditDoc, SelectKeyword, DeselectKeyword, ToggleKeyword, SetMode, Request, FilterBatch,
     ReadKeywords, ReadOrgs, ReadMode, ReadRows, Classify, Finish, Die, documents, contentVars

LEMMA ClassStep ==
  ASSUME Inv, CommitClasses, NEW d \in Doc, class'[d] # class[d]
  PROVE  gate[d] = "matched" /\ class[d] = "pending"
  <1>1. run.out[d] # NoOutcome
    BY DEF CommitClasses
  <1>2. QED
    BY <1>1 DEF Inv, RunHolds, AtHand

\* The gate decides once on a document and its keywords stay; a class is only given to
\* what it has let pass, once.
THEOREM StepsAreOnce == ContentSpec => StepsOnce
  <1>1. ASSUME Inv, [ContentNext]_contentVars, NEW d \in Doc
        PROVE  /\ gate[d] # "pending" => gate'[d] = gate[d] /\ hits'[d] = hits[d]
               /\ class'[d] # class[d] => gate[d] = "matched" /\ class[d] = "pending"
    <2>1. gate[d] # "pending" => gate'[d] = gate[d] /\ hits'[d] = hits[d]
      BY <1>1, GateStep, GateElsewhere
    <2>2. class'[d] # class[d] => gate[d] = "matched" /\ class[d] = "pending"
      BY <1>1, ClassStep, ClassElsewhere
    <2>3. QED
      BY <2>1, <2>2
  <1>2. Inv /\ [ContentNext]_contentVars
        => [\A d \in Doc :
              /\ gate[d] # "pending" => gate'[d] = gate[d] /\ hits'[d] = hits[d]
              /\ class'[d] # class[d] => gate[d] = "matched" /\ class[d] = "pending"]_contentVars
    BY <1>1
  <1>3. QED
    BY <1>2, InvAlways, PTL DEF ContentSpec, StepsOnce

\* What the portal reads of a document: the columns the gate and the classifier write (the
\* sentiment is what the model said), the tag, and the names but for the mark of none.
Focus(d) ==
    IF hits[d] \intersect Brand # {} THEN "own" ELSE IF hits[d] \intersect Competitor # {} THEN "competitor" ELSE ""
NamesOf(d) == {row.name : row \in {r \in entities[d] : r.concept # "__none__"}}
PortalRow(d, said) ==
    [gate |-> gate[d], focus |-> Focus(d), class |-> class[d],
     sentiment |-> IF class[d] = "completed" THEN said ELSE "",
     tag |-> tag[d], names |-> NamesOf(d)]

\* PortalData for the documents the pipeline works on; of the parameters, Document and
\* Processed depend on Name, Sentiment, Topic and NoTopic.
Portal == INSTANCE PortalData WITH
    Target <- Client, TargetOf <- OrgOf, Foreign <- {}, PlatformOf <- [o \in Client |-> ""],
    Published <- [d \in Doc |-> 0], DayLength <- 8, Name <- {NameOf[f] : f \in Form},
    Sentiment <- {"positive", "negative", "neutral"}, Seeds <- {}, MaxWrites <- 0,
    doc <- [d \in Doc |-> PortalRow(d, "neutral")], tracked <- {}, granted <- {}, writes <- 0

LEMMA RowProcessed ==
  ASSUME Inv, HitsWithGate, TopicTypeOK, MatchInv, NEW d \in Doc,
         NEW said \in {"positive", "negative", "neutral"}
  PROVE  PortalRow(d, said) \in Portal!Document /\ Portal!Processed(PortalRow(d, said))
  <1>1. gate[d] \in {"pending", "no_match", "matched"} /\ class[d] \in {"pending", "completed", "failed"}
    BY DEF Inv, Typed, DocumentsTyped
  <1>2. Focus(d) \in {"", "own", "competitor"} /\ (Focus(d) # "" <=> hits[d] \intersect (Brand \union Competitor) # {})
    BY DEF Focus
  <1>3. hits[d] \intersect (Brand \union Competitor) # {} <=> gate[d] = "matched"
    BY DEF Inv, OwnKeywords, HitsWithGate
  <1>4. class[d] # "pending" => gate[d] = "matched"
    BY DEF Inv, GateHolds
  <1>5. tag[d] \in Topic \union {NoTopic}
    BY DEF TopicTypeOK
  <1>6. NamesOf(d) \subseteq {NameOf[f] : f \in Form}
    <2> SUFFICES ASSUME NEW row \in entities[d], row.concept # "__none__"
                 PROVE  row.name \in {NameOf[f] : f \in Form}
      BY DEF NamesOf
    <2>1. entities[d] = {} \/ MatchedWell(d)
      BY DEF MatchInv, MatchedRight
    <2>2. row # Checked
      BY DEF Checked
    <2>3. PICK f \in Form : row = RowOf(f)
      BY <2>1, <2>2 DEF MatchedWell
    <2>4. QED
      BY <2>3 DEF RowOf
  <1> DEFINE row == PortalRow(d, said)
  <1>7. /\ row.gate = gate[d] /\ row.focus = Focus(d) /\ row.class = class[d] /\ row.tag = tag[d]
        /\ row.names = NamesOf(d) /\ row.sentiment = IF class[d] = "completed" THEN said ELSE ""
    BY DEF PortalRow
  <1>8. row \in Portal!Document
    BY <1>1, <1>2, <1>5, <1>6 DEF PortalRow, Portal!Document
  <1>9. Portal!Processed(row)
    BY <1>2, <1>3, <1>4, <1>7 DEF Portal!Processed
  <1>10. QED
    BY <1>8, <1>9

\* Gate and classifier, tagger and matcher at work at the same time, whatever the model says of
\* each document: at every moment the documents are such as PortalData begins with and its
\* queries rest on.
THEOREM WhatThePortalReads ==
  ASSUME NEW CONSTANT Said, Said \in [Doc -> {"positive", "negative", "neutral"}]
  PROVE  ContentSpec /\ TopicSpec /\ MatchSpec
         => [](\A d \in Doc : PortalRow(d, Said[d]) \in Portal!Document /\ Portal!Processed(PortalRow(d, Said[d])))
  <1>1. Inv /\ HitsWithGate /\ TopicTypeOK /\ MatchInv
        => \A d \in Doc : PortalRow(d, Said[d]) \in Portal!Document /\ Portal!Processed(PortalRow(d, Said[d]))
    <2> SUFFICES ASSUME Inv, HitsWithGate, TopicTypeOK, MatchInv, NEW d \in Doc
                 PROVE  PortalRow(d, Said[d]) \in Portal!Document /\ Portal!Processed(PortalRow(d, Said[d]))
      OBVIOUS
    <2>1. Said[d] \in {"positive", "negative", "neutral"}
      OBVIOUS
    <2>2. QED
      BY <2>1, RowProcessed
  <1>2. QED
    BY <1>1, InvAlways, HitsAlways, TopicTypeCorrect, MatchInvAlways, PTL
=============================================================================
