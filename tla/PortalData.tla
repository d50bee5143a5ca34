--------------------------------- MODULE PortalData ---------------------------------
(***************************************************************************)
(* What the portal of one organization reads: documents with what the      *)
(* pipeline has written to them, the names the organization tracks, and    *)
(* the sources its sub-account is granted.  Everybody who writes these     *)
(* commits while requests are reading.                                     *)
(***************************************************************************)
EXTENDS Integers, FiniteSets, FiniteSetsExt, Sequences, Maps

CONSTANTS
    Doc,
    Target, TargetOf,  \* the source of a document
    Foreign,           \* sources of other organizations
    PlatformOf,        \* the platform_type of a source
    Published,         \* published_at
    DayLength,
    Name,              \* canonical names of the gazetteer
    Sentiment,         \* "positive", "negative", "neutral"
    Topic, NoTopic,
    Seeds,             \* documents as the requests find them
    MaxWrites          \* bound: writes while requests are read

ASSUME DocumentAssumption ==
    /\ TargetOf \in [Doc -> Target] /\ Foreign \subseteq Target
    /\ Published \in [Doc -> Nat] /\ DayLength \in Nat
    /\ NoTopic \notin Topic /\ Sentiment = {"positive", "negative", "neutral"}
    /\ MaxWrites \in Nat

Platform == {PlatformOf[t] : t \in Target}

VARIABLES
    doc,      \* documents: [gate, focus, class, sentiment, tag, names]
    tracked,  \* organization_entities
    granted,  \* user_target_access of the sub-account
    writes

dataVars == <<doc, tracked, granted, writes>>

Absent == [gate |-> "absent", focus |-> "", class |-> "pending", sentiment |-> "", tag |-> NoTopic, names |-> {}]

Document ==
    [gate : {"absent", "pending", "no_match", "matched"}, focus : {"", "own", "competitor"},
     class : {"pending", "completed", "failed"}, sentiment : Sentiment \union {""},
     tag : Topic \union {NoTopic}, names : SUBSET Name]

\* A document the pipeline has done its steps with in their order.
Processed(row) ==
    /\ row.focus # "" <=> row.gate = "matched"
    /\ row.class # "pending" => row.gate = "matched"
    /\ row.sentiment # "" <=> row.class = "completed"

ASSUME SeedAssumption == \A seed \in Seeds : seed \in [Doc -> Document] /\ \A d \in Doc : Processed(seed[d])

DataTypeOK ==
    /\ doc \in [Doc -> Document]
    /\ tracked \subseteq Name /\ granted \subseteq Target \ Foreign
    /\ writes \in 0..MaxWrites

DataInit ==
    /\ doc \in Seeds
    /\ tracked = Name /\ granted = Target \ Foreign
    /\ writes = 0

Write ==
    /\ writes < MaxWrites
    /\ writes' = writes + 1

\* save_document, save_post.
Crawl(d) ==
    /\ Write /\ doc[d].gate = "absent"
    /\ doc' = [doc EXCEPT ![d].gate = "pending"]
    /\ UNCHANGED <<tracked, granted>>

\* run_keyword_filter: no focus without a match.
Gate(d, focus) ==
    /\ Write /\ doc[d].gate = "pending"
    /\ doc' = [doc EXCEPT ![d].gate = IF focus = "" THEN "no_match" ELSE "matched", ![d].focus = focus]
    /\ UNCHANGED <<tracked, granted>>

\* run_classify: a sentiment comes with the status "completed" only.
Classify(d, sentiment) ==
    /\ Write /\ doc[d].gate = "matched" /\ doc[d].class = "pending"
    /\ doc' = [doc EXCEPT ![d].class = IF sentiment = "" THEN "failed" ELSE "completed", ![d].sentiment = sentiment]
    /\ UNCHANGED <<tracked, granted>>

\* run_topic_tag, and the reset when topics change.
Tag(d, topic) ==
    /\ Write /\ doc[d].gate # "absent" /\ doc[d].tag # topic
    /\ doc' = [doc EXCEPT ![d].tag = topic]
    /\ UNCHANGED <<tracked, granted>>

\* run_entity_match.
Mention(d, names) ==
    /\ Write /\ doc[d].gate # "absent" /\ doc[d].names = {} /\ names # {}
    /\ doc' = [doc EXCEPT ![d].names = names]
    /\ UNCHANGED <<tracked, granted>>

\* select_entity, deselect_entity.
Track(n) ==
    /\ Write
    /\ tracked' = (tracked \ {n}) \union ({n} \ tracked)
    /\ UNCHANGED <<doc, granted>>

\* update_member.
Grant(list) ==
    /\ Write /\ granted' = list /\ list # granted
    /\ UNCHANGED <<doc, tracked>>

DataNext ==
    \/ \E d \in Doc :
          \/ Crawl(d)
          \/ \E focus \in {"", "own", "competitor"} : Gate(d, focus)
          \/ \E sentiment \in Sentiment \union {""} : Classify(d, sentiment)
          \/ \E topic \in Topic \union {NoTopic} : Tag(d, topic)
          \/ \E names \in SUBSET Name : Mention(d, names)
    \/ \E n \in Name : Track(n)
    \/ \E list \in SUBSET (Target \ Foreign) : Grant(list)

-----------------------------------------------------------------------------
(* The conditions every query is built from.  q is the request: q.reach is what  *)
(* get_current_user found its caller may see, Target for a main account.         *)

Stored == {d \in Doc : doc[d].gate # "absent"}

\* daily_window, weekly_window and monthly_window: whole days that end at 08:00.
Window(day, days) == [from |-> (day - days) * DayLength, to |-> day * DayLength]

\* Both ends belong to the window.
Between(w) == {d \in Doc : w.from <= Published[d] /\ Published[d] <= w.to}

\* (mutant) The organization's sources, for a sub-account too.
InScopeOrg(q) == {d \in Stored : TargetOf[d] \notin Foreign}

\* _document_list_conditions, _accessible_target_filter: the organization's own
\* documents, and of those a sub-account's.
InScope(q) == {d \in Stored : TargetOf[d] \notin Foreign /\ TargetOf[d] \in q.reach}

\* _report_scope_between.
ReportScope(q, w, focus) == {d \in InScope(q) \intersect Between(w) : doc[d].focus = focus}

\* _brand_scope_condition: all brands are peers.
BrandScope(q, w) == InScope(q) \intersect Between(w)

\* The names of a document that the organization tracks: _tracked_entity_condition.
Names(d) == doc[d].names \intersect tracked
=============================================================================
