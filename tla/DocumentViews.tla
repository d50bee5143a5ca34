------------------------------- MODULE DocumentViews -------------------------------
(***************************************************************************)
(* The queries of the document pages (the last part of routers/org.py):    *)
(* the list, the accordion with its counts and networks, the detail page   *)
(* with what is related to it, and the monitoring page.                    *)
(*                                                                         *)
(* A query is an operator of the request q, read off the committed data.   *)
(* Where the code counts rows, the operator gives the rows it counts; q.out *)
(* holds what earlier queries of the same request gave.                    *)
(***************************************************************************)
EXTENDS PortalData

CONSTANT MaxNodes  \* max_nodes, 20 by default

Buckets == {"positive", "negative", "neutral", "unclassified", "competitor"}

\* What one query contributes to the response.
Nothing == [docs |-> {}, names |-> {}, pairs |-> {}, topic |-> NoTopic]
Rows(docs) == [Nothing EXCEPT !.docs = docs]
Gives(result, docs) == Single(result, Rows(docs))
Finds(result, docs, names) == Single(result, [Rows(docs) EXCEPT !.names = names])

\* The filters the list and the accordion share: text, entity, time, the end not
\* included.  The entity box finds names that are not tracked, too.
Listed(q) ==
    {d \in InScope(q) :
        /\ q.search => d \in q.hits
        /\ q.entity # {} => doc[d].names \intersect q.entity # {}
        /\ q.dated => d \in Between(Window(q.day, q.span)) /\ Published[d] # Window(q.day, q.span).to}

OfPlatform(q) == {d \in Listed(q) : PlatformOf[TargetOf[d]] = q.platform}

\* accordion_category_counts.
Category(q) == Gives("category", Listed(q))

NotCompetitor(d) == doc[d].focus # "competitor"

\* (mutant) A competitor's documents by their sentiment, too.
InBucketLoose(d, bucket) ==
    \/ bucket = "competitor" /\ ~NotCompetitor(d)
    \/ bucket = "unclassified" /\ doc[d].sentiment = "" /\ NotCompetitor(d)
    \/ bucket \in Sentiment /\ doc[d].sentiment = bucket

\* _SENTIMENT_BUCKET_SQL.
InBucket(d, bucket) ==
    IF NotCompetitor(d) THEN doc[d].sentiment = (IF bucket = "unclassified" THEN "" ELSE bucket)
    ELSE bucket = "competitor"

\* accordion_sentiment_counts asks once for every bucket.
SentimentCount(q, bucket) == Gives(bucket, {d \in OfPlatform(q) : InBucket(d, bucket)})

\* The branches on "sentiment" of list_documents.
InList(d, bucket) ==
    CASE bucket = "competitor" -> doc[d].focus = "competitor"
      [] bucket = "unclassified" -> doc[d].sentiment = "" /\ NotCompetitor(d)
      [] OTHER -> doc[d].sentiment = bucket /\ NotCompetitor(d)

ListTotal(q) == Gives("total", {d \in OfPlatform(q) : InList(d, q.bucket)})
ListItems(q) ==
    LET docs == {d \in OfPlatform(q) : InList(d, q.bucket)}
    IN  Finds("items", docs, UNION {Names(d) : d \in docs})

\* accordion_engagement_growth sums the snapshots of the same documents.
Growth(q) == Gives("growth", OfPlatform(q))

-----------------------------------------------------------------------------
(* Networks: names, and pairs of names that occur in one document *)

Mentioning(n, docs) == {d \in docs : n \in doc[d].names}

FoundNames(docs) == UNION {Names(d) : d \in docs}

\* The first of the names by number of documents; ties are broken in no order.
Busiest(names, docs, limit) ==
    LET weight(n) == Cardinality(Mentioning(n, docs))
    IN  IF Cardinality(names) <= limit THEN {names}
        ELSE {S \in kSubset(limit, names) : \A n \in S, m \in names \ S : weight(n) >= weight(m)}

TopNames(docs) == Busiest(FoundNames(docs), docs, MaxNodes)

Nodes(docs, names) == Finds("nodes", UNION {Mentioning(n, docs) : n \in names}, names)

Edges(docs, names) == {pair \in kSubset(2, names) : \E d \in docs : pair \subseteq doc[d].names}

EdgeRows(docs, pairs) ==
    Single("edges", [Rows({d \in docs : \E pair \in pairs : pair \subseteq doc[d].names}) EXCEPT
                         !.names = UNION pairs, !.pairs = pairs])

\* accordion_entity_network: the second query takes the names the first one found.
NetworkNodes(q, names) == Nodes(OfPlatform(q), names)
NetworkEdges(q) == EdgeRows(OfPlatform(q), Edges(OfPlatform(q), q.out["nodes"].names))

-----------------------------------------------------------------------------
(* One document *)

\* The check of get_document (there one statement with the reading; here others may commit in
\* between), its comments, its related documents and its network; otherwise 404.
Visible(q, d) == d \in Stored /\ TargetOf[d] \notin Foreign /\ TargetOf[d] \in q.reach

Detail(q) == Finds("detail", {q.of}, Names(q.of))
Comments(q) == Gives("comments", {q.of})

\* Related documents share a name that is tracked.
Related(q) ==
    LET docs == {d \in InScope(q) \ {q.of} : Names(d) \intersect doc[q.of].names # {}}
    IN  Gives("related", docs)

OwnNames(q) == Finds("own", {}, Names(q.of))

\* Below two names there is nothing to draw.
OwnNodes(q) ==
    LET own == q.out["own"].names
        docs == InScope(q)
    IN  IF Cardinality(own) < 2 THEN Finds("nodes", {}, own)
        ELSE Nodes(docs, {n \in own : Mentioning(n, docs) # {}})

\* With a focus among the names, the star around it.
OwnEdges(q) ==
    LET own == q.out["own"].names
        all == IF Cardinality(own) < 2 THEN {} ELSE Edges(InScope(q), own)
    IN  EdgeRows(InScope(q), IF q.entity \intersect own = {} THEN all
                             ELSE LET focus == CHOOSE n \in q.entity \intersect own : TRUE
                                  IN  {pair \in all : focus \in pair})

-----------------------------------------------------------------------------
(* Monitoring *)

\* The charts and lists of get_monitoring_overview: all documents, and the matched ones.
Throughput(q) == Gives("throughput", InScope(q))
ThroughputMatched(q) == Gives("matched", {d \in InScope(q) : doc[d].gate = "matched"})
Timeline(q) == Gives("timeline", {d \in InScope(q) : Window(q.day, q.span).from <= Published[d]})
RecentDocuments(q) == Gives("recent", InScope(q))
=============================================================================
