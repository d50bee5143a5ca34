------------------------------- MODULE DashboardViews -------------------------------
(***************************************************************************)
(* The queries of the internal dashboard (dashboard/app.py and             *)
(* dashboard/report_data.py): staff see the documents of all organizations, *)
(* and a report in which a topic is a name of the gazetteer, tracked by    *)
(* somebody or not.                                                        *)
(***************************************************************************)
EXTENDS BrandReports

CONSTANT MaxTopics  \* limit of the topic tables, 15

\* list_documents: a page of them, and how many there are.
AllListed(q) == {d \in Stored : q.platform # "" => PlatformOf[TargetOf[d]] = q.platform}
AllRows(q) == Finds("allRows", AllListed(q), UNION {doc[d].names : d \in AllListed(q)})
AllTotal(q) == Gives("allTotal", AllListed(q))

\* document_detail, with its comments and its names.
AnyDetail(q) == Gives("anyDetail", {q.of} \intersect Stored)
AnyComments(q) == Gives("anyComments", {q.of} \intersect Stored)
AnyNames(q) == Finds("anyNames", {}, doc[q.of].names)

-----------------------------------------------------------------------------
(* The report.  Its window ends now; both ends belong to it. *)

Reported(q) ==
    {d \in Stored \intersect Between(ThisWindow(q)) : q.entity # {} => doc[d].names \intersect q.entity # {}}

AllKpis(q) == Gives("allKpis", Reported(q))
AllSentiments(q) == Gives("allSentiments", Classified(Reported(q)))

\* count_by_sentiment, for the two sentiments the page shows on their own.
CountOf(q, result, sentiment) == Gives(result, Of(Classified(Reported(q)), sentiment))

\* get_topic_detail: the names with most posts.
AllNames(q) == UNION {doc[d].names : d \in Reported(q)}
TopicsFound(q) == Busiest(AllNames(q), Reported(q), MaxTopics)
AllTopics(q, topics) ==
    Finds("allTopics", UNION {Mentioning(n, Reported(q)) : n \in topics}, topics)

\* get_topic_by_sentiment chooses the names anew; the page drops those that it has no
\* row for.
AllTopicSentiments(q, topics) ==
    LET shown == topics \intersect q.out["allTopics"].names
    IN  Finds("allTopicSentiments", UNION {Mentioning(n, Classified(Reported(q))) : n \in shown}, shown)

\* get_top_posts: up to a limit.
AllPosts(q, result, sentiment) == Gives(result, Of(Reported(q), sentiment))
=============================================================================
