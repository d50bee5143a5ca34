-------------------------------- MODULE BrandReports --------------------------------
(***************************************************************************)
(* The queries of the reports (routers/org.py): the dashboard's report and *)
(* its exports, the weekly report on negative mentions and the one on      *)
(* competitors, with the windows of reporting/word_report.py.              *)
(***************************************************************************)
EXTENDS DocumentViews

CONSTANT Brands  \* the organization's own name and get_competitor_brands

ThisWindow(q) == Window(q.day, q.span)

\* The window a report compares with: prev_report_date, yesterday_date.
Before(q) == Window(q.day - q.span, q.span)

-----------------------------------------------------------------------------
(* _build_report_from_scope *)

InReport(q) ==
    {d \in ReportScope(q, ThisWindow(q), q.focus) : q.entity # {} => Names(d) \intersect q.entity # {}}

Matched(docs) == {d \in docs : doc[d].gate = "matched"}
Classified(docs) == {d \in docs : doc[d].class = "completed" /\ doc[d].sentiment # ""}
Of(docs, sentiment) == {d \in docs : doc[d].sentiment = sentiment}

Kpis(q) == Gives("kpis", Matched(InReport(q)))
Sentiments(q) == [s \in Sentiment |-> Rows(Of(Classified(InReport(q)), s))]

\* topic_detail: a row for every tracked name.
EntityDetail(q) ==
    LET docs == {d \in Matched(ReportScope(q, ThisWindow(q), q.focus)) : Names(d) # {}}
        names == IF q.entity = {} THEN FoundNames(docs) ELSE FoundNames(docs) \intersect q.entity
    IN  Finds("entities", UNION {Mentioning(n, docs) : n \in names}, names)

\* The sentiments of the names the query before found.
EntitySentiments(q) ==
    LET docs == Classified(Matched(ReportScope(q, ThisWindow(q), q.focus)))
    IN  Gives("entitySentiments", UNION {Mentioning(n, docs) : n \in q.out["entities"].names})

\* (mutant) Only documents that have a topic.
TopicDetailInner(q) == Gives("topics", {d \in Matched(InReport(q)) : doc[d].tag # NoTopic})

\* keyword_topic_detail: documents without a topic are the row of their own.
TopicDetail(q) == Gives("topics", Matched(InReport(q)))
TopicSentiments(q) == Gives("topicSentiments", Classified(InReport(q)))

\* _top_posts and the full lists of the exports: up to a limit.
Posts(q, sentiment) == Of(InReport(q), sentiment)
NegativePosts(q) == Gives("negativePosts", Posts(q, "negative"))
PositivePosts(q) == Gives("positivePosts", Posts(q, "positive"))

-----------------------------------------------------------------------------
(* compute_negative_brand_report_data *)

\* The figures of the window before.
Previous(q) == Gives("previous", Matched(ReportScope(q, Before(q), q.focus)))

News(docs) == {d \in docs : PlatformOf[TargetOf[d]] = "news"}
Negative(q) == Of(Classified(ReportScope(q, ThisWindow(q), q.focus)), "negative")

\* _negative_channel_split.
ChannelSplit(q) == Over(Gives("news", News(Negative(q))), Gives("social", Negative(q) \ News(Negative(q))))

Channel(q) == IF q.platform = "news" THEN News(Negative(q)) ELSE Negative(q) \ News(Negative(q))

WithTopic(docs, topic) == {d \in docs : doc[d].tag = topic}

\* _negative_top_topic of a channel: one that no other has more documents of.
TopTopics(docs) ==
    LET count(topic) == Cardinality(WithTopic(docs, topic))
    IN  {topic \in {doc[d].tag : d \in docs} : \A other \in Topic \union {NoTopic} : count(topic) >= count(other)}

TopTopic(q, topic) == Single("topTopic", [Rows(WithTopic(Channel(q), topic)) EXCEPT !.topic = topic])

\* _negative_topic_docs: what a language model summarizes.
TopicDocs(q) == Gives("topicDocs", WithTopic(Channel(q), q.out["topTopic"].topic))

-----------------------------------------------------------------------------
(* _compute_competitor_channel_report_data *)

BrandDocs(q, brand) == Mentioning(brand, BrandScope(q, ThisWindow(q)))

\* _brand_sentiment_counts, _brand_channel_breakdown, _brand_top_posts.
BrandCounts(q) == Gives("brandCounts", UNION {Classified(BrandDocs(q, b)) : b \in Brands})
BrandChannels(q) == Gives("brandChannels", UNION {BrandDocs(q, b) : b \in Brands})
BrandPosts(q, result, sentiment) == Gives(result, UNION {Of(Classified(BrandDocs(q, b)), sentiment) : b \in Brands})
=============================================================================
