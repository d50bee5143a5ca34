--------------------------------- MODULE PortalViews ---------------------------------
(***************************************************************************)
(* A request of the portal as the sequence of its queries.  Every query is *)
(* a statement of its own under READ COMMITTED: what crawls, the pipeline  *)
(* and the main account commit in between, the later ones see and the      *)
(* earlier ones do not.                                                    *)
(***************************************************************************)
EXTENDS DashboardViews

CONSTANTS
    Callers,  \* who asks: "main", "sub"; "staff", on the dashboard
    Queries   \* what they ask for: the parameters of requests

ASSUME QueryAssumption ==
    Queries \subseteq [search : BOOLEAN, hits : SUBSET Doc, entity : SUBSET Name, dated : BOOLEAN, day : Int, span : Nat,
                      platform : Platform \union {""}, bucket : Buckets, of : Doc, focus : {"own", "competitor"}]

VARIABLE request

viewVars == <<dataVars, request>>

\* The accordion and the list of documents: requests of one page that come one after
\* the other, each with a check of its own.
BrowseQueries == <<"auth", "category", "auth", "positive", "negative", "neutral", "unclassified", "competitor",
                   "auth", "total", "items", "auth", "growth">>

\* _build_report.
ReportQueries == <<"auth", "kpis", "sentiments", "entities", "entitySentiments", "topics", "topicSentiments",
                   "negativePosts", "positivePosts">>

\* compute_negative_brand_report_data; of this week's report it takes the figures.
NegativeQueries == <<"auth", "kpis", "sentiments", "previous", "split", "topTopic", "topicDocs">>

\* _compute_competitor_channel_report_data, without the own report it runs in the end: its
\* queries are those of ReportQueries.
CompetitorQueries == <<"auth", "brandCounts", "brandChannels", "positiveBrands", "negativeBrands">>

\* get_monitoring_overview.
OverviewQueries == <<"auth", "throughput", "matched", "timeline", "recent">>

\* list_documents, document_detail and report of the dashboard.
Dashboard ==
    [allDocuments |-> <<"allRows", "allTotal">>,
     anyDocument |-> <<"anyDetail", "anyComments", "anyNames">>,
     allReport |-> <<"allKpis", "allSentiments", "allTopics", "allTopicSentiments", "negativeCount", "positiveCount",
                     "negativeTop", "positiveTop">>]

Portal ==
    [browse |-> BrowseQueries,
     network |-> <<"auth", "nodes", "edges">>,
     detail |-> <<"auth", "visible", "detail", "auth", "visible", "comments">>,
     related |-> <<"auth", "visible", "related">>,
     ownNetwork |-> <<"auth", "visible", "own", "ownNodes", "ownEdges">>,
     overview |-> OverviewQueries,
     report |-> ReportQueries,
     negative |-> NegativeQueries,
     brands |-> CompetitorQueries]

Program == Over(Portal, Dashboard)

NoRequest == [kind |-> "", todo |-> <<>>, out |-> <<>>]

ViewInit ==
    /\ DataInit
    /\ request = NoRequest

Ask(caller, kind, query) ==
    /\ request.todo = <<>> /\ (caller = "staff" <=> kind \in DOMAIN Dashboard)
    /\ request' = Over(query, [caller |-> caller, kind |-> kind, todo |-> Program[kind], out |-> <<>>,
                               reach |-> {}, quiet |-> TRUE, ever |-> [names |-> {}, reach |-> {}]])
    /\ UNCHANGED dataVars

Docs(result) == request.out[result].docs

\* What the query at the head of the list contributes; where it may choose, one of
\* the choices.
Answers(q) ==
    LET s == Head(q.todo)
    IN  CASE s = "category" -> {Category(q)}
          [] s \in Buckets -> {SentimentCount(q, s)}
          [] s = "total" -> {ListTotal(q)}
          [] s = "items" -> {ListItems(q)}
          [] s = "growth" -> {Growth(q)}
          [] s = "nodes" -> {NetworkNodes(q, names) : names \in TopNames(OfPlatform(q))}
          [] s = "edges" -> {NetworkEdges(q)}
          [] s = "detail" -> {Detail(q)}
          [] s = "comments" -> {Comments(q)}
          [] s = "related" -> {Related(q)}
          [] s = "own" -> {OwnNames(q)}
          [] s = "ownNodes" -> {OwnNodes(q)}
          [] s = "ownEdges" -> {OwnEdges(q)}
          [] s = "throughput" -> {Throughput(q)}
          [] s = "matched" -> {ThroughputMatched(q)}
          [] s = "timeline" -> {Timeline(q)}
          [] s = "recent" -> {RecentDocuments(q)}
          [] s = "kpis" -> {Kpis(q)}
          [] s = "sentiments" -> {Sentiments(q)}
          [] s = "entities" -> {EntityDetail(q)}
          [] s = "entitySentiments" -> {EntitySentiments(q)}
          [] s = "topics" -> {TopicDetail(q)}
          [] s = "topicSentiments" -> {TopicSentiments(q)}
          [] s = "negativePosts" -> {NegativePosts(q)}
          [] s = "positivePosts" -> {PositivePosts(q)}
          [] s = "split" -> {ChannelSplit(q)}
          [] s = "previous" -> {Previous(q)}
          [] s = "topTopic" -> IF Channel(q) = {} THEN {Gives(s, {})}
                               ELSE {TopTopic(q, topic) : topic \in TopTopics(Channel(q))}
          [] s = "topicDocs" -> {IF q.out["topTopic"].docs = {} THEN Gives(s, {}) ELSE TopicDocs(q)}
          [] s = "brandCounts" -> {BrandCounts(q)}
          [] s = "brandChannels" -> {BrandChannels(q)}
          [] s = "positiveBrands" -> {BrandPosts(q, s, "positive")}
          [] s = "negativeBrands" -> {BrandPosts(q, s, "negative")}
          [] s = "allRows" -> {AllRows(q)}
          [] s = "allTotal" -> {AllTotal(q)}
          [] s = "anyDetail" -> {AnyDetail(q)}
          [] s = "anyComments" -> {AnyComments(q)}
          [] s = "anyNames" -> {AnyNames(q)}
          [] s = "allKpis" -> {AllKpis(q)}
          [] s = "allSentiments" -> {AllSentiments(q)}
          [] s = "allTopics" -> {AllTopics(q, topics) : topics \in TopicsFound(q)}
          [] s = "allTopicSentiments" -> {AllTopicSentiments(q, topics) : topics \in TopicsFound(q)}
          [] s = "negativeCount" -> {CountOf(q, s, "negative")}
          [] s = "positiveCount" -> {CountOf(q, s, "positive")}
          [] s = "negativeTop" -> {AllPosts(q, s, "negative")}
          [] s = "positiveTop" -> {AllPosts(q, s, "positive")}

\* get_current_user, once for every request of the page.
Authenticate ==
    /\ request.todo # <<>> /\ Head(request.todo) = "auth"
    /\ LET reach == IF request.caller = "main" THEN Target ELSE granted
       IN  request' = [request EXCEPT !.reach = reach, !.todo = Tail(@),
                                      !.ever = [names |-> @.names \union tracked, reach |-> @.reach \union reach]]
    /\ UNCHANGED dataVars

\* 404, or the queries that follow.
CheckVisible ==
    /\ request.todo # <<>> /\ Head(request.todo) = "visible"
    /\ request' = IF Visible(request, request.of) THEN [request EXCEPT !.todo = Tail(@)] ELSE NoRequest
    /\ UNCHANGED dataVars

Query ==
    /\ request.todo # <<>> /\ Head(request.todo) \notin {"auth", "visible"}
    /\ \E answer \in Answers(request) :
          request' = [request EXCEPT !.out = Over(answer, @), !.todo = Tail(@)]
    /\ UNCHANGED dataVars

Reply ==
    /\ request # NoRequest /\ request.todo = <<>>
    /\ request' = NoRequest
    /\ UNCHANGED dataVars

Commit ==
    /\ DataNext
    /\ request' = IF request.kind = "" THEN request
                  ELSE [request EXCEPT !.quiet = FALSE, !.ever.names = @ \union tracked']

ViewNext ==
    \/ \E caller \in Callers, kind \in DOMAIN Program, query \in Queries : Ask(caller, kind, query)
    \/ Authenticate \/ CheckVisible \/ Query \/ Reply \/ Commit

ViewSpec == ViewInit /\ [][ViewNext]_viewVars

-----------------------------------------------------------------------------
Has(results) == results \subseteq DOMAIN request.out
Quiet == request.kind # "" /\ request.quiet

\* A sub-account is shown documents of sources it was granted as one of the page's
\* requests started, and nobody but staff those of another organization; and the
\* names shown were tracked at some moment of the request.  A document that is opened
\* may have left the caller's reach in the meantime, never entered it without a grant.
ShownWasGranted == request.kind \notin DOMAIN Dashboard =>
    \A result \in DOMAIN request.out :
        /\ \A d \in Docs(result) : TargetOf[d] \in request.ever.reach \ Foreign
        /\ request.out[result].names \subseteq request.ever.names

\* "A collapsed section's count always matches what expanding it will show": if
\* nothing is committed while the page loads, the buckets of a section are disjoint
\* and add up to its count, and the list of a bucket is the bucket.
CountsAgree ==
    Quiet /\ Has(Buckets \union {"category", "total", "items"}) =>
        /\ \A b, c \in Buckets : b # c => Docs(b) \intersect Docs(c) = {}
        /\ UNION {Docs(b) : b \in Buckets} = {d \in Docs("category") : PlatformOf[TargetOf[d]] = request.platform}
        /\ Docs("total") = Docs(request.bucket) /\ Docs("items") = Docs("total")

\* The numbers of a report fit together if nothing is committed while they are
\* counted: the sentiments are of documents it counts, the rows of the topics add up
\* to the total and the channels to the negative ones, the lists are what was
\* counted, and no publication falls between a window and the one before.  On the
\* dashboard the topics of the two tables are the same unless the limit cuts them:
\* ties may then fall differently.
ReportAddsUp == Quiet =>
    /\ Has({"kpis"} \union Sentiment) => \A s \in Sentiment : Docs(s) \subseteq Docs("kpis")
    /\ Has({"topics", "topicSentiments", "negativePosts", "positivePosts"}) =>
          /\ Docs("topics") = Docs("kpis")
          /\ Docs("topicSentiments") = UNION {Docs(s) : s \in Sentiment}
          /\ Docs("entitySentiments") \subseteq Docs("entities")
          /\ Docs("negativePosts") = Docs("negative") /\ Docs("positivePosts") = Docs("positive")
    /\ Has({"news", "social", "negative"}) /\ request.entity = {} =>
          Docs("news") \union Docs("social") = Docs("negative")
    /\ Has({"kpis", "previous"}) /\ request.entity = {} =>
          {d \in Matched(InScope(request)) : doc[d].focus = request.focus /\ d \in Between(
              [from |-> Before(request).from, to |-> ThisWindow(request).to])} \subseteq Docs("kpis") \union Docs("previous")
    /\ Has({"topTopic", "topicDocs"}) => Docs("topicDocs") = Docs("topTopic")
    /\ Has({"brandCounts", "brandChannels", "positiveBrands", "negativeBrands"}) =>
          Docs("positiveBrands") \union Docs("negativeBrands") \subseteq Docs("brandCounts") \intersect Docs("brandChannels")
    /\ Has({"allRows", "allTotal"}) => Docs("allRows") = Docs("allTotal")
    /\ Has({"allKpis", "negativeTop", "positiveTop"}) =>
          /\ Docs("allSentiments") \union Docs("allTopics") \subseteq Docs("allKpis")
          /\ Docs("negativeTop") = Docs("negativeCount") /\ Docs("positiveTop") = Docs("positiveCount")
          /\ Docs("allTopicSentiments") \subseteq Docs("allSentiments") \intersect Docs("allTopics")
          /\ Cardinality(AllNames(request)) <= MaxTopics =>
                Docs("allTopicSentiments") = Docs("allSentiments") \intersect Docs("allTopics")

\* org.py: "[period_start, period_end)": what one report counts the next one does
\* not count again.
WindowHalfOpen == Quiet /\ Has({"kpis", "previous"}) => Docs("kpis") \intersect Docs("previous") = {}
=============================================================================
