----------------------------- MODULE PortalViewsProofs -----------------------------
(***************************************************************************)
(* Theorems about the pages and reports of the portal, for any documents,  *)
(* sources, names and grants, any request and anything that is committed   *)
(* while its queries run.                                                  *)
(***************************************************************************)
EXTENDS MCPortal, OrgPortalProofs, ReportProofs

(***************************************************************************)
(* What is committed                                                       *)
(***************************************************************************)

\* The pipeline does its steps with every document in their order.
DataInv == DataTypeOK /\ \A d \in Doc : Processed(doc[d])

LEMMA AbsentDocument == Absent \in Document /\ Processed(Absent)
  BY DEF Absent, Document, Processed

LEMMA DataInitInv == DataInit => DataInv
  <1> SUFFICES ASSUME DataInit PROVE DataInv
    OBVIOUS
  <1>1. doc \in [Doc -> Document] /\ \A d \in Doc : Processed(doc[d])
    BY SeedAssumption DEF DataInit
  <1>2. writes \in 0..MaxWrites
    BY DocumentAssumption DEF DataInit
  <1>3. QED
    BY <1>1, <1>2 DEF DataInit, DataInv, DataTypeOK

\* A write of one document.
LEMMA WriteDocument ==
  ASSUME DataInv, NEW d \in Doc, NEW row, row \in Document, Processed(row), Write,
         doc' = [doc EXCEPT ![d] = row], UNCHANGED <<tracked, granted>>
  PROVE  DataInv'
  <1>1. writes' \in 0..MaxWrites
    BY DocumentAssumption DEF Write, DataInv, DataTypeOK
  <1>2. doc' \in [Doc -> Document] /\ \A e \in Doc : doc'[e] = IF e = d THEN row ELSE doc[e]
    BY DEF DataInv, DataTypeOK
  <1>3. \A e \in Doc : Processed(doc'[e])
    BY <1>2 DEF DataInv
  <1>4. QED
    BY <1>1, <1>2, <1>3 DEF DataInv, DataTypeOK

LEMMA DataStep == DataInv /\ DataNext => DataInv'
  <1> SUFFICES ASSUME DataInv, DataNext PROVE DataInv'
    OBVIOUS
  <1>1. \A d \in Doc : doc[d] \in Document /\ Processed(doc[d])
    BY DEF DataInv, DataTypeOK
  <1>2. ASSUME NEW d \in Doc, Crawl(d) PROVE DataInv'
    <2> DEFINE row == [doc[d] EXCEPT !.gate = "pending"]
    <2>1. row \in Document /\ Processed(row)
      BY <1>1, <1>2 DEF Document, Processed, Crawl
    <2>2. QED
      BY <1>2, <2>1, WriteDocument DEF Crawl
  <1>3. ASSUME NEW d \in Doc, NEW focus \in {"", "own", "competitor"}, Gate(d, focus) PROVE DataInv'
    <2> DEFINE row == [doc[d] EXCEPT !.gate = IF focus = "" THEN "no_match" ELSE "matched", !.focus = focus]
    <2>1. row \in Document /\ Processed(row)
      BY <1>1, <1>3 DEF Document, Processed, Gate
    <2>2. doc' = [doc EXCEPT ![d] = row]
      BY <1>3 DEF Gate, DataInv, DataTypeOK
    <2>3. QED
      BY <1>3, <2>1, <2>2, WriteDocument DEF Gate
  <1>4. ASSUME NEW d \in Doc, NEW sentiment \in Sentiment \union {""}, Classify(d, sentiment) PROVE DataInv'
    <2> DEFINE row == [doc[d] EXCEPT !.class = IF sentiment = "" THEN "failed" ELSE "completed",
                                     !.sentiment = sentiment]
    <2>1. row \in Document /\ Processed(row)
      BY <1>1, <1>4 DEF Document, Processed, Classify
    <2>2. doc' = [doc EXCEPT ![d] = row]
      BY <1>4 DEF Classify, DataInv, DataTypeOK
    <2>3. QED
      BY <1>4, <2>1, <2>2, WriteDocument DEF Classify
  <1>5. ASSUME NEW d \in Doc, NEW label \in Topic \union {NoTopic}, Tag(d, label) PROVE DataInv'
    <2> DEFINE row == [doc[d] EXCEPT !.tag = label]
    <2>1. row \in Document /\ Processed(row)
      BY <1>1 DEF Document, Processed
    <2>2. QED
      BY <1>5, <2>1, WriteDocument DEF Tag
  <1>6. ASSUME NEW d \in Doc, NEW names \in SUBSET Name, Mention(d, names) PROVE DataInv'
    <2> DEFINE row == [doc[d] EXCEPT !.names = names]
    <2>1. row \in Document /\ Processed(row)
      BY <1>1 DEF Document, Processed
    <2>2. QED
      BY <1>6, <2>1, WriteDocument DEF Mention
  <1>7. ASSUME NEW n \in Name, Track(n) PROVE DataInv'
    BY <1>7, DocumentAssumption DEF Track, Write, DataInv, DataTypeOK
  <1>8. ASSUME NEW list \in SUBSET (Target \ Foreign), Grant(list) PROVE DataInv'
    BY <1>8, DocumentAssumption DEF Grant, Write, DataInv, DataTypeOK
  <1>9. QED
    BY <1>2, <1>3, <1>4, <1>5, <1>6, <1>7, <1>8 DEF DataNext

LEMMA ViewDataStep == DataInv /\ [ViewNext]_viewVars => DataInv'
  <1>1. ASSUME DataInv, UNCHANGED dataVars PROVE DataInv'
    BY <1>1 DEF dataVars, DataInv, DataTypeOK
  <1>2. QED
    BY <1>1, DataStep DEF ViewNext, viewVars, Ask, Authenticate, CheckVisible, Query, Reply, Commit

\* Every reachable state of documents, tracked names and grants is well-typed: a
\* sentiment is one of the three, and grants stay within the organization.
THEOREM DataTypeCorrect == ViewSpec => []DataTypeOK
  <1>1. ViewInit => DataInv
    BY DataInitInv DEF ViewInit
  <1>2. DataInv => DataTypeOK
    BY DEF DataInv
  <1>3. QED
    BY <1>1, <1>2, ViewDataStep, PTL DEF ViewSpec

(***************************************************************************)
(* The steps of a page                                                     *)
(***************************************************************************)

\* What a step contributes to the response.
Results(s) ==
    CASE s \in {"auth", "visible"} -> {}
      [] s = "sentiments" -> Sentiment
      [] s = "split" -> {"news", "social"}
      [] s = "ownNodes" -> {"nodes"}
      [] s = "ownEdges" -> {"edges"}
      [] OTHER -> {s}

\* The steps of every kind of request.
StepsOf ==
    [browse |-> {"auth", "category", "positive", "negative", "neutral", "unclassified", "competitor", "total",
                 "items", "growth"},
     network |-> {"auth", "nodes", "edges"},
     detail |-> {"auth", "visible", "detail", "comments"},
     related |-> {"auth", "visible", "related"},
     ownNetwork |-> {"auth", "visible", "own", "ownNodes", "ownEdges"},
     overview |-> {"auth", "throughput", "matched", "timeline", "recent"},
     report |-> {"auth", "kpis", "sentiments", "entities", "entitySentiments", "topics", "topicSentiments",
                 "negativePosts", "positivePosts"},
     negative |-> {"auth", "kpis", "sentiments", "previous", "split", "topTopic", "topicDocs"},
     brands |-> {"auth", "brandCounts", "brandChannels", "positiveBrands", "negativeBrands"},
     allDocuments |-> {"allRows", "allTotal"},
     anyDocument |-> {"anyDetail", "anyComments", "anyNames"},
     allReport |-> {"allKpis", "allSentiments", "allTopics", "allTopicSentiments", "negativeCount",
                    "positiveCount", "negativeTop", "positiveTop"}]

\* The steps on the dashboard, where nobody's reach is asked for.
StaffSteps == {"allRows", "allTotal", "anyDetail", "anyComments", "anyNames", "allKpis", "allSentiments", "allTopics",
               "allTopicSentiments", "negativeCount", "positiveCount", "negativeTop", "positiveTop"}

\* A step rests on another one: it uses what that one found or made sure of, or, at
\* the end of a report, the numbers are compared.
RestsOn(s, need) ==
    \/ need = "auth" /\ s \notin StaffSteps \union {"auth"}
    \/ need = "visible" /\ s \in {"detail", "comments", "related", "own"}
    \/ <<s, need>> \in {<<"edges", "nodes">>, <<"ownNodes", "own">>, <<"ownEdges", "own">>,
                        <<"entitySentiments", "entities">>, <<"topicDocs", "topTopic">>,
                        <<"allTopicSentiments", "allTopics">>}
    \/ s = "positivePosts" /\ need \in {"kpis", "sentiments", "entities", "entitySentiments"}
    \/ s = "positiveTop" /\ need \in {"allSentiments", "allTopics", "allTopicSentiments", "negativeCount",
                                      "positiveCount", "negativeTop"}

\* A page does what a step rests on before it, and no query twice.
Ordered(p, steps) ==
    /\ p \in Seq(steps)
    /\ \A i \in 1..Len(p) : \A need : RestsOn(p[i], need) => \E j \in 1..(i - 1) : p[j] = need
    /\ \A i, j \in 1..Len(p) : i # j /\ p[i] = p[j] => p[i] \in {"auth", "visible"}

LEMMA Listing ==
  ASSUME NEW p, NEW n \in Nat, NEW steps, DOMAIN p = 1..n, p = [i \in DOMAIN p |-> p[i]],
         \A i \in 1..n : p[i] \in steps
  PROVE  p \in Seq(steps) /\ Len(p) = n
  <1>1. p \in [1..n -> steps]
    OBVIOUS
  <1>2. p \in Seq(steps)
    BY <1>1, SeqDef
  <1>3. QED
    BY <1>2

LEMMA ProgramsOrdered == \A kind \in DOMAIN Program : Ordered(Program[kind], StepsOf[kind])
  <1>1. Ordered(Program["browse"], StepsOf["browse"])
    <2> DEFINE p == Program["browse"]
    <2>1. DOMAIN p = 1..13 /\ p = [i \in DOMAIN p |-> p[i]]
      BY DEF Program, Over, Portal, Dashboard, BrowseQueries
    <2>2. p[1] = "auth" /\ p[2] = "category" /\ p[3] = "auth" /\ p[4] = "positive" /\ p[5] = "negative" /\ p[6] =
         "neutral" /\ p[7] = "unclassified" /\ p[8] = "competitor" /\ p[9] = "auth" /\ p[10] = "total" /\ p[11] =
         "items" /\ p[12] = "auth" /\ p[13] = "growth"
      BY DEF Program, Over, Portal, Dashboard, BrowseQueries
    <2> HIDE DEF p
    <2>3. \A i \in 1..13 : i \in {1, 2, 3, 4, 5, 6, 7, 8, 9, 10, 11, 12, 13}
      OBVIOUS
    <2>4. \A i \in 1..13 : p[i] \in StepsOf["browse"]
      BY <2>2, <2>3 DEF StepsOf
    <2>5. p \in Seq(StepsOf["browse"]) /\ Len(p) = 13
      BY <2>1, <2>4, Listing
    <2>6. ASSUME NEW i \in 1..13, NEW need, RestsOn(p[i], need) PROVE \E j \in 1..(i - 1) : p[j] = need
      BY <2>6, <2>2, <2>3 DEF RestsOn, StaffSteps
    <2>7. \A i, j \in 1..13 : i # j /\ p[i] = p[j] => p[i] \in {"auth", "visible"}
      BY <2>2, <2>3
    <2>8. QED
      BY <2>4, <2>5, <2>6, <2>7 DEF Ordered, p
  <1>2. Ordered(Program["network"], StepsOf["network"])
    <2> DEFINE p == Program["network"]
    <2>1. DOMAIN p = 1..3 /\ p = [i \in DOMAIN p |-> p[i]]
      BY DEF Program, Over, Portal, Dashboard
    <2>2. p[1] = "auth" /\ p[2] = "nodes" /\ p[3] = "edges"
      BY DEF Program, Over, Portal, Dashboard
    <2> HIDE DEF p
    <2>3. \A i \in 1..3 : i \in {1, 2, 3}
      OBVIOUS
    <2>4. \A i \in 1..3 : p[i] \in StepsOf["network"]
      BY <2>2, <2>3 DEF StepsOf
    <2>5. p \in Seq(StepsOf["network"]) /\ Len(p) = 3
      BY <2>1, <2>4, Listing
    <2>6. ASSUME NEW i \in 1..3, NEW need, RestsOn(p[i], need) PROVE \E j \in 1..(i - 1) : p[j] = need
      BY <2>6, <2>2, <2>3 DEF RestsOn, StaffSteps
    <2>7. \A i, j \in 1..3 : i # j /\ p[i] = p[j] => p[i] \in {"auth", "visible"}
      BY <2>2, <2>3
    <2>8. QED
      BY <2>4, <2>5, <2>6, <2>7 DEF Ordered, p
  <1>3. Ordered(Program["detail"], StepsOf["detail"])
    <2> DEFINE p == Program["detail"]
    <2>1. DOMAIN p = 1..6 /\ p = [i \in DOMAIN p |-> p[i]]
      BY DEF Program, Over, Portal, Dashboard
    <2>2. p[1] = "auth" /\ p[2] = "visible" /\ p[3] = "detail" /\ p[4] = "auth" /\ p[5] = "visible" /\ p[6] =
         "comments"
      BY DEF Program, Over, Portal, Dashboard
    <2> HIDE DEF p
    <2>3. \A i \in 1..6 : i \in {1, 2, 3, 4, 5, 6}
      OBVIOUS
    <2>4. \A i \in 1..6 : p[i] \in StepsOf["detail"]
      BY <2>2, <2>3 DEF StepsOf
    <2>5. p \in Seq(StepsOf["detail"]) /\ Len(p) = 6
      BY <2>1, <2>4, Listing
    <2>6. ASSUME NEW i \in 1..6, NEW need, RestsOn(p[i], need) PROVE \E j \in 1..(i - 1) : p[j] = need
      BY <2>6, <2>2, <2>3 DEF RestsOn, StaffSteps
    <2>7. \A i, j \in 1..6 : i # j /\ p[i] = p[j] => p[i] \in {"auth", "visible"}
      BY <2>2, <2>3
    <2>8. QED
      BY <2>4, <2>5, <2>6, <2>7 DEF Ordered, p
  <1>4. Ordered(Program["related"], StepsOf["related"])
    <2> DEFINE p == Program["related"]
    <2>1. DOMAIN p = 1..3 /\ p = [i \in DOMAIN p |-> p[i]]
      BY DEF Program, Over, Portal, Dashboard
    <2>2. p[1] = "auth" /\ p[2] = "visible" /\ p[3] = "related"
      BY DEF Program, Over, Portal, Dashboard
    <2> HIDE DEF p
    <2>3. \A i \in 1..3 : i \in {1, 2, 3}
      OBVIOUS
    <2>4. \A i \in 1..3 : p[i] \in StepsOf["related"]
      BY <2>2, <2>3 DEF StepsOf
    <2>5. p \in Seq(StepsOf["related"]) /\ Len(p) = 3
      BY <2>1, <2>4, Listing
    <2>6. ASSUME NEW i \in 1..3, NEW need, RestsOn(p[i], need) PROVE \E j \in 1..(i - 1) : p[j] = need
      BY <2>6, <2>2, <2>3 DEF RestsOn, StaffSteps
    <2>7. \A i, j \in 1..3 : i # j /\ p[i] = p[j] => p[i] \in {"auth", "visible"}
      BY <2>2, <2>3
    <2>8. QED
      BY <2>4, <2>5, <2>6, <2>7 DEF Ordered, p
  <1>5. Ordered(Program["ownNetwork"], StepsOf["ownNetwork"])
    <2> DEFINE p == Program["ownNetwork"]
    <2>1. DOMAIN p = 1..5 /\ p = [i \in DOMAIN p |-> p[i]]
      BY DEF Program, Over, Portal, Dashboard
    <2>2. p[1] = "auth" /\ p[2] = "visible" /\ p[3] = "own" /\ p[4] = "ownNodes" /\ p[5] = "ownEdges"
      BY DEF Program, Over, Portal, Dashboard
    <2> HIDE DEF p
    <2>3. \A i \in 1..5 : i \in {1, 2, 3, 4, 5}
      OBVIOUS
    <2>4. \A i \in 1..5 : p[i] \in StepsOf["ownNetwork"]
      BY <2>2, <2>3 DEF StepsOf
    <2>5. p \in Seq(StepsOf["ownNetwork"]) /\ Len(p) = 5
      BY <2>1, <2>4, Listing
    <2>6. ASSUME NEW i \in 1..5, NEW need, RestsOn(p[i], need) PROVE \E j \in 1..(i - 1) : p[j] = need
      BY <2>6, <2>2, <2>3 DEF RestsOn, StaffSteps
    <2>7. \A i, j \in 1..5 : i # j /\ p[i] = p[j] => p[i] \in {"auth", "visible"}
      BY <2>2, <2>3
    <2>8. QED
      BY <2>4, <2>5, <2>6, <2>7 DEF Ordered, p
  <1>6. Ordered(Program["overview"], StepsOf["overview"])
    <2> DEFINE p == Program["overview"]
    <2>1. DOMAIN p = 1..5 /\ p = [i \in DOMAIN p |-> p[i]]
      BY DEF Program, Over, Portal, Dashboard, OverviewQueries
    <2>2. p[1] = "auth" /\ p[2] = "throughput" /\ p[3] = "matched" /\ p[4] = "timeline" /\ p[5] = "recent"
      BY DEF Program, Over, Portal, Dashboard, OverviewQueries
    <2> HIDE DEF p
    <2>3. \A i \in 1..5 : i \in {1, 2, 3, 4, 5}
      OBVIOUS
    <2>4. \A i \in 1..5 : p[i] \in StepsOf["overview"]
      BY <2>2, <2>3 DEF StepsOf
    <2>5. p \in Seq(StepsOf["overview"]) /\ Len(p) = 5
      BY <2>1, <2>4, Listing
    <2>6. ASSUME NEW i \in 1..5, NEW need, RestsOn(p[i], need) PROVE \E j \in 1..(i - 1) : p[j] = need
      BY <2>6, <2>2, <2>3 DEF RestsOn, StaffSteps
    <2>7. \A i, j \in 1..5 : i # j /\ p[i] = p[j] => p[i] \in {"auth", "visible"}
      BY <2>2, <2>3
    <2>8. QED
      BY <2>4, <2>5, <2>6, <2>7 DEF Ordered, p
  <1>7. Ordered(Program["report"], StepsOf["report"])
    <2> DEFINE p == Program["report"]
    <2>1. DOMAIN p = 1..9 /\ p = [i \in DOMAIN p |-> p[i]]
      BY DEF Program, Over, Portal, Dashboard, ReportQueries
    <2>2. p[1] = "auth" /\ p[2] = "kpis" /\ p[3] = "sentiments" /\ p[4] = "entities" /\ p[5] = "entitySentiments" /\
         p[6] = "topics" /\ p[7] = "topicSentiments" /\ p[8] = "negativePosts" /\ p[9] = "positivePosts"
      BY DEF Program, Over, Portal, Dashboard, ReportQueries
    <2> HIDE DEF p
    <2>3. \A i \in 1..9 : i \in {1, 2, 3, 4, 5, 6, 7, 8, 9}
      OBVIOUS
    <2>4. \A i \in 1..9 : p[i] \in StepsOf["report"]
      BY <2>2, <2>3 DEF StepsOf
    <2>5. p \in Seq(StepsOf["report"]) /\ Len(p) = 9
      BY <2>1, <2>4, Listing
    <2>6. ASSUME NEW i \in 1..9, NEW need, RestsOn(p[i], need) PROVE \E j \in 1..(i - 1) : p[j] = need
      BY <2>6, <2>2, <2>3 DEF RestsOn, StaffSteps
    <2>7. \A i, j \in 1..9 : i # j /\ p[i] = p[j] => p[i] \in {"auth", "visible"}
      BY <2>2, <2>3
    <2>8. QED
      BY <2>4, <2>5, <2>6, <2>7 DEF Ordered, p
  <1>8. Ordered(Program["negative"], StepsOf["negative"])
    <2> DEFINE p == Program["negative"]
    <2>1. DOMAIN p = 1..7 /\ p = [i \in DOMAIN p |-> p[i]]
      BY DEF Program, Over, Portal, Dashboard, NegativeQueries
    <2>2. p[1] = "auth" /\ p[2] = "kpis" /\ p[3] = "sentiments" /\ p[4] = "previous" /\ p[5] = "split" /\ p[6] =
         "topTopic" /\ p[7] = "topicDocs"
      BY DEF Program, Over, Portal, Dashboard, NegativeQueries
    <2> HIDE DEF p
    <2>3. \A i \in 1..7 : i \in {1, 2, 3, 4, 5, 6, 7}
      OBVIOUS
    <2>4. \A i \in 1..7 : p[i] \in StepsOf["negative"]
      BY <2>2, <2>3 DEF StepsOf
    <2>5. p \in Seq(StepsOf["negative"]) /\ Len(p) = 7
      BY <2>1, <2>4, Listing
    <2>6. ASSUME NEW i \in 1..7, NEW need, RestsOn(p[i], need) PROVE \E j \in 1..(i - 1) : p[j] = need
      BY <2>6, <2>2, <2>3 DEF RestsOn, StaffSteps
    <2>7. \A i, j \in 1..7 : i # j /\ p[i] = p[j] => p[i] \in {"auth", "visible"}
      BY <2>2, <2>3
    <2>8. QED
      BY <2>4, <2>5, <2>6, <2>7 DEF Ordered, p
  <1>9. Ordered(Program["brands"], StepsOf["brands"])
    <2> DEFINE p == Program["brands"]
    <2>1. DOMAIN p = 1..5 /\ p = [i \in DOMAIN p |-> p[i]]
      BY DEF Program, Over, Portal, Dashboard, CompetitorQueries
    <2>2. p[1] = "auth" /\ p[2] = "brandCounts" /\ p[3] = "brandChannels" /\ p[4] = "positiveBrands" /\ p[5] =
         "negativeBrands"
      BY DEF Program, Over, Portal, Dashboard, CompetitorQueries
    <2> HIDE DEF p
    <2>3. \A i \in 1..5 : i \in {1, 2, 3, 4, 5}
      OBVIOUS
    <2>4. \A i \in 1..5 : p[i] \in StepsOf["brands"]
      BY <2>2, <2>3 DEF StepsOf
    <2>5. p \in Seq(StepsOf["brands"]) /\ Len(p) = 5
      BY <2>1, <2>4, Listing
    <2>6. ASSUME NEW i \in 1..5, NEW need, RestsOn(p[i], need) PROVE \E j \in 1..(i - 1) : p[j] = need
      BY <2>6, <2>2, <2>3 DEF RestsOn, StaffSteps
    <2>7. \A i, j \in 1..5 : i # j /\ p[i] = p[j] => p[i] \in {"auth", "visible"}
      BY <2>2, <2>3
    <2>8. QED
      BY <2>4, <2>5, <2>6, <2>7 DEF Ordered, p
  <1>10. Ordered(Program["allDocuments"], StepsOf["allDocuments"])
    <2> DEFINE p == Program["allDocuments"]
    <2>1. DOMAIN p = 1..2 /\ p = [i \in DOMAIN p |-> p[i]]
      BY DEF Program, Over, Portal, Dashboard
    <2>2. p[1] = "allRows" /\ p[2] = "allTotal"
      BY DEF Program, Over, Portal, Dashboard
    <2> HIDE DEF p
    <2>3. \A i \in 1..2 : i \in {1, 2}
      OBVIOUS
    <2>4. \A i \in 1..2 : p[i] \in StepsOf["allDocuments"]
      BY <2>2, <2>3 DEF StepsOf
    <2>5. p \in Seq(StepsOf["allDocuments"]) /\ Len(p) = 2
      BY <2>1, <2>4, Listing
    <2>6. ASSUME NEW i \in 1..2, NEW need, RestsOn(p[i], need) PROVE \E j \in 1..(i - 1) : p[j] = need
      BY <2>6, <2>2, <2>3 DEF RestsOn, StaffSteps
    <2>7. \A i, j \in 1..2 : i # j /\ p[i] = p[j] => p[i] \in {"auth", "visible"}
      BY <2>2, <2>3
    <2>8. QED
      BY <2>4, <2>5, <2>6, <2>7 DEF Ordered, p
  <1>11. Ordered(Program["anyDocument"], StepsOf["anyDocument"])
    <2> DEFINE p == Program["anyDocument"]
    <2>1. DOMAIN p = 1..3 /\ p = [i \in DOMAIN p |-> p[i]]
      BY DEF Program, Over, Portal, Dashboard
    <2>2. p[1] = "anyDetail" /\ p[2] = "anyComments" /\ p[3] = "anyNames"
      BY DEF Program, Over, Portal, Dashboard
    <2> HIDE DEF p
    <2>3. \A i \in 1..3 : i \in {1, 2, 3}
      OBVIOUS
    <2>4. \A i \in 1..3 : p[i] \in StepsOf["anyDocument"]
      BY <2>2, <2>3 DEF StepsOf
    <2>5. p \in Seq(StepsOf["anyDocument"]) /\ Len(p) = 3
      BY <2>1, <2>4, Listing
    <2>6. ASSUME NEW i \in 1..3, NEW need, RestsOn(p[i], need) PROVE \E j \in 1..(i - 1) : p[j] = need
      BY <2>6, <2>2, <2>3 DEF RestsOn, StaffSteps
    <2>7. \A i, j \in 1..3 : i # j /\ p[i] = p[j] => p[i] \in {"auth", "visible"}
      BY <2>2, <2>3
    <2>8. QED
      BY <2>4, <2>5, <2>6, <2>7 DEF Ordered, p
  <1>12. Ordered(Program["allReport"], StepsOf["allReport"])
    <2> DEFINE p == Program["allReport"]
    <2>1. DOMAIN p = 1..8 /\ p = [i \in DOMAIN p |-> p[i]]
      BY DEF Program, Over, Portal, Dashboard
    <2>2. p[1] = "allKpis" /\ p[2] = "allSentiments" /\ p[3] = "allTopics" /\ p[4] = "allTopicSentiments" /\ p[5] =
         "negativeCount" /\ p[6] = "positiveCount" /\ p[7] = "negativeTop" /\ p[8] = "positiveTop"
      BY DEF Program, Over, Portal, Dashboard
    <2> HIDE DEF p
    <2>3. \A i \in 1..8 : i \in {1, 2, 3, 4, 5, 6, 7, 8}
      OBVIOUS
    <2>4. \A i \in 1..8 : p[i] \in StepsOf["allReport"]
      BY <2>2, <2>3 DEF StepsOf
    <2>5. p \in Seq(StepsOf["allReport"]) /\ Len(p) = 8
      BY <2>1, <2>4, Listing
    <2>6. ASSUME NEW i \in 1..8, NEW need, RestsOn(p[i], need) PROVE \E j \in 1..(i - 1) : p[j] = need
      BY <2>6, <2>2, <2>3 DEF RestsOn, StaffSteps
    <2>7. \A i, j \in 1..8 : i # j /\ p[i] = p[j] => p[i] \in {"auth", "visible"}
      BY <2>2, <2>3
    <2>8. QED
      BY <2>4, <2>5, <2>6, <2>7 DEF Ordered, p
  <1>13. DOMAIN Program = {"browse", "network", "detail", "related", "ownNetwork", "overview", "report", "negative",
                        "brands", "allDocuments", "anyDocument", "allReport"}
    BY DEF Program, Over, Portal, Dashboard
  <1>14. QED
    BY <1>1, <1>2, <1>3, <1>4, <1>5, <1>6, <1>7, <1>8, <1>9, <1>10, <1>11, <1>12, <1>13

LEMMA KindsOfStep ==
  ASSUME NEW kind \in DOMAIN Program, NEW s \in StepsOf[kind]
  PROVE  /\ s \in StaffSteps <=> kind \in DOMAIN Dashboard
         /\ s = "nodes" => kind = "network"
         /\ s \in Buckets => kind = "browse"
         /\ s = "sentiments" => kind \in {"report", "negative"}
         /\ s \in UNION {StepsOf[k] : k \in DOMAIN Program}
  <1>1. kind \in DOMAIN StepsOf
    BY DEF Program, Over, Portal, Dashboard, StepsOf
  <1>2. kind \in DOMAIN Dashboard <=> kind \in {"allDocuments", "anyDocument", "allReport"}
    BY DEF Dashboard
  <1>3. QED
    BY <1>1, <1>2 DEF StepsOf, StaffSteps, Buckets

\* What is left of a page after n of its steps.
Rest(p, n) == [k \in 1..(Len(p) - n) |-> p[n + k]]

LEMMA RestOf ==
  ASSUME NEW steps, NEW p \in Seq(steps), NEW n \in 0..Len(p)
  PROVE  /\ Rest(p, 0) = p /\ Rest(p, n) \in Seq(steps) /\ Len(Rest(p, n)) = Len(p) - n
         /\ Rest(p, n) = <<>> <=> n = Len(p)
         /\ n < Len(p) => Head(Rest(p, n)) = p[n + 1] /\ Tail(Rest(p, n)) = Rest(p, n + 1)
  <1>1. Len(p) \in Nat /\ \A i \in 1..Len(p) : p[i] \in steps
    OBVIOUS
  <1>2. Len(p) - n \in Nat
    BY <1>1
  <1>3. Rest(p, n) \in Seq(steps) /\ Len(Rest(p, n)) = Len(p) - n
    <2>1. Rest(p, n) \in [1..(Len(p) - n) -> steps]
      BY <1>1 DEF Rest
    <2>2. QED
      BY <2>1, <1>2, SeqDef
  <1>4. Rest(p, 0) = p
    BY <1>1 DEF Rest
  <1>5. Rest(p, n) = <<>> <=> n = Len(p)
    BY <1>1, <1>3
  <1>6. ASSUME n < Len(p) PROVE Head(Rest(p, n)) = p[n + 1] /\ Tail(Rest(p, n)) = Rest(p, n + 1)
    <2>1. Rest(p, n) # <<>>
      BY <1>5, <1>6
    <2>2. Head(Rest(p, n)) = p[n + 1]
      BY <1>1, <1>3, <1>6, <2>1 DEF Rest
    <2>3. /\ Tail(Rest(p, n)) \in Seq(steps) /\ Len(Tail(Rest(p, n))) = Len(p) - (n + 1)
          /\ \A k \in 1..(Len(p) - (n + 1)) : Tail(Rest(p, n))[k] = Rest(p, n)[k + 1]
      BY <1>1, <1>3, <2>1
    <2>4. /\ Rest(p, n + 1) \in Seq(steps) /\ Len(Rest(p, n + 1)) = Len(p) - (n + 1)
      <3>1. Rest(p, n + 1) \in [1..(Len(p) - (n + 1)) -> steps]
        BY <1>1, <1>6 DEF Rest
      <3>2. Len(p) - (n + 1) \in Nat
        BY <1>1, <1>6
      <3>3. QED
        BY <3>1, <3>2, SeqDef
    <2>5. \A k \in 1..(Len(p) - (n + 1)) : Rest(p, n)[k + 1] = Rest(p, n + 1)[k]
      BY <1>1 DEF Rest
    <2>6. QED
      BY <2>2, <2>3, <2>4, <2>5
  <1>7. QED
    BY <1>3, <1>4, <1>5, <1>6

(***************************************************************************)
(* The request under way                                                   *)
(***************************************************************************)

Fields == {"search", "hits", "entity", "dated", "day", "span", "platform", "bucket", "of", "focus",
           "caller", "kind", "todo", "out", "reach", "quiet", "ever"}

\* What get_current_user finds now.
ReachNow(q) == IF q.caller = "main" THEN Target ELSE granted

\* What the checks of a page have made sure of, whatever is committed since.
Met(q, s) ==
    /\ s = "auth" => tracked \subseteq q.ever.names /\ (q.quiet => q.reach = ReachNow(q))
    /\ s = "visible" => TargetOf[q.of] \in q.ever.reach \ Foreign

\* n steps of a page are done.
Done(q, p, n) ==
    /\ n \in 0..Len(p) /\ q.todo = Rest(p, n)
    /\ \A result : result \in DOMAIN q.out <=> \E i \in 1..n : result \in Results(p[i])
    /\ \A i \in 1..n : Met(q, p[i])

PageOK(q) ==
    /\ DOMAIN q = Fields
    /\ q.kind \in DOMAIN Program
    /\ q.caller = "staff" <=> q.kind \in DOMAIN Dashboard
    /\ q.entity \subseteq Name /\ q.of \in Doc /\ q.bucket \in Buckets /\ q.day \in Int /\ q.span \in Nat
    /\ DOMAIN q.ever = {"names", "reach"} /\ q.reach \subseteq q.ever.reach
    /\ \E n \in 0..Len(Program[q.kind]) : Done(q, Program[q.kind], n)

\* What an answer shows is of sources and of names the request may show.
Shown(q, out) ==
    \A result \in DOMAIN out :
        /\ \A d \in out[result].docs : TargetOf[d] \in q.ever.reach \ Foreign
        /\ out[result].names \subseteq q.ever.names

ViewInv ==
    /\ DataInv
    /\ request.kind = "" => request = NoRequest
    /\ request.kind # "" => /\ PageOK(request)
                            /\ request.kind \notin DOMAIN Dashboard => Shown(request, request.out)

LEMMA NoKind == NoRequest.kind = "" /\ NoRequest.todo = <<>> /\ NoRequest.out = <<>> /\ "" \notin DOMAIN Program
  BY DEF NoRequest, Program, Over, Portal, Dashboard

LEMMA AskStep ==
  ASSUME ViewInv, NEW caller \in Callers, NEW kind \in DOMAIN Program, NEW query \in Queries, Ask(caller, kind, query)
  PROVE  ViewInv'
  <1> DEFINE more == [caller |-> caller, kind |-> kind, todo |-> Program[kind], out |-> <<>>,
                      reach |-> {}, quiet |-> TRUE, ever |-> [names |-> {}, reach |-> {}]]
             p == Program[kind]
  <1>1. /\ DOMAIN query = {"search", "hits", "entity", "dated", "day", "span", "platform", "bucket", "of", "focus"}
        /\ query.entity \subseteq Name /\ query.of \in Doc /\ query.bucket \in Buckets
        /\ query.day \in Int /\ query.span \in Nat
    BY QueryAssumption
  <1>2. DOMAIN more = {"caller", "kind", "todo", "out", "reach", "quiet", "ever"}
    OBVIOUS
  <1>3. request' = Over(query, more)
    BY DEF Ask
  <1>4. /\ DOMAIN request' = Fields
        /\ \A f \in DOMAIN query : request'[f] = query[f]
        /\ \A f \in DOMAIN more : request'[f] = more[f]
    <2> HIDE DEF more
    <2>1. QED
      BY <1>1, <1>2, <1>3 DEF Over, Fields
  <1>5. /\ request'.entity = query.entity /\ request'.of = query.of /\ request'.bucket = query.bucket
        /\ request'.day = query.day /\ request'.span = query.span
    BY <1>1, <1>4
  <1>6. /\ request'.caller = caller /\ request'.kind = kind /\ request'.todo = p /\ request'.out = <<>>
        /\ request'.reach = {} /\ request'.ever = [names |-> {}, reach |-> {}]
    BY <1>4
  <1>7. p \in Seq(StepsOf[kind])
    BY ProgramsOrdered DEF Ordered
  <1>8. Done(request, p, 0)'
    <2>1. 0 \in 0..Len(p) /\ Rest(p, 0) = p
      BY <1>7, RestOf
    <2>2. DOMAIN request'.out = {}
      <3>1. DOMAIN <<>> = {}
        OBVIOUS
      <3>2. QED
        BY <1>6, <3>1
    <2>3. QED
      BY <1>6, <2>1, <2>2 DEF Done
  <1>9. caller = "staff" <=> kind \in DOMAIN Dashboard
    BY DEF Ask
  <1>10. PageOK(request)'
    <2> HIDE DEF more
    <2>1. 0 \in 0..Len(p)
      BY <1>7, RestOf
    <2>2. QED
      BY <1>1, <1>4, <1>5, <1>6, <1>8, <1>9, <2>1 DEF PageOK
  <1>11. DataInv'
    BY DEF ViewInv, Ask, dataVars, DataInv, DataTypeOK
  <1>12. request'.kind # "" /\ DOMAIN request'.out = {}
    <2>1. DOMAIN <<>> = {}
      OBVIOUS
    <2>2. QED
      BY <1>6, <2>1, NoKind
  <1>13. QED
    BY <1>10, <1>11, <1>12 DEF ViewInv, Shown

\* Where a request is that has steps to do.
LEMMA NextStep ==
  ASSUME PageOK(request), request.todo # <<>>
  PROVE  \E n \in 0..Len(Program[request.kind]) :
             /\ Done(request, Program[request.kind], n) /\ n + 1 \in 1..Len(Program[request.kind])
             /\ Head(request.todo) = Program[request.kind][n + 1]
             /\ Tail(request.todo) = Rest(Program[request.kind], n + 1)
             /\ Head(request.todo) \in StepsOf[request.kind]
             /\ \A i \in 1..n : Program[request.kind][i] \in StepsOf[request.kind]
  <1> DEFINE p == Program[request.kind]
             steps == StepsOf[request.kind]
  <1>1. PICK n \in 0..Len(p) : Done(request, p, n)
    BY DEF PageOK
  <1>2. p \in Seq(steps)
    BY ProgramsOrdered DEF PageOK, Ordered
  <1>3. request.todo = Rest(p, n)
    BY <1>1 DEF Done
  <1> HIDE DEF p, steps
  <1>4. Len(p) \in Nat /\ \A i \in 1..Len(p) : p[i] \in steps
    BY <1>2
  <1>5. n < Len(p) /\ n + 1 \in 1..Len(p)
    BY <1>2, <1>3, <1>4, RestOf
  <1>6. Head(request.todo) = p[n + 1] /\ Tail(request.todo) = Rest(p, n + 1)
    BY <1>2, <1>3, <1>5, RestOf
  <1>7. QED
    BY <1>1, <1>4, <1>5, <1>6 DEF p, steps

\* One step more is done.
LEMMA StepDone ==
  ASSUME NEW s, PageOK(request), request.todo # <<>>, s = Head(request.todo), DOMAIN request' = Fields,
         \A f \in Fields \ {"todo", "out", "reach", "ever"} : request'[f] = request[f],
         request'.todo = Tail(request.todo), DOMAIN request'.ever = {"names", "reach"},
         request'.reach \subseteq request'.ever.reach,
         DOMAIN request'.out = DOMAIN request.out \union Results(s),
         Met(request, s)', \A t : Met(request, t) => Met(request, t)'
  PROVE  PageOK(request)'
  <1> DEFINE p == Program[request.kind]
  <1>1. /\ request'.kind = request.kind /\ request'.caller = request.caller /\ request'.entity = request.entity
        /\ request'.of = request.of /\ request'.bucket = request.bucket /\ request'.day = request.day
        /\ request'.span = request.span
    BY DEF Fields
  <1>2. PICK n \in 0..Len(p) : /\ Done(request, p, n) /\ n + 1 \in 1..Len(p)
                               /\ s = p[n + 1] /\ Tail(request.todo) = Rest(p, n + 1)
    BY NextStep
  <1>3. p' = p
    BY <1>1
  <1> HIDE DEF p
  <1>4. n + 1 \in 0..Len(p) /\ \A i \in 1..(n + 1) : i \in 1..n \/ i = n + 1
    BY <1>2
  <1>5. \A result : result \in DOMAIN request'.out <=> \E i \in 1..(n + 1) : result \in Results(p[i])
    <2>1. n + 1 \in 1..(n + 1) /\ \A i \in 1..n : i \in 1..(n + 1)
      BY <1>2
    <2>2. \A result : result \in DOMAIN request.out <=> \E i \in 1..n : result \in Results(p[i])
      BY <1>2 DEF Done
    <2>3. QED
      BY <1>2, <1>4, <2>1, <2>2
  <1>6. \A i \in 1..(n + 1) : Met(request, p[i])'
    BY <1>3, <1>2, <1>4 DEF Done
  <1>7. Done(request, p, n + 1)'
    BY <1>3, <1>2, <1>4, <1>5, <1>6 DEF Done
  <1>8. QED
    BY <1>1, <1>4, <1>7 DEF PageOK, p

LEMMA AuthenticateStep == ViewInv /\ Authenticate => ViewInv'
  <1> SUFFICES ASSUME ViewInv, Authenticate PROVE ViewInv'
    OBVIOUS
  <1> DEFINE found == ReachNow(request)
             ever == [names |-> request.ever.names \union tracked, reach |-> request.ever.reach \union found]
  <1>1. request.todo # <<>> /\ Head(request.todo) = "auth" /\ UNCHANGED dataVars
    BY DEF Authenticate
  <1>2. PageOK(request) /\ request.kind # ""
    BY <1>1, NoKind DEF ViewInv
  <1>3. request' = [request EXCEPT !.reach = found, !.todo = Tail(@),
                                   !.ever = [names |-> @.names \union tracked, reach |-> @.reach \union found]]
    BY DEF Authenticate, ReachNow
  <1> HIDE DEF found
  <1>4. DOMAIN request = Fields
    BY <1>2 DEF PageOK
  <1>5. /\ DOMAIN request' = Fields
        /\ \A f \in Fields \ {"todo", "out", "reach", "ever"} : request'[f] = request[f]
        /\ request'.todo = Tail(request.todo) /\ request'.out = request.out
        /\ request'.reach = found /\ request'.ever = ever
    BY <1>3, <1>4 DEF Fields
  <1>6. /\ request'.caller = request.caller /\ request'.kind = request.kind
        /\ request'.of = request.of /\ request'.quiet = request.quiet
    BY <1>5 DEF Fields
  <1>7. /\ DOMAIN request'.ever = {"names", "reach"} /\ request'.reach \subseteq request'.ever.reach
        /\ request.ever.names \union tracked \subseteq request'.ever.names
        /\ request.ever.reach \subseteq request'.ever.reach
    BY <1>5
  <1>8. Met(request, "auth")'
    BY <1>1, <1>5, <1>6, <1>7 DEF Met, ReachNow, found, dataVars
  <1>9. \A s : Met(request, s) => Met(request, s)'
    BY <1>6, <1>7, <1>8 DEF Met
  <1>10. Results("auth") = {}
    BY DEF Results
  <1>11. PageOK(request)'
    BY <1>1, <1>2, <1>5, <1>7, <1>8, <1>9, <1>10, StepDone
  <1>12. DataInv'
    BY <1>1 DEF ViewInv, dataVars, DataInv, DataTypeOK
  <1>13. Shown(request, request.out) => Shown(request, request.out)'
    BY <1>5, <1>7 DEF Shown
  <1>14. QED
    BY <1>2, <1>6, <1>11, <1>12, <1>13 DEF ViewInv

LEMMA NoRequestStep ==
  ASSUME ViewInv, request' = NoRequest, UNCHANGED dataVars
  PROVE  ViewInv'
  BY NoKind DEF ViewInv, dataVars, DataInv, DataTypeOK

LEMMA CheckVisibleStep == ViewInv /\ CheckVisible => ViewInv'
  <1> SUFFICES ASSUME ViewInv, CheckVisible PROVE ViewInv'
    OBVIOUS
  <1>1. request.todo # <<>> /\ Head(request.todo) = "visible" /\ UNCHANGED dataVars
    BY DEF CheckVisible
  <1>2. PageOK(request) /\ request.kind # ""
    BY <1>1, NoKind DEF ViewInv
  <1>3. CASE ~Visible(request, request.of)
    BY <1>1, <1>3, NoRequestStep DEF CheckVisible
  <1>4. CASE Visible(request, request.of)
    <2>1. request' = [request EXCEPT !.todo = Tail(@)] /\ DOMAIN request = Fields
      BY <1>2, <1>4 DEF CheckVisible, PageOK
    <2>2. DOMAIN request' = Fields /\ \A f \in Fields \ {"todo"} : request'[f] = request[f]
      BY <2>1
    <2>3. request'.todo = Tail(request.todo)
      BY <2>1 DEF Fields
    <2>4. /\ request'.caller = request.caller /\ request'.kind = request.kind /\ request'.of = request.of
          /\ request'.quiet = request.quiet /\ request'.reach = request.reach /\ request'.ever = request.ever
          /\ request'.out = request.out
      BY <2>2 DEF Fields
    <2>5. \A s : Met(request, s) => Met(request, s)'
      BY <1>1, <2>4 DEF Met, ReachNow, dataVars
    <2>6. Met(request, "visible")'
      BY <1>2, <1>4, <2>4 DEF Met, Visible, PageOK
    <2>7. DOMAIN request'.ever = {"names", "reach"} /\ request'.reach \subseteq request'.ever.reach
      BY <1>2, <2>4 DEF PageOK
    <2>8. Results("visible") = {}
      BY DEF Results
    <2>9. PageOK(request)'
      BY <1>1, <1>2, <2>2, <2>3, <2>4, <2>5, <2>6, <2>7, <2>8, StepDone
    <2>10. DataInv'
      BY <1>1 DEF ViewInv, dataVars, DataInv, DataTypeOK
    <2>11. QED
      BY <1>2, <2>4, <2>9, <2>10 DEF ViewInv, Shown
  <1>5. QED
    BY <1>3, <1>4

LEMMA CommitStep == ViewInv /\ Commit => ViewInv'
  <1> SUFFICES ASSUME ViewInv, Commit PROVE ViewInv'
    OBVIOUS
  <1>1. DataInv'
    BY DataStep DEF ViewInv, Commit
  <1>2. CASE request.kind = ""
    BY <1>1, <1>2 DEF ViewInv, Commit
  <1>3. CASE request.kind # ""
    <2> DEFINE p == Program[request.kind]
    <2>1. PageOK(request) /\ DOMAIN request = Fields
      BY <1>3 DEF ViewInv, PageOK
    <2>2. request' = [request EXCEPT !.quiet = FALSE, !.ever.names = @ \union tracked']
      BY <1>3 DEF Commit
    <2>3. DOMAIN request' = Fields /\ \A f \in Fields \ {"quiet", "ever"} : request'[f] = request[f]
      BY <2>1, <2>2
    <2>4. request'.quiet = FALSE /\ request'.ever = [request.ever EXCEPT !.names = @ \union tracked']
      BY <2>1, <2>2 DEF Fields
    <2>5. /\ DOMAIN request'.ever = {"names", "reach"} /\ request'.ever.reach = request.ever.reach
          /\ request'.ever.names = request.ever.names \union tracked'
      BY <2>1, <2>4 DEF PageOK
    <2>6. /\ request'.caller = request.caller /\ request'.kind = request.kind /\ request'.of = request.of
          /\ request'.out = request.out /\ request'.todo = request.todo /\ request'.reach = request.reach
          /\ request'.entity = request.entity /\ request'.bucket = request.bucket /\ request'.day = request.day
          /\ request'.span = request.span
      BY <2>3 DEF Fields
    <2>7. \A s : Met(request, s) => Met(request, s)'
      <3>1. tracked' \subseteq request'.ever.names /\ request'.quiet = FALSE
        BY <2>4, <2>5
      <3>2. QED
        BY <3>1, <2>5, <2>6 DEF Met
    <2>8. PICK n \in 0..Len(p) : Done(request, p, n)
      BY <2>1 DEF PageOK
    <2>9. Done(request, p, n)'
      <3> HIDE DEF p
      <3>1. p' = p
        BY <2>6 DEF p
      <3>2. QED
        BY <2>6, <2>7, <2>8, <3>1 DEF Done
    <2>10. PageOK(request)'
      BY <2>1, <2>3, <2>5, <2>6, <2>8, <2>9 DEF PageOK
    <2>11. Shown(request, request.out) => Shown(request, request.out)'
      BY <2>5, <2>6 DEF Shown
    <2>12. QED
      BY <1>1, <1>3, <2>1, <2>6, <2>10, <2>11 DEF ViewInv
  <1>4. QED
    BY <1>2, <1>3

(***************************************************************************)
(* What the queries answer                                                 *)
(***************************************************************************)

LEMMA GivesIs ==
  ASSUME NEW result, NEW docs
  PROVE  /\ DOMAIN Gives(result, docs) = {result}
         /\ Gives(result, docs)[result].docs = docs /\ Gives(result, docs)[result].names = {}
  BY DEF Gives, Single, Rows, Nothing

\* Every query of the portal starts from the documents within the caller's reach.
LEMMA Scopes ==
  ASSUME NEW q
  PROVE  /\ OfPlatform(q) \subseteq Listed(q) /\ Listed(q) \subseteq InScope(q)
         /\ ReportScope(q, ThisWindow(q), q.focus) \subseteq InScope(q)
         /\ ReportScope(q, Before(q), q.focus) \subseteq InScope(q)
         /\ InReport(q) \subseteq ReportScope(q, ThisWindow(q), q.focus)
         /\ Negative(q) \subseteq InScope(q) /\ Channel(q) \subseteq Negative(q)
         /\ \A b : BrandDocs(q, b) \subseteq InScope(q)
  BY DEF OfPlatform, Listed, ReportScope, InReport, Classified, Of, Mentioning, Channel, News, Negative, BrandDocs,
         BrandScope

LEMMA Fewer ==
  ASSUME NEW docs
  PROVE  /\ Matched(docs) \subseteq docs /\ Classified(docs) \subseteq docs /\ News(docs) \subseteq docs
         /\ \A x : Of(docs, x) \subseteq docs /\ WithTopic(docs, x) \subseteq docs /\ Mentioning(x, docs) \subseteq docs
  BY DEF Matched, Classified, Of, WithTopic, Mentioning, News

LEMMA GivenShown ==
  ASSUME NEW q, NEW result, NEW docs, q.reach \subseteq q.ever.reach, docs \subseteq InScope(q)
  PROVE  DOMAIN Gives(result, docs) = {result} /\ Shown(q, Gives(result, docs))
  <1> DEFINE a == Gives(result, docs)
  <1>1. \A d \in docs : TargetOf[d] \in q.ever.reach \ Foreign
    BY DEF InScope
  <1>2. DOMAIN a = {result} /\ a[result].docs = docs /\ a[result].names = {}
    BY GivesIs
  <1> HIDE DEF a
  <1>3. DOMAIN a = {result} /\ Shown(q, a)
    BY <1>1, <1>2 DEF Shown
  <1>4. QED
    BY <1>3 DEF a

LEMMA FoundShown ==
  ASSUME NEW q, NEW result, NEW docs, NEW names, q.reach \subseteq q.ever.reach, docs \subseteq InScope(q),
         names \subseteq q.ever.names
  PROVE  DOMAIN Finds(result, docs, names) = {result} /\ Shown(q, Finds(result, docs, names))
  <1> DEFINE a == Finds(result, docs, names)
  <1>1. \A d \in docs : TargetOf[d] \in q.ever.reach \ Foreign
    BY DEF InScope
  <1>2. DOMAIN a = {result} /\ a[result].docs = docs /\ a[result].names = names
    BY DEF Finds, Single, Rows, Nothing
  <1> HIDE DEF a
  <1>3. DOMAIN a = {result} /\ Shown(q, a)
    BY <1>1, <1>2 DEF Shown
  <1>4. QED
    BY <1>3 DEF a

LEMMA EdgesShown ==
  ASSUME NEW q, NEW docs, NEW names, NEW pairs, q.reach \subseteq q.ever.reach, docs \subseteq InScope(q),
         names \subseteq q.ever.names, pairs \subseteq SUBSET names
  PROVE  DOMAIN EdgeRows(docs, pairs) = {"edges"} /\ Shown(q, EdgeRows(docs, pairs))
  <1>1. /\ DOMAIN EdgeRows(docs, pairs) = {"edges"} /\ EdgeRows(docs, pairs)["edges"].docs \subseteq docs
        /\ EdgeRows(docs, pairs)["edges"].names = UNION pairs
    BY DEF EdgeRows, Single, Rows, Nothing
  <1>2. UNION pairs \subseteq q.ever.names
    OBVIOUS
  <1>3. \A d \in docs : TargetOf[d] \in q.ever.reach \ Foreign
    BY DEF InScope
  <1>4. QED
    BY <1>1, <1>2, <1>3 DEF Shown

\* What every answer of a query of the portal has to be: q is the request, s its
\* next step.
AnswerShows(q, s) ==
    \A a \in Answers(q) : DOMAIN a = Results(s) /\ Shown(q, a)


\* One answer of rows within the caller's reach.
LEMMA WithinShows ==
  ASSUME NEW q, NEW s, Results(s) = {s}, q.reach \subseteq q.ever.reach,
         \A a \in Answers(q) : \E docs \in SUBSET InScope(q) : a = Gives(s, docs)
  PROVE  AnswerShows(q, s)
  <1> SUFFICES ASSUME NEW a \in Answers(q) PROVE DOMAIN a = {s} /\ Shown(q, a)
    BY DEF AnswerShows
  <1>1. PICK docs \in SUBSET InScope(q) : a = Gives(s, docs)
    OBVIOUS
  <1>2. DOMAIN Gives(s, docs) = {s} /\ Shown(q, Gives(s, docs))
    BY GivenShown
  <1>3. QED
    BY <1>1, <1>2

PlainSteps == Buckets \union {"category", "total", "growth", "throughput", "matched", "timeline", "recent", "kpis",
              "entitySentiments", "topics", "topicSentiments", "negativePosts", "positivePosts", "previous",
              "topicDocs", "brandCounts", "brandChannels", "positiveBrands", "negativeBrands", "related"}

LEMMA PlainShown ==
  ASSUME NEW q, NEW s, s = Head(q.todo), s \in PlainSteps, q.reach \subseteq q.ever.reach
  PROVE  AnswerShows(q, s)
  <1> DEFINE Within == \A a \in Answers(q) : \E docs \in SUBSET InScope(q) : a = Gives(s, docs)
  <1>1. Results(s) = {s}
    BY DEF PlainSteps, Buckets, Results
  <1>2. ASSUME s \in Buckets \union {"category", "total", "growth"} PROVE Within
    BY <1>2, Scopes DEF Answers, Buckets, Category, SentimentCount, ListTotal, Growth
  <1>3. ASSUME s \in {"throughput", "matched", "timeline", "recent", "related"} PROVE Within
    BY <1>3 DEF Answers, Buckets, Throughput, ThroughputMatched, Timeline, RecentDocuments, Related
  <1>4. ASSUME s \in {"kpis", "topics", "topicSentiments"} PROVE Within
    <2>1. Matched(InReport(q)) \subseteq InScope(q) /\ Classified(InReport(q)) \subseteq InScope(q)
      BY Scopes, Fewer
    <2>2. QED
      BY <1>4, <2>1 DEF Answers, Buckets, Kpis, TopicDetail, TopicSentiments
  <1>5. ASSUME s = "entitySentiments" PROVE Within
    <2> DEFINE docs == Classified(Matched(ReportScope(q, ThisWindow(q), q.focus)))
               rows == UNION {Mentioning(n, docs) : n \in q.out["entities"].names}
    <2>1. rows \subseteq InScope(q)
      BY Scopes DEF Mentioning, Classified, Matched
    <2>2. Answers(q) = {Gives(s, rows)}
      BY <1>5 DEF Answers, Buckets, EntitySentiments
    <2> HIDE DEF rows
    <2>3. QED
      BY <2>1, <2>2
  <1>6. ASSUME s \in {"negativePosts", "positivePosts", "previous", "topicDocs"} PROVE Within
    BY <1>6, Scopes, Fewer DEF Answers, Buckets, NegativePosts, PositivePosts, Posts, Previous, TopicDocs
  <1>7. ASSUME s \in {"brandCounts", "brandChannels", "positiveBrands", "negativeBrands"} PROVE Within
    <2> DEFINE counts == UNION {Classified(BrandDocs(q, b)) : b \in Brands}
               channels == UNION {BrandDocs(q, b) : b \in Brands}
               posts(x) == UNION {Of(Classified(BrandDocs(q, b)), x) : b \in Brands}
    <2>1. counts \subseteq InScope(q) /\ channels \subseteq InScope(q)
      BY Scopes, Fewer
    <2>2. posts("positive") \subseteq InScope(q) /\ posts("negative") \subseteq InScope(q)
      BY Scopes DEF Classified, Of
    <2>3. \/ Answers(q) = {Gives(s, counts)} \/ Answers(q) = {Gives(s, channels)}
          \/ Answers(q) = {Gives(s, posts("positive"))} \/ Answers(q) = {Gives(s, posts("negative"))}
      BY <1>7 DEF Answers, Buckets, BrandCounts, BrandChannels, BrandPosts
    <2> HIDE DEF counts, channels, posts
    <2>4. QED
      BY <2>1, <2>2, <2>3
  <1> HIDE DEF Within
  <1>8. Within
    BY <1>2, <1>3, <1>4, <1>5, <1>6, <1>7 DEF PlainSteps
  <1>9. QED
    BY <1>1, <1>8, WithinShows DEF Within

LEMMA KSubset == \A k, set : kSubset(k, set) \subseteq SUBSET set
  BY DEF kSubset


OtherSteps == {"items", "nodes", "edges", "detail", "comments", "own", "ownNodes", "ownEdges", "sentiments", "split",
              "entities", "topTopic"}

\* The steps that show names, that show the document asked for, or that contribute
\* several results.
LEMMA OtherShown ==
  ASSUME NEW q, NEW s, s = Head(q.todo), q.reach \subseteq q.ever.reach, tracked \subseteq q.ever.names,
         s \in OtherSteps,
         s \in {"detail", "comments"} => TargetOf[q.of] \in q.ever.reach \ Foreign,
         s = "edges" => q.out["nodes"].names \subseteq q.ever.names,
         s \in {"ownNodes", "ownEdges"} => q.out["own"].names \subseteq q.ever.names
  PROVE  AnswerShows(q, s)
  <1>1. \A docs : FoundNames(docs) \subseteq q.ever.names
    BY DEF FoundNames, Names
  <1>2. \A d : Names(d) \subseteq q.ever.names
    BY DEF Names
  <1>3. CASE s = "items"
    <2> DEFINE docs == {d \in OfPlatform(q) : InList(d, q.bucket)}
               names == UNION {Names(d) : d \in docs}
    <2>1. docs \subseteq InScope(q) /\ names \subseteq q.ever.names
      BY <1>2, Scopes
    <2>2. Answers(q) = {Finds("items", docs, names)}
      BY <1>3 DEF Answers, Buckets, ListItems
    <2>3. DOMAIN Finds("items", docs, names) = {"items"} /\ Shown(q, Finds("items", docs, names))
      <3> HIDE DEF docs, names
      <3>1. QED
        BY <2>1, FoundShown
    <2> HIDE DEF docs, names
    <2>4. QED
      BY <1>3, <2>2, <2>3 DEF AnswerShows, Results
  <1>4. CASE s = "nodes"
    <2> SUFFICES ASSUME NEW a \in Answers(q) PROVE DOMAIN a = {"nodes"} /\ Shown(q, a)
      BY <1>4 DEF AnswerShows, Results
    <2>1. PICK names \in TopNames(OfPlatform(q)) : a = NetworkNodes(q, names)
      BY <1>4 DEF Answers, Buckets
    <2> DEFINE docs == UNION {Mentioning(n, OfPlatform(q)) : n \in names}
    <2>2. names \subseteq FoundNames(OfPlatform(q))
      BY <2>1, KSubset DEF TopNames, Busiest
    <2>3. names \subseteq q.ever.names /\ docs \subseteq InScope(q)
      BY <1>1, <2>2, Scopes DEF Mentioning
    <2>4. a = Finds("nodes", docs, names)
      BY <2>1 DEF NetworkNodes, Nodes
    <2> HIDE DEF docs
    <2>5. QED
      BY <2>3, <2>4, FoundShown
  <1>5. CASE s = "edges"
    <2> DEFINE names == q.out["nodes"].names
               pairs == Edges(OfPlatform(q), names)
    <2>1. pairs \subseteq SUBSET names
      BY KSubset DEF Edges
    <2>2. Answers(q) = {EdgeRows(OfPlatform(q), pairs)}
      BY <1>5 DEF Answers, Buckets, NetworkEdges
    <2>3. names \subseteq q.ever.names /\ OfPlatform(q) \subseteq InScope(q)
      BY <1>5, Scopes
    <2> HIDE DEF names, pairs
    <2>4. DOMAIN EdgeRows(OfPlatform(q), pairs) = {"edges"} /\ Shown(q, EdgeRows(OfPlatform(q), pairs))
      BY <2>1, <2>3, EdgesShown
    <2>5. QED
      BY <1>5, <2>2, <2>4 DEF AnswerShows, Results
  <1>6. CASE s \in {"detail", "comments"}
    <2> DEFINE a == IF s = "detail" THEN Detail(q) ELSE Comments(q)
    <2>1. Answers(q) = {a}
      BY <1>6 DEF Answers, Buckets
    <2>2. DOMAIN a = {s} /\ a[s].docs = {q.of} /\ (a[s].names = Names(q.of) \/ a[s].names = {})
      BY <1>6 DEF Detail, Comments, Gives, Finds, Single, Rows, Nothing
    <2> HIDE DEF a
    <2>3. Shown(q, a)
      BY <1>2, <1>6, <2>2 DEF Shown
    <2>4. QED
      BY <1>6, <2>1, <2>2, <2>3 DEF AnswerShows, Results
  <1>7. CASE s = "own"
    <2>1. Answers(q) = {Finds("own", {}, Names(q.of))}
      BY <1>7 DEF Answers, Buckets, OwnNames
    <2>2. DOMAIN Finds("own", {}, Names(q.of)) = {"own"} /\ Shown(q, Finds("own", {}, Names(q.of)))
      BY <1>2, FoundShown
    <2>3. QED
      BY <1>7, <2>1, <2>2 DEF AnswerShows, Results
  <1>8. CASE s = "ownNodes"
    <2> DEFINE own == q.out["own"].names
               names == {n \in own : Mentioning(n, InScope(q)) # {}}
               docs == UNION {Mentioning(n, InScope(q)) : n \in names}
    <2>1. \/ Answers(q) = {Finds("nodes", {}, own)} \/ Answers(q) = {Finds("nodes", docs, names)}
      BY <1>8 DEF Answers, Buckets, OwnNodes, Nodes
    <2>2. own \subseteq q.ever.names /\ names \subseteq own /\ docs \subseteq InScope(q)
      BY <1>8 DEF Mentioning
    <2> HIDE DEF own, names, docs
    <2>3. DOMAIN Finds("nodes", {}, own) = {"nodes"} /\ Shown(q, Finds("nodes", {}, own))
      BY <2>2, FoundShown
    <2>4. DOMAIN Finds("nodes", docs, names) = {"nodes"} /\ Shown(q, Finds("nodes", docs, names))
      BY <2>2, FoundShown
    <2>5. QED
      BY <1>8, <2>1, <2>3, <2>4 DEF AnswerShows, Results
  <1>9. CASE s = "ownEdges"
    <2> DEFINE own == q.out["own"].names
               all == IF Cardinality(own) < 2 THEN {} ELSE Edges(InScope(q), own)
               pairs == IF q.entity \intersect own = {} THEN all
                        ELSE LET focus == CHOOSE n \in q.entity \intersect own : TRUE
                             IN  {pair \in all : focus \in pair}
    <2>1. all \subseteq SUBSET own
      BY KSubset DEF Edges
    <2>2. pairs \subseteq SUBSET own
      <3> HIDE DEF all, own
      <3>1. pairs \subseteq all
        OBVIOUS
      <3>2. QED
        BY <2>1, <3>1
    <2>3. Answers(q) = {EdgeRows(InScope(q), pairs)}
      BY <1>9 DEF Answers, Buckets, OwnEdges
    <2>4. own \subseteq q.ever.names
      BY <1>9
    <2> HIDE DEF own, all, pairs
    <2>5. DOMAIN EdgeRows(InScope(q), pairs) = {"edges"} /\ Shown(q, EdgeRows(InScope(q), pairs))
      BY <2>2, <2>4, EdgesShown
    <2>6. QED
      BY <1>9, <2>3, <2>5 DEF AnswerShows, Results
  <1>10. CASE s = "sentiments"
    <2> DEFINE a == Sentiments(q)
    <2>1. Answers(q) = {a}
      BY <1>10 DEF Answers, Buckets
    <2>2. DOMAIN a = Sentiment
      BY DEF Sentiments
    <2>3. \A x \in Sentiment : a[x].docs = Of(Classified(InReport(q)), x) /\ a[x].names = {}
      BY DEF Sentiments, Rows, Nothing
    <2>4. \A x : Of(Classified(InReport(q)), x) \subseteq InScope(q)
      BY Scopes DEF Of, Classified
    <2> HIDE DEF a
    <2>5. Shown(q, a)
      BY <2>2, <2>3, <2>4 DEF Shown, InScope
    <2>6. QED
      BY <1>10, <2>1, <2>2, <2>5 DEF AnswerShows, Results
  <1>11. CASE s = "split"
    <2> DEFINE a == ChannelSplit(q)
               news == News(Negative(q))
               social == Negative(q) \ news
    <2>1. Answers(q) = {a}
      BY <1>11 DEF Answers, Buckets
    <2>2. a = Over(Gives("news", news), Gives("social", social))
      BY DEF ChannelSplit
    <2>3. news \subseteq InScope(q) /\ social \subseteq InScope(q)
      BY Scopes, Fewer
    <2> HIDE DEF a, news, social
    <2>4. /\ DOMAIN Gives("news", news) = {"news"} /\ Shown(q, Gives("news", news))
          /\ DOMAIN Gives("social", social) = {"social"} /\ Shown(q, Gives("social", social))
      BY <2>3, GivenShown
    <2>5. DOMAIN a = {"news", "social"} /\ Shown(q, a)
      <3> DEFINE f == Gives("news", news)
                 g == Gives("social", social)
      <3> HIDE DEF f, g
      <3>1. a = Over(f, g) /\ DOMAIN f = {"news"} /\ Shown(q, f) /\ DOMAIN g = {"social"} /\ Shown(q, g)
        BY <2>2, <2>4 DEF f, g
      <3>2. DOMAIN a = {"news", "social"} /\ a["news"] = f["news"] /\ a["social"] = g["social"]
        BY <3>1 DEF Over
      <3>3. QED
        BY <3>1, <3>2 DEF Shown
    <2>6. QED
      BY <1>11, <2>1, <2>5 DEF AnswerShows, Results
  <1>12. CASE s = "entities"
    <2> DEFINE docs == {d \in Matched(ReportScope(q, ThisWindow(q), q.focus)) : Names(d) # {}}
               names == IF q.entity = {} THEN FoundNames(docs) ELSE FoundNames(docs) \intersect q.entity
               rows == UNION {Mentioning(n, docs) : n \in names}
    <2>1. Answers(q) = {Finds("entities", rows, names)}
      BY <1>12 DEF Answers, Buckets, EntityDetail
    <2>2. rows \subseteq docs
      BY DEF Mentioning
    <2>3. rows \subseteq InScope(q) /\ names \subseteq q.ever.names
      BY <1>1, <2>2, Scopes, Fewer
    <2> HIDE DEF docs, names, rows
    <2>4. DOMAIN Finds("entities", rows, names) = {"entities"} /\ Shown(q, Finds("entities", rows, names))
      BY <2>3, FoundShown
    <2>5. QED
      BY <1>12, <2>1, <2>4 DEF AnswerShows, Results
  <1>13. CASE s = "topTopic"
    <2> SUFFICES ASSUME NEW a \in Answers(q) PROVE DOMAIN a = {"topTopic"} /\ Shown(q, a)
      BY <1>13 DEF AnswerShows, Results
    <2>1. a = Gives("topTopic", {}) \/ \E label : a = TopTopic(q, label)
      BY <1>13 DEF Answers, Buckets
    <2>2. CASE a = Gives("topTopic", {})
      BY <2>2, GivenShown
    <2>3. ASSUME NEW label, a = TopTopic(q, label) PROVE DOMAIN a = {"topTopic"} /\ Shown(q, a)
      <3> DEFINE docs == WithTopic(Channel(q), label)
      <3>1. DOMAIN a = {"topTopic"} /\ a["topTopic"].docs = docs /\ a["topTopic"].names = {}
        BY <2>3 DEF TopTopic, Single, Rows, Nothing
      <3>2. docs \subseteq InScope(q)
        BY Scopes, Fewer
      <3> HIDE DEF docs
      <3>3. QED
        BY <3>1, <3>2 DEF Shown, InScope
    <2>4. QED
      BY <2>1, <2>2, <2>3
  <1>14. QED
    BY <1>3, <1>4, <1>5, <1>6, <1>7, <1>8, <1>9, <1>10, <1>11, <1>12, <1>13 DEF OtherSteps

LEMMA StaffDomain ==
  ASSUME NEW q, NEW s, s = Head(q.todo), s \in StaffSteps
  PROVE  \A a \in Answers(q) : DOMAIN a = Results(s)
  <1>1. Results(s) = {s}
    BY DEF Results, StaffSteps
  <1>2. \A a \in Answers(q) : (\E docs : a = Gives(s, docs)) \/ (\E docs, names : a = Finds(s, docs, names))
    <2>1. CASE s \in {"allRows", "allTotal", "anyDetail", "anyComments", "anyNames"}
      BY <2>1 DEF Answers, Buckets, AllRows, AllTotal, AnyDetail, AnyComments, AnyNames
    <2>2. CASE s \in {"allKpis", "allSentiments", "allTopics", "allTopicSentiments"}
      BY <2>2 DEF Answers, Buckets, AllKpis, AllSentiments, AllTopics, AllTopicSentiments
    <2>3. CASE s \in {"negativeCount", "positiveCount", "negativeTop", "positiveTop"}
      BY <2>3 DEF Answers, Buckets, CountOf, AllPosts
    <2>4. QED
      BY <2>1, <2>2, <2>3 DEF StaffSteps
  <1>3. \A docs : DOMAIN Gives(s, docs) = {s}
    BY DEF Gives, Single
  <1>4. \A docs, names : DOMAIN Finds(s, docs, names) = {s}
    BY DEF Finds, Single
  <1>5. QED
    BY <1>1, <1>2, <1>3, <1>4

\* What the next step rests on has been done.
LEMMA DoneBefore ==
  ASSUME PageOK(request), request.todo # <<>>, NEW s, s = Head(request.todo), NEW need, RestsOn(s, need)
  PROVE  Met(request, need) /\ Results(need) \subseteq DOMAIN request.out
  <1> DEFINE p == Program[request.kind]
  <1>1. PICK n \in 0..Len(p) : Done(request, p, n) /\ n + 1 \in 1..Len(p) /\ s = p[n + 1]
    BY NextStep
  <1>2. Ordered(p, StepsOf[request.kind])
    BY ProgramsOrdered DEF PageOK
  <1> HIDE DEF p
  <1>3. PICK j \in 1..n : p[j] = need
    <2>1. \E j \in 1..((n + 1) - 1) : p[j] = need
      BY <1>1, <1>2 DEF Ordered
    <2>2. (n + 1) - 1 = n
      BY <1>1
    <2>3. QED
      BY <2>1, <2>2
  <1>4. QED
    BY <1>1, <1>3 DEF Done

LEMMA AnswersShown ==
  ASSUME ViewInv, request.todo # <<>>, NEW s, s = Head(request.todo), s \notin {"auth", "visible"},
         request.kind \notin DOMAIN Dashboard
  PROVE  AnswerShows(request, s)
  <1>1. PageOK(request) /\ request.kind # "" /\ Shown(request, request.out)
    BY NoKind DEF ViewInv
  <1>2. s \in StepsOf[request.kind] /\ request.kind \in DOMAIN Program
    BY <1>1, NextStep DEF PageOK
  <1>3. s \notin StaffSteps /\ s \in UNION {StepsOf[k] : k \in DOMAIN Program}
    BY <1>2, KindsOfStep
  <1>4. tracked \subseteq request.ever.names /\ request.reach \subseteq request.ever.reach
    <2>1. RestsOn(s, "auth")
      BY <1>3 DEF RestsOn
    <2>2. Met(request, "auth")
      BY <1>1, <2>1, DoneBefore
    <2>3. QED
      BY <1>1, <2>2 DEF Met, PageOK
  <1>5. ASSUME s \in {"detail", "comments"} PROVE TargetOf[request.of] \in request.ever.reach \ Foreign
    <2>1. RestsOn(s, "visible")
      BY <1>5 DEF RestsOn
    <2>2. Met(request, "visible")
      BY <1>1, <2>1, DoneBefore
    <2>3. QED
      BY <2>2 DEF Met
  <1>6. ASSUME s = "edges" PROVE request.out["nodes"].names \subseteq request.ever.names
    <2>1. RestsOn(s, "nodes")
      BY <1>6 DEF RestsOn
    <2>2. "nodes" \in DOMAIN request.out
      BY <1>1, <2>1, DoneBefore DEF Results
    <2>3. QED
      BY <1>1, <2>2 DEF Shown
  <1>7. ASSUME s \in {"ownNodes", "ownEdges"} PROVE request.out["own"].names \subseteq request.ever.names
    <2>1. RestsOn(s, "own")
      BY <1>7 DEF RestsOn
    <2>2. "own" \in DOMAIN request.out
      BY <1>1, <2>1, DoneBefore DEF Results
    <2>3. QED
      BY <1>1, <2>2 DEF Shown
  <1>8. CASE s \in PlainSteps
    BY <1>4, <1>8, PlainShown
  <1>9. CASE s \in OtherSteps
    BY <1>4, <1>5, <1>6, <1>7, <1>9, OtherShown
  <1>10. s \in PlainSteps \union OtherSteps
    <2>1. \E kind \in DOMAIN StepsOf : s \in StepsOf[kind]
      BY <1>2 DEF StepsOf, Program, Over, Portal, Dashboard
    <2>2. QED
      BY <1>3, <2>1 DEF StepsOf, StaffSteps, PlainSteps, OtherSteps, Buckets
  <1>11. QED
    BY <1>8, <1>9, <1>10

LEMMA QueryStep == ViewInv /\ Query => ViewInv'
  <1> SUFFICES ASSUME ViewInv, Query PROVE ViewInv'
    OBVIOUS
  <1>0. PICK s : s = Head(request.todo)
    OBVIOUS
  <1>1. request.todo # <<>> /\ s \notin {"auth", "visible"} /\ UNCHANGED dataVars
    BY <1>0 DEF Query
  <1>2. PageOK(request) /\ request.kind # "" /\ DOMAIN request = Fields
    BY <1>1, NoKind DEF ViewInv, PageOK
  <1>3. PICK a \in Answers(request) : request' = [request EXCEPT !.out = Over(a, @), !.todo = Tail(@)]
    BY DEF Query
  <1>4. /\ DOMAIN request' = Fields /\ \A f \in Fields \ {"todo", "out"} : request'[f] = request[f]
        /\ request'.todo = Tail(request.todo) /\ request'.out = Over(a, request.out)
    BY <1>2, <1>3 DEF Fields
  <1>5. /\ request'.caller = request.caller /\ request'.kind = request.kind /\ request'.of = request.of
        /\ request'.quiet = request.quiet /\ request'.reach = request.reach /\ request'.ever = request.ever
    BY <1>4 DEF Fields
  <1>6. s \in StaffSteps <=> request.kind \in DOMAIN Dashboard
    BY <1>0, <1>1, <1>2, NextStep, KindsOfStep DEF PageOK
  <1>7. /\ DOMAIN a = Results(s)
        /\ request.kind \notin DOMAIN Dashboard => Shown(request, a)
    <2>1. CASE request.kind \in DOMAIN Dashboard
      BY <1>0, <1>6, <2>1, StaffDomain
    <2>2. CASE request.kind \notin DOMAIN Dashboard
      BY <1>0, <1>1, <2>2, AnswersShown DEF AnswerShows
    <2>3. QED
      BY <2>1, <2>2
  <1>8. DOMAIN request'.out = DOMAIN request.out \union Results(s)
    BY <1>4, <1>7 DEF Over
  <1>9. \A t : Met(request, t) => Met(request, t)'
    BY <1>1, <1>5 DEF Met, ReachNow, dataVars
  <1>10. Met(request, s)'
    BY <1>1 DEF Met
  <1>11. DOMAIN request'.ever = {"names", "reach"} /\ request'.reach \subseteq request'.ever.reach
    BY <1>2, <1>5 DEF PageOK
  <1>12. PageOK(request)'
    BY <1>0, <1>1, <1>2, <1>4, <1>8, <1>9, <1>10, <1>11, StepDone
  <1>13. DataInv'
    BY <1>1 DEF ViewInv, dataVars, DataInv, DataTypeOK
  <1>14. request.kind \notin DOMAIN Dashboard => Shown(request, request.out)'
    <2> SUFFICES ASSUME request.kind \notin DOMAIN Dashboard PROVE Shown(request, request.out)'
      OBVIOUS
    <2>1. Shown(request, request.out) /\ Shown(request, a)
      BY <1>2, <1>7 DEF ViewInv
    <2>2. \A r \in DOMAIN request'.out : \/ r \in DOMAIN a /\ request'.out[r] = a[r]
                                         \/ r \in DOMAIN request.out /\ request'.out[r] = request.out[r]
      BY <1>4 DEF Over
    <2>3. QED
      BY <1>5, <2>1, <2>2 DEF Shown
  <1>15. QED
    BY <1>2, <1>5, <1>12, <1>13, <1>14 DEF ViewInv

LEMMA ViewStep == ViewInv /\ [ViewNext]_viewVars => ViewInv'
  <1> SUFFICES ASSUME ViewInv, [ViewNext]_viewVars PROVE ViewInv'
    OBVIOUS
  <1>1. CASE \E caller \in Callers, kind \in DOMAIN Program, query \in Queries : Ask(caller, kind, query)
    BY <1>1, AskStep
  <1>2. CASE Reply
    BY <1>2, NoRequestStep DEF Reply
  <1>3. CASE UNCHANGED viewVars
    BY <1>3 DEF viewVars, dataVars, ViewInv, DataInv, DataTypeOK, PageOK, Done, Met, ReachNow, Shown
  <1>4. QED
    BY <1>1, <1>2, <1>3, AuthenticateStep, CheckVisibleStep, QueryStep, CommitStep DEF ViewNext

LEMMA ViewInitInv == ViewInit => ViewInv
  BY DataInitInv, NoKind DEF ViewInit, ViewInv

\* Whatever is granted, revoked, tracked or written while the queries of a page or a
\* report run: the caller is shown documents of the organization's sources that a
\* check of the same request let through, and names that were tracked meanwhile.
THEOREM OnlyGrantedIsShown == ViewSpec => []ShownWasGranted
  <1>1. ViewInv => ShownWasGranted
    <2> SUFFICES ASSUME ViewInv, request.kind \notin DOMAIN Dashboard
                 PROVE  Shown(request, request.out)
      BY DEF Shown, ShownWasGranted, Docs
    <2>1. CASE request.kind = ""
      <3>1. DOMAIN <<>> = {}
        OBVIOUS
      <3>2. QED
        BY <2>1, <3>1, NoKind DEF ViewInv, Shown
    <2>2. QED
      BY <2>1 DEF ViewInv
  <1>2. QED
    BY <1>1, ViewInitInv, ViewStep, PTL DEF ViewSpec

(***************************************************************************)
(* What a quiet page counts                                                *)
(*                                                                         *)
(* While nothing is committed, what an earlier query gave is what it would *)
(* give now, so that the results of one page can be compared.              *)
(***************************************************************************)

\* The rows of the reports on tracked names, and of those the classified ones.
Naming(q) == {d \in Matched(ReportScope(q, ThisWindow(q), q.focus)) : Names(d) # {}}
NamingClassified(q) == Classified(Matched(ReportScope(q, ThisWindow(q), q.focus)))

\* The documents a result counts that depends on what is stored and what was asked
\* for, on no choice and on no other result: on the pages, in the reports of the
\* portal, and on the dashboard.
CountsPage(q, r, docs) ==
    /\ r = "category" => docs = Listed(q)
    /\ r \in Buckets => docs = {d \in OfPlatform(q) : InBucket(d, r)}
    /\ r \in {"total", "items"} => docs = {d \in OfPlatform(q) : InList(d, q.bucket)}

CountsReport(q, r, docs) ==
    /\ r \in {"kpis", "topics"} => docs = Matched(InReport(q))
    /\ r \in Sentiment => docs = Of(Classified(InReport(q)), r)
    /\ r = "topicSentiments" => docs = Classified(InReport(q))
    /\ r = "negativePosts" => docs = Posts(q, "negative")
    /\ r = "positivePosts" => docs = Posts(q, "positive")
    /\ r = "news" => docs = News(Negative(q))
    /\ r = "social" => docs = Negative(q) \ News(Negative(q))
    /\ r = "previous" => docs = Matched(ReportScope(q, Before(q), q.focus))

CountsBrands(q, r, docs) ==
    /\ r = "brandCounts" => docs = UNION {Classified(BrandDocs(q, b)) : b \in Brands}
    /\ r = "brandChannels" => docs = UNION {BrandDocs(q, b) : b \in Brands}
    /\ r = "positiveBrands" => docs = UNION {Of(Classified(BrandDocs(q, b)), "positive") : b \in Brands}
    /\ r = "negativeBrands" => docs = UNION {Of(Classified(BrandDocs(q, b)), "negative") : b \in Brands}

CountsStaff(q, r, docs) ==
    /\ r \in {"allRows", "allTotal"} => docs = AllListed(q)
    /\ r = "allKpis" => docs = Reported(q)
    /\ r = "allSentiments" => docs = Classified(Reported(q))
    /\ r = "negativeCount" => docs = Of(Classified(Reported(q)), "negative")
    /\ r = "positiveCount" => docs = Of(Classified(Reported(q)), "positive")
    /\ r = "negativeTop" => docs = Of(Reported(q), "negative")
    /\ r = "positiveTop" => docs = Of(Reported(q), "positive")

Counts(q, r, docs) ==
    /\ q.kind = "browse" => CountsPage(q, r, docs)
    /\ q.kind # "browse" => CountsReport(q, r, docs)
    /\ CountsBrands(q, r, docs) /\ CountsStaff(q, r, docs)

\* What a result is that is computed from others: row, given the results out of the
\* queries before.
Links(q, r, row, out) ==
    /\ r = "entities" => /\ row.names \subseteq tracked
                         /\ row.docs = UNION {Mentioning(n, Naming(q)) : n \in row.names}
    /\ r = "entitySentiments" => row.docs = UNION {Mentioning(n, NamingClassified(q)) : n \in out["entities"].names}
    /\ r = "topTopic" => row.docs = {} \/ row.docs = WithTopic(Channel(q), row.topic)
    /\ r = "topicDocs" => row.docs = out["topTopic"].docs
    /\ r = "allTopics" => /\ row.names \in TopicsFound(q)
                          /\ row.docs = UNION {Mentioning(n, Reported(q)) : n \in row.names}
    /\ r = "allTopicSentiments" => \E names \in TopicsFound(q) :
          row.docs = UNION {Mentioning(n, Classified(Reported(q))) : n \in names \intersect out["allTopics"].names}

\* The results others are computed from.
From(r) == CASE r = "entitySentiments" -> {"entities"} [] r = "topicDocs" -> {"topTopic"}
             [] r = "allTopicSentiments" -> {"allTopics"} [] OTHER -> {}

FreshInv == request.kind # "" /\ request.quiet => \A r \in DOMAIN request.out :
    Counts(request, r, request.out[r].docs) /\ Links(request, r, request.out[r], request.out)

\* Nothing is committed, and who asks for what stays.
SameQuestion ==
    /\ doc' = doc /\ tracked' = tracked
    /\ request'.kind = request.kind /\ request'.reach = request.reach
    /\ request'.search = request.search /\ request'.hits = request.hits /\ request'.entity = request.entity
    /\ request'.dated = request.dated /\ request'.day = request.day /\ request'.span = request.span
    /\ request'.platform = request.platform /\ request'.bucket = request.bucket /\ request'.focus = request.focus

LEMMA SameScopes ==
  ASSUME SameQuestion
  PROVE  /\ OfPlatform(request)' = OfPlatform(request) /\ Listed(request)' = Listed(request)
         /\ InReport(request)' = InReport(request) /\ Negative(request)' = Negative(request)
         /\ ReportScope(request, Before(request), request.focus)' = ReportScope(request, Before(request), request.focus)
         /\ \A b : BrandDocs(request, b)' = BrandDocs(request, b)
         /\ Naming(request)' = Naming(request) /\ NamingClassified(request)' = NamingClassified(request)
         /\ Reported(request)' = Reported(request) /\ AllListed(request)' = AllListed(request)
  <1>1. Stored' = Stored /\ InScope(request)' = InScope(request)
    BY DEF SameQuestion, InScope, Stored
  <1>2. Listed(request)' = Listed(request)
    BY <1>1 DEF SameQuestion, Listed, Between, Window
  <1>3. OfPlatform(request)' = OfPlatform(request)
    BY <1>2 DEF SameQuestion, OfPlatform
  <1>4. ThisWindow(request)' = ThisWindow(request) /\ Before(request)' = Before(request)
    BY DEF SameQuestion, ThisWindow, Before, Window
  <1>5. ReportScope(request, ThisWindow(request), request.focus)' =
        ReportScope(request, ThisWindow(request), request.focus)
    BY <1>1, <1>4 DEF SameQuestion, ReportScope, Between
  <1>6. ReportScope(request, Before(request), request.focus)' = ReportScope(request, Before(request), request.focus)
    BY <1>1, <1>4 DEF SameQuestion, ReportScope, Between
  <1>7. InReport(request)' = InReport(request)
    BY <1>5 DEF SameQuestion, InReport, Names
  <1>8. Negative(request)' = Negative(request)
    BY <1>5 DEF SameQuestion, Negative, Of, Classified
  <1>9. \A b : BrandDocs(request, b)' = BrandDocs(request, b)
    BY <1>1, <1>4 DEF SameQuestion, BrandDocs, BrandScope, Mentioning, Between
  <1>10. Naming(request)' = Naming(request) /\ NamingClassified(request)' = NamingClassified(request)
    BY <1>5 DEF SameQuestion, Naming, NamingClassified, Matched, Classified, Names
  <1>11. Reported(request)' = Reported(request)
    BY <1>1, <1>4 DEF SameQuestion, Reported, Between
  <1>12. AllListed(request)' = AllListed(request)
    BY <1>1 DEF SameQuestion, AllListed
  <1>13. QED
    BY <1>2, <1>3, <1>6, <1>7, <1>8, <1>9, <1>10, <1>11, <1>12

LEMMA SameCounts ==
  ASSUME SameQuestion, NEW r, NEW docs, Counts(request, r, docs)
  PROVE  Counts(request, r, docs)'
  <1>1. doc' = doc /\ request'.kind = request.kind /\ request'.bucket = request.bucket
    BY DEF SameQuestion
  <1>2. CountsPage(request, r, docs) => CountsPage(request, r, docs)'
    <2>1. /\ {d \in OfPlatform(request) : InBucket(d, r)}' = {d \in OfPlatform(request) : InBucket(d, r)}
          /\ {d \in OfPlatform(request) : InList(d, request.bucket)}' =
             {d \in OfPlatform(request) : InList(d, request.bucket)}
      BY <1>1, SameScopes DEF InBucket, InList, NotCompetitor
    <2>2. QED
      BY <2>1, SameScopes DEF CountsPage
  <1>3. CountsReport(request, r, docs) => CountsReport(request, r, docs)'
    <2>1. /\ Matched(InReport(request))' = Matched(InReport(request))
          /\ Of(Classified(InReport(request)), r)' = Of(Classified(InReport(request)), r)
          /\ Classified(InReport(request))' = Classified(InReport(request))
          /\ Posts(request, "negative")' = Posts(request, "negative")
          /\ Posts(request, "positive")' = Posts(request, "positive")
      BY <1>1, SameScopes DEF Of, Classified, Matched, Posts
    <2>2. /\ News(Negative(request))' = News(Negative(request)) /\ Negative(request)' = Negative(request)
          /\ Matched(ReportScope(request, Before(request), request.focus))' =
             Matched(ReportScope(request, Before(request), request.focus))
      BY <1>1, SameScopes DEF News, Matched
    <2>3. QED
      BY <2>1, <2>2 DEF CountsReport
  <1>4. CountsBrands(request, r, docs) => CountsBrands(request, r, docs)'
    <2>1. ASSUME NEW b PROVE /\ BrandDocs(request, b)' = BrandDocs(request, b)
                             /\ Classified(BrandDocs(request, b))' = Classified(BrandDocs(request, b))
      <3>1. BrandDocs(request, b)' = BrandDocs(request, b)
        BY SameScopes
      <3>2. QED
        BY <1>1, <3>1 DEF Classified
    <2>2. ASSUME NEW b, NEW x PROVE Of(Classified(BrandDocs(request, b)), x)' = Of(Classified(BrandDocs(request, b)), x)
      BY <1>1, <2>1 DEF Of
    <2>3. QED
      BY <2>1, <2>2 DEF CountsBrands
  <1>5. CountsStaff(request, r, docs) => CountsStaff(request, r, docs)'
    <2>1. Reported(request)' = Reported(request) /\ Classified(Reported(request))' = Classified(Reported(request))
      BY <1>1, SameScopes DEF Classified
    <2>2. /\ Of(Classified(Reported(request)), "negative")' = Of(Classified(Reported(request)), "negative")
          /\ Of(Classified(Reported(request)), "positive")' = Of(Classified(Reported(request)), "positive")
          /\ Of(Reported(request), "negative")' = Of(Reported(request), "negative")
          /\ Of(Reported(request), "positive")' = Of(Reported(request), "positive")
      BY <1>1, <2>1 DEF Of
    <2>3. QED
      BY <2>1, <2>2, SameScopes DEF CountsStaff
  <1>6. QED
    BY <1>1, <1>2, <1>3, <1>4, <1>5 DEF Counts

LEMMA SameLinks ==
  ASSUME SameQuestion, NEW r, NEW row, NEW out, NEW more, \A need \in From(r) : more[need] = out[need],
         Links(request, r, row, out)
  PROVE  Links(request, r, row, more)'
  <1>1. doc' = doc /\ tracked' = tracked /\ request'.platform = request.platform
    BY DEF SameQuestion
  <1>2. ASSUME NEW n PROVE /\ Mentioning(n, Naming(request))' = Mentioning(n, Naming(request))
                           /\ Mentioning(n, NamingClassified(request))' = Mentioning(n, NamingClassified(request))
                           /\ Mentioning(n, Reported(request))' = Mentioning(n, Reported(request))
    BY <1>1, SameScopes DEF Mentioning
  <1>3. Classified(Reported(request))' = Classified(Reported(request))
    BY <1>1, SameScopes DEF Classified
  <1>4. ASSUME NEW n PROVE Mentioning(n, Classified(Reported(request)))' = Mentioning(n, Classified(Reported(request)))
    BY <1>1, <1>3 DEF Mentioning
  <1>5. Channel(request)' = Channel(request)
    BY <1>1, SameScopes DEF Channel, News
  <1>6. ASSUME NEW x PROVE WithTopic(Channel(request), x)' = WithTopic(Channel(request), x)
    BY <1>1, <1>5 DEF WithTopic
  <1>7. AllNames(request)' = AllNames(request)
    BY <1>1, SameScopes DEF AllNames
  <1>8. TopicsFound(request)' = TopicsFound(request)
    BY <1>2, <1>7 DEF TopicsFound, Busiest
  <1>9. CASE r \in {"entities", "topTopic", "allTopics"}
    BY <1>1, <1>2, <1>6, <1>8, <1>9 DEF Links
  <1>10. CASE r = "entitySentiments"
    <2>1. more["entities"] = out["entities"]
      BY <1>10 DEF From
    <2>2. QED
      BY <1>2, <1>10, <2>1 DEF Links
  <1>11. CASE r = "topicDocs"
    <2>1. more["topTopic"] = out["topTopic"]
      BY <1>11 DEF From
    <2>2. QED
      BY <1>11, <2>1 DEF Links
  <1>12. CASE r = "allTopicSentiments"
    <2>1. more["allTopics"] = out["allTopics"]
      BY <1>12 DEF From
    <2>2. QED
      BY <1>4, <1>8, <1>12, <2>1 DEF Links
  <1>13. QED
    BY <1>9, <1>10, <1>11, <1>12 DEF Links

\* What a query answers is what it is to count.
Answered(q, a) == \A r \in DOMAIN a : Counts(q, r, a[r].docs) /\ Links(q, r, a[r], q.out)

LEMMA GivenAnswer ==
  ASSUME NEW q, NEW r, NEW docs, NEW names, Counts(q, r, docs), Links(q, r, [Rows(docs) EXCEPT !.names = names], q.out)
  PROVE  /\ Answered(q, Finds(r, docs, names))
         /\ names = {} => Answered(q, Gives(r, docs))
  <1> DEFINE row == [Rows(docs) EXCEPT !.names = names]
  <1>1. row.docs = docs
    BY DEF Rows, Nothing
  <1>2. names = {} => row = Rows(docs)
    <2>1. Rows(docs) = [docs |-> docs, names |-> {}, pairs |-> {}, topic |-> NoTopic]
      BY DEF Rows, Nothing
    <2>2. QED
      BY <2>1
  <1> HIDE DEF row
  <1>3. Finds(r, docs, names) = Single(r, row) /\ (names = {} => Gives(r, docs) = Single(r, row))
    BY <1>2 DEF Finds, Gives, row
  <1>4. DOMAIN Single(r, row) = {r} /\ Single(r, row)[r] = row
    BY DEF Single
  <1>5. Links(q, r, row, q.out)
    BY DEF row
  <1>6. Answered(q, Single(r, row))
    <2> DEFINE f == Single(r, row)
    <2> HIDE DEF f
    <2>1. DOMAIN f = {r} /\ f[r] = row
      BY <1>4 DEF f
    <2>2. Answered(q, f)
      BY <1>1, <1>5, <2>1 DEF Answered
    <2>3. QED
      BY <2>2 DEF f
  <1>7. QED
    BY <1>3, <1>6

\* The results that are computed from no other.
LEMMA UnlinkedAnswer ==
  ASSUME NEW q, NEW r, NEW docs, NEW names, Counts(q, r, docs),
         r \notin {"entities", "entitySentiments", "topTopic", "topicDocs", "allTopics", "allTopicSentiments"}
  PROVE  Answered(q, Finds(r, docs, names)) /\ Answered(q, Gives(r, docs))
  <1>1. \A row : Links(q, r, row, q.out)
    BY DEF Links
  <1>2. QED
    BY <1>1, GivenAnswer

LEMMA KindCounts ==
  ASSUME NEW kind \in DOMAIN Program, NEW s \in StepsOf[kind]
  PROVE  /\ s \in Buckets \union {"category", "total", "items", "growth"} => kind = "browse"
         /\ s \in {"kpis", "sentiments", "topics", "topicSentiments", "negativePosts", "positivePosts", "split",
                   "previous", "entities", "entitySentiments", "topTopic", "topicDocs"} => kind # "browse"
  <1>1. kind \in DOMAIN StepsOf
    BY DEF Program, Over, Portal, Dashboard, StepsOf
  <1>2. QED
    BY <1>1 DEF StepsOf, Buckets

LinkedSteps == {"sentiments", "split", "entities", "entitySentiments", "topTopic", "topicDocs", "allTopics",
               "allTopicSentiments", "nodes", "edges", "detail", "own", "ownNodes", "ownEdges", "anyNames"}

\* Steps whose answer is one result that is computed from no other.
LEMMA PlainRight ==
  ASSUME NEW q, NEW s, s = Head(q.todo), q.kind \in DOMAIN Program, s \in StepsOf[q.kind], NEW a \in Answers(q),
         s \notin {"auth", "visible"} \union LinkedSteps
  PROVE  Answered(q, a)
  <1> DEFINE Fits == \E docs, names : Counts(q, s, docs) /\ (a = Gives(s, docs) \/ a = Finds(s, docs, names))
  <1>1. /\ s \in Buckets \union {"category", "total", "items", "growth"} => q.kind = "browse"
        /\ s \in {"kpis", "topics", "topicSentiments", "negativePosts", "positivePosts", "previous"} =>
              q.kind # "browse"
    BY KindCounts
  <1>2. ASSUME s \in Buckets PROVE Fits
    <2> DEFINE docs == {d \in OfPlatform(q) : InBucket(d, s)}
    <2>1. a = Gives(s, docs)
      BY <1>2 DEF Answers, Buckets, SentimentCount
    <2>2. Counts(q, s, docs)
      BY <1>1, <1>2 DEF Counts, CountsPage, CountsBrands, CountsStaff, Buckets
    <2> HIDE DEF docs
    <2>3. QED
      BY <2>1, <2>2
  <1>3. ASSUME s \in {"category", "total", "items"} PROVE Fits
    <2> DEFINE docs == {d \in OfPlatform(q) : InList(d, q.bucket)}
    <2>1. s = "category" => a = Gives(s, Listed(q)) /\ Counts(q, s, Listed(q))
      BY <1>1 DEF Answers, Buckets, Category, Counts, CountsPage, CountsBrands, CountsStaff
    <2>2. /\ s = "total" => a = Gives(s, docs)
          /\ s = "items" => \E names : a = Finds(s, docs, names)
      BY DEF Answers, Buckets, ListTotal, ListItems
    <2>3. s \in {"total", "items"} => Counts(q, s, docs)
      BY <1>1 DEF Counts, CountsPage, CountsBrands, CountsStaff, Buckets
    <2> HIDE DEF docs
    <2>4. QED
      BY <1>3, <2>1, <2>2, <2>3
  <1>4. ASSUME s \in {"kpis", "topics", "topicSentiments", "negativePosts", "positivePosts", "previous"} PROVE Fits
    <2> DEFINE docs == CASE s \in {"kpis", "topics"} -> Matched(InReport(q))
                         [] s = "topicSentiments" -> Classified(InReport(q))
                         [] s = "negativePosts" -> Posts(q, "negative")
                         [] s = "positivePosts" -> Posts(q, "positive")
                         [] s = "previous" -> Matched(ReportScope(q, Before(q), q.focus))
    <2>1. a = Gives(s, docs)
      BY <1>4 DEF Answers, Buckets, Kpis, TopicDetail, TopicSentiments, NegativePosts, PositivePosts, Previous
    <2>2. CountsReport(q, s, docs)
      BY <1>4, DocumentAssumption DEF CountsReport
    <2>3. Counts(q, s, docs)
      <3> HIDE DEF docs
      <3>1. QED
        BY <1>1, <1>4, <2>2 DEF Counts, CountsBrands, CountsStaff
    <2> HIDE DEF docs
    <2>4. QED
      BY <2>1, <2>3
  <1>5. ASSUME s \in {"brandCounts", "brandChannels", "positiveBrands", "negativeBrands"} PROVE Fits
    <2>1. \E docs : a = Gives(s, docs) /\ CountsBrands(q, s, docs)
      BY <1>5 DEF Answers, Buckets, BrandCounts, BrandChannels, BrandPosts, CountsBrands
    <2>2. PICK docs : a = Gives(s, docs) /\ CountsBrands(q, s, docs)
      BY <2>1
    <2>3. Counts(q, s, docs)
      BY <1>5, <2>2, DocumentAssumption DEF Counts, CountsPage, CountsReport, CountsStaff, Buckets
    <2>4. QED
      BY <2>2, <2>3
  <1>6. ASSUME s \in {"allRows", "allTotal", "allKpis", "allSentiments", "negativeCount", "positiveCount",
                      "negativeTop", "positiveTop"} PROVE Fits
    <2> DEFINE docs == CASE s \in {"allRows", "allTotal"} -> AllListed(q)
                         [] s = "allKpis" -> Reported(q)
                         [] s = "allSentiments" -> Classified(Reported(q))
                         [] s = "negativeCount" -> Of(Classified(Reported(q)), "negative")
                         [] s = "positiveCount" -> Of(Classified(Reported(q)), "positive")
                         [] s = "negativeTop" -> Of(Reported(q), "negative")
                         [] s = "positiveTop" -> Of(Reported(q), "positive")
    <2>1. a = Gives(s, docs) \/ \E names : a = Finds(s, docs, names)
      BY <1>6 DEF Answers, Buckets, AllRows, AllTotal, AllKpis, AllSentiments, CountOf, AllPosts
    <2>2. CountsStaff(q, s, docs)
      BY <1>6 DEF CountsStaff
    <2> HIDE DEF docs
    <2>3. Counts(q, s, docs)
      BY <1>6, <2>2, DocumentAssumption DEF Counts, CountsPage, CountsReport, CountsBrands, Buckets
    <2>4. QED
      BY <2>1, <2>3
  <1>7. ASSUME s \in {"growth", "throughput", "matched", "timeline", "recent", "comments", "related", "anyDetail",
                      "anyComments"} PROVE Fits
    <2>1. \E docs : a = Gives(s, docs)
      BY <1>7 DEF Answers, Buckets, Growth, Throughput, ThroughputMatched, Timeline, RecentDocuments, Comments, Related,
                  AnyDetail, AnyComments
    <2>2. \A docs : Counts(q, s, docs)
      BY <1>7, DocumentAssumption DEF Counts, CountsPage, CountsReport, CountsBrands, CountsStaff, Buckets
    <2>3. QED
      BY <2>1, <2>2
  <1>8. Fits
    <2>1. q.kind \in DOMAIN StepsOf
      BY DEF Program, Over, Portal, Dashboard, StepsOf
    <2> HIDE DEF Fits
    <2>2. s \in Buckets \union {"category", "total", "items", "growth", "kpis", "topics", "topicSentiments",
                    "negativePosts", "positivePosts", "previous", "brandCounts", "brandChannels", "positiveBrands",
                    "negativeBrands", "throughput", "matched", "timeline", "recent", "comments", "related", "allRows",
                    "allTotal", "anyDetail", "anyComments", "allKpis", "allSentiments", "negativeCount",
                    "positiveCount", "negativeTop", "positiveTop"}
      BY <2>1 DEF StepsOf, Buckets, LinkedSteps
    <2>3. QED
      BY <2>2, <1>2, <1>3, <1>4, <1>5, <1>6, <1>7
  <1>9. s \notin {"entities", "entitySentiments", "topTopic", "topicDocs", "allTopics", "allTopicSentiments"}
    BY DEF LinkedSteps
  <1>10. QED
    BY <1>8, <1>9, UnlinkedAnswer

\* The other steps: two results, results that are computed from others, and those
\* nothing is said of here.
LEMMA LinkedRight ==
  ASSUME NEW q, NEW s, s = Head(q.todo), q.kind \in DOMAIN Program, s \in StepsOf[q.kind], NEW a \in Answers(q),
         s \in LinkedSteps,
         s = "topicDocs" => Links(q, "topTopic", q.out["topTopic"], q.out)
  PROVE  Answered(q, a)
  <1>1. s \in {"sentiments", "split", "entities", "entitySentiments", "topTopic", "topicDocs"} => q.kind # "browse"
    BY KindCounts
  <1>2. \A r, docs : r \in {"entities", "entitySentiments", "topTopic", "topicDocs", "allTopics", "allTopicSentiments",
                            "nodes", "edges", "detail", "own", "anyNames"} => Counts(q, r, docs)
    BY DocumentAssumption DEF Counts, CountsPage, CountsReport, CountsBrands, CountsStaff, Buckets
  <1>3. CASE s = "sentiments"
    <2>1. a = Sentiments(q)
      BY <1>3 DEF Answers, Buckets
    <2>2. DOMAIN a = Sentiment /\ \A r \in Sentiment : a[r].docs = Of(Classified(InReport(q)), r)
      BY <2>1 DEF Sentiments, Rows, Nothing
    <2>3. \A r \in Sentiment : Counts(q, r, a[r].docs)
      BY <1>1, <1>3, <2>2, DocumentAssumption DEF Counts, CountsReport, CountsBrands, CountsStaff
    <2>4. \A r \in Sentiment : Links(q, r, a[r], q.out)
      BY DocumentAssumption DEF Links
    <2>5. QED
      BY <2>2, <2>3, <2>4 DEF Answered
  <1>4. CASE s = "split"
    <2> DEFINE f == Gives("news", News(Negative(q)))
               g == Gives("social", Negative(q) \ News(Negative(q)))
    <2>1. a = Over(f, g)
      BY <1>4 DEF Answers, Buckets, ChannelSplit
    <2>2. /\ DOMAIN f = {"news"} /\ f["news"].docs = News(Negative(q))
          /\ DOMAIN g = {"social"} /\ g["social"].docs = Negative(q) \ News(Negative(q))
      BY GivesIs
    <2> HIDE DEF f, g
    <2>3. DOMAIN a = {"news", "social"} /\ a["news"] = f["news"] /\ a["social"] = g["social"]
      BY <2>1, <2>2 DEF Over
    <2>4. Counts(q, "news", f["news"].docs) /\ Counts(q, "social", g["social"].docs)
      BY <1>1, <1>4, <2>2, DocumentAssumption DEF Counts, CountsReport, CountsBrands, CountsStaff
    <2>5. \A row : Links(q, "news", row, q.out) /\ Links(q, "social", row, q.out)
      BY DEF Links
    <2>6. QED
      BY <2>3, <2>4, <2>5 DEF Answered
  <1>5. CASE s = "entities"
    <2> DEFINE names == IF q.entity = {} THEN FoundNames(Naming(q)) ELSE FoundNames(Naming(q)) \intersect q.entity
               docs == UNION {Mentioning(n, Naming(q)) : n \in names}
    <2>1. a = Finds("entities", docs, names)
      BY <1>5 DEF Answers, Buckets, EntityDetail, Naming
    <2>2. names \subseteq tracked
      BY DEF FoundNames, Names
    <2>3. Links(q, "entities", [Rows(docs) EXCEPT !.names = names], q.out)
      <3> DEFINE row == [Rows(docs) EXCEPT !.names = names]
      <3>1. row.docs = docs /\ row.names = names
        BY DEF Rows, Nothing
      <3>2. row.docs = UNION {Mentioning(n, Naming(q)) : n \in row.names}
        BY <3>1
      <3> HIDE DEF row, names, docs
      <3>3. Links(q, "entities", row, q.out)
        BY <2>2, <3>1, <3>2 DEF Links
      <3>4. QED
        BY <3>3 DEF row
    <2> HIDE DEF docs, names
    <2>4. QED
      BY <1>2, <2>1, <2>3, GivenAnswer
  <1>6. CASE s = "entitySentiments"
    <2> DEFINE docs == UNION {Mentioning(n, NamingClassified(q)) : n \in q.out["entities"].names}
    <2>1. a = Gives("entitySentiments", docs)
      BY <1>6 DEF Answers, Buckets, EntitySentiments, NamingClassified
    <2>2. DOMAIN a = {"entitySentiments"} /\ a["entitySentiments"].docs = docs
      BY <2>1, GivesIs
    <2>3. Links(q, "entitySentiments", a["entitySentiments"], q.out)
      BY <2>2 DEF Links
    <2> HIDE DEF docs
    <2>4. QED
      BY <1>2, <2>2, <2>3 DEF Answered
  <1>7. CASE s = "topTopic"
    <2>1. a = Gives("topTopic", {}) \/ \E label : a = TopTopic(q, label)
      BY <1>7 DEF Answers, Buckets
    <2>2. /\ DOMAIN a = {"topTopic"}
          /\ a["topTopic"].docs = {} \/ a["topTopic"].docs = WithTopic(Channel(q), a["topTopic"].topic)
      <3>1. CASE a = Gives("topTopic", {})
        BY <3>1, GivesIs
      <3>2. ASSUME NEW label, a = TopTopic(q, label)
            PROVE  DOMAIN a = {"topTopic"} /\ a["topTopic"].docs = WithTopic(Channel(q), a["topTopic"].topic)
        <4>1. /\ DOMAIN a = {"topTopic"} /\ a["topTopic"].docs = WithTopic(Channel(q), label)
              /\ a["topTopic"].topic = label
          BY <3>2 DEF TopTopic, Single, Rows, Nothing
        <4>2. QED
          BY <4>1
      <3>3. QED
        BY <2>1, <3>1, <3>2
    <2>3. Links(q, "topTopic", a["topTopic"], q.out)
      BY <2>2 DEF Links
    <2>4. QED
      BY <1>2, <2>2, <2>3 DEF Answered
  <1>8. CASE s = "topicDocs"
    <2> DEFINE top == q.out["topTopic"]
               docs == IF top.docs = {} THEN {} ELSE WithTopic(Channel(q), top.topic)
    <2>1. a = Gives("topicDocs", docs)
      BY <1>8 DEF Answers, Buckets, TopicDocs
    <2>2. docs = top.docs
      <3>1. top.docs = {} \/ top.docs = WithTopic(Channel(q), top.topic)
        BY <1>8 DEF Links
      <3>2. QED
        BY <3>1
    <2>3. DOMAIN a = {"topicDocs"} /\ a["topicDocs"].docs = docs
      BY <2>1, GivesIs
    <2>4. Links(q, "topicDocs", a["topicDocs"], q.out)
      BY <2>2, <2>3 DEF Links
    <2> HIDE DEF docs
    <2>5. QED
      BY <1>2, <2>3, <2>4 DEF Answered
  <1>9. CASE s = "allTopics"
    <2>1. PICK names \in TopicsFound(q) : a = AllTopics(q, names)
      BY <1>9 DEF Answers, Buckets
    <2>2. /\ DOMAIN a = {"allTopics"} /\ a["allTopics"].names = names
          /\ a["allTopics"].docs = UNION {Mentioning(n, Reported(q)) : n \in names}
      <3> DEFINE docs == UNION {Mentioning(n, Reported(q)) : n \in names}
      <3>1. a = Finds("allTopics", docs, names)
        BY <2>1 DEF AllTopics
      <3>2. DOMAIN a = {"allTopics"} /\ a["allTopics"].names = names /\ a["allTopics"].docs = docs
        <4> HIDE DEF docs
        <4>1. QED
          BY <3>1 DEF Finds, Single, Rows, Nothing
      <3>3. QED
        BY <3>2
    <2>3. Links(q, "allTopics", a["allTopics"], q.out)
      BY <2>1, <2>2 DEF Links
    <2>4. QED
      BY <1>2, <2>2, <2>3 DEF Answered
  <1>10. CASE s = "allTopicSentiments"
    <2>1. PICK names \in TopicsFound(q) : a = AllTopicSentiments(q, names)
      BY <1>10 DEF Answers, Buckets
    <2>2. /\ DOMAIN a = {"allTopicSentiments"}
          /\ a["allTopicSentiments"].docs = UNION {Mentioning(n, Classified(Reported(q))) :
                                                     n \in names \intersect q.out["allTopics"].names}
      <3> DEFINE shown == names \intersect q.out["allTopics"].names
                 docs == UNION {Mentioning(n, Classified(Reported(q))) : n \in shown}
      <3>1. a = Finds("allTopicSentiments", docs, shown)
        BY <2>1 DEF AllTopicSentiments
      <3>2. DOMAIN a = {"allTopicSentiments"} /\ a["allTopicSentiments"].docs = docs
        <4> HIDE DEF docs, shown
        <4>1. QED
          BY <3>1 DEF Finds, Single, Rows, Nothing
      <3>3. QED
        BY <3>2
    <2>3. Links(q, "allTopicSentiments", a["allTopicSentiments"], q.out)
      BY <2>1, <2>2 DEF Links
    <2>4. QED
      BY <1>2, <2>2, <2>3 DEF Answered
  <1>11. CASE s \in {"nodes", "edges", "detail", "own", "ownNodes", "ownEdges", "anyNames"}
    <2>1. DOMAIN a \subseteq {"nodes", "edges", "detail", "own", "anyNames"}
      <3>1. ASSUME NEW r \in {"nodes", "detail", "own", "anyNames"}, NEW docs, NEW names, a = Finds(r, docs, names)
            PROVE  DOMAIN a = {r}
        BY <3>1 DEF Finds, Single
      <3>2. ASSUME NEW docs, NEW pairs, a = EdgeRows(docs, pairs) PROVE DOMAIN a = {"edges"}
        BY <3>2 DEF EdgeRows, Single
      <3>3. \/ \E r \in {"nodes", "detail", "own", "anyNames"} : \E docs, names : a = Finds(r, docs, names)
            \/ \E docs, pairs : a = EdgeRows(docs, pairs)
        <4>1. CASE s \in {"nodes", "edges"}
          BY <4>1 DEF Answers, Buckets, NetworkNodes, NetworkEdges, Nodes
        <4>2. CASE s \in {"detail", "own", "anyNames"}
          BY <4>2 DEF Answers, Buckets, Detail, OwnNames, AnyNames
        <4>3. CASE s = "ownNodes"
          BY <4>3 DEF Answers, Buckets, OwnNodes, Nodes
        <4>4. CASE s = "ownEdges"
          BY <4>4 DEF Answers, Buckets, OwnEdges
        <4>5. QED
          BY <1>11, <4>1, <4>2, <4>3, <4>4
      <3>4. QED
        BY <3>1, <3>2, <3>3
    <2>2. \A r \in {"nodes", "edges", "detail", "own", "anyNames"} : \A row : Links(q, r, row, q.out)
      BY DEF Links
    <2>3. QED
      BY <1>2, <2>1, <2>2 DEF Answered
  <1>12. QED
    BY <1>3, <1>4, <1>5, <1>6, <1>7, <1>8, <1>9, <1>10, <1>11 DEF LinkedSteps

\* A result that others were computed from is not computed again.
LEMMA NotAgain ==
  ASSUME PageOK(request), request.todo # <<>>, NEW s, s = Head(request.todo), NEW r \in DOMAIN request.out
  PROVE  Results(s) \intersect From(r) = {} /\ From(r) \subseteq DOMAIN request.out
  <1> DEFINE p == Program[request.kind]
  <1>1. PICK n \in 0..Len(p) : Done(request, p, n) /\ n + 1 \in 1..Len(p) /\ s = p[n + 1]
    BY NextStep
  <1>2. Ordered(p, StepsOf[request.kind])
    BY ProgramsOrdered DEF PageOK
  <1> HIDE DEF p
  <1>3. CASE From(r) = {}
    BY <1>3
  <1>4. CASE From(r) # {}
    <2>1. PICK need : /\ From(r) = {need} /\ Results(need) = {need} /\ RestsOn(r, need)
                      /\ r \in {"entitySentiments", "topicDocs", "allTopicSentiments"}
                      /\ need \in {"entities", "topTopic", "allTopics"}
      BY <1>4 DEF From, Results, RestsOn
    <2>2. PICK i \in 1..n : r \in Results(p[i])
      BY <1>1 DEF Done
    <2>3. p[i] = r
      BY <2>1, <2>2, DocumentAssumption DEF Results
    <2>4. PICK j \in 1..(i - 1) : p[j] = need
      <3>1. i \in 1..Len(p)
        BY <1>1, <2>2
      <3>2. \A x \in 1..Len(p) : \A y : RestsOn(p[x], y) => \E j \in 1..(x - 1) : p[j] = y
        BY <1>2 DEF Ordered
      <3>3. RestsOn(p[i], need)
        BY <2>1, <2>3
      <3>4. QED
        BY <3>1, <3>2, <3>3
    <2>5. j \in 1..n /\ j \in 1..Len(p) /\ j # n + 1
      BY <1>1, <2>2, <2>4
    <2>6. need \in DOMAIN request.out
      BY <1>1, <2>1, <2>4, <2>5 DEF Done
    <2>7. s # need
      BY <1>1, <1>2, <2>1, <2>4, <2>5 DEF Ordered
    <2>8. need \notin Results(s)
      BY <2>1, <2>7, DocumentAssumption DEF Results
    <2>9. QED
      BY <2>1, <2>6, <2>8
  <1>5. QED
    BY <1>3, <1>4

LEMMA FromEarlier ==
  ASSUME PageOK(request), request.todo # <<>>, NEW s, s = Head(request.todo), NEW r \in Results(s)
  PROVE  Results(s) \intersect From(r) = {} /\ From(r) \subseteq DOMAIN request.out
  <1>1. CASE From(r) = {}
    BY <1>1
  <1>2. CASE From(r) # {}
    <2>1. PICK need : /\ From(r) = {need} /\ Results(need) = {need} /\ RestsOn(r, need) /\ need # r
                      /\ r \in {"entitySentiments", "topicDocs", "allTopicSentiments"}
      BY <1>2 DEF From, Results, RestsOn
    <2>2. s = r /\ Results(s) = {r}
      BY <2>1, DocumentAssumption DEF Results
    <2>3. need \in DOMAIN request.out
      BY <2>1, <2>2, DoneBefore
    <2>4. QED
      BY <2>1, <2>2, <2>3
  <1>3. QED
    BY <1>1, <1>2

\* Nothing is found on a page of the portal before who asks is known.
LEMMA FoundByKnown ==
  ASSUME PageOK(request), request.kind \notin DOMAIN Dashboard, NEW r \in DOMAIN request.out
  PROVE  Met(request, "auth")
  <1> DEFINE p == Program[request.kind]
  <1>1. PICK n \in 0..Len(p) : Done(request, p, n)
    BY DEF PageOK
  <1>2. Ordered(p, StepsOf[request.kind]) /\ request.kind \in DOMAIN Program
    BY ProgramsOrdered DEF PageOK
  <1> HIDE DEF p
  <1>3. PICK i \in 1..n : r \in Results(p[i])
    BY <1>1 DEF Done
  <1>4. i \in 1..Len(p) /\ p[i] \in StepsOf[request.kind]
    BY <1>1, <1>2, <1>3 DEF Ordered
  <1>5. p[i] \notin StaffSteps \union {"auth"}
    BY <1>2, <1>3, <1>4, KindsOfStep DEF Results
  <1>6. PICK j \in 1..(i - 1) : p[j] = "auth"
    BY <1>2, <1>4, <1>5 DEF Ordered, RestsOn
  <1>7. j \in 1..n
    BY <1>1, <1>3, <1>6
  <1>8. QED
    BY <1>1, <1>6, <1>7 DEF Done

\* A step after which an earlier result is what it would be now.
LEMMA SameFresh ==
  ASSUME SameQuestion, NEW r \in DOMAIN request.out, request'.out[r] = request.out[r],
         \A need \in From(r) : request'.out[need] = request.out[need],
         Counts(request, r, request.out[r].docs), Links(request, r, request.out[r], request.out)
  PROVE  Counts(request, r, request.out[r].docs)' /\ Links(request, r, request.out[r], request.out)'
  <1> DEFINE row == request.out[r]
             docs == row.docs
             out == request.out
  <1>1. PICK x : x = row
    OBVIOUS
  <1>2. PICK more : more = request'.out
    OBVIOUS
  <1>3. Counts(request, r, x.docs)'
    BY <1>1, SameCounts
  <1>4. Links(request, r, x, more)'
    BY <1>1, <1>2, SameLinks
  <1>5. QED
    BY <1>1, <1>2, <1>3, <1>4

LEMMA FreshQuery == ViewInv /\ FreshInv /\ Query => FreshInv'
  <1> SUFFICES ASSUME ViewInv, FreshInv, Query, request'.kind # "", request'.quiet, NEW r \in DOMAIN request'.out
               PROVE  Counts(request, r, request.out[r].docs)' /\ Links(request, r, request.out[r], request.out)'
    BY DEF FreshInv
  <1>0. PICK s : s = Head(request.todo)
    OBVIOUS
  <1>1. request.todo # <<>> /\ s \notin {"auth", "visible"} /\ UNCHANGED dataVars
    BY <1>0 DEF Query
  <1>2. PageOK(request) /\ request.kind # "" /\ DOMAIN request = Fields /\ request.kind \in DOMAIN Program
    BY <1>1, NoKind DEF ViewInv, PageOK
  <1>3. PICK a \in Answers(request) : request' = [request EXCEPT !.out = Over(a, @), !.todo = Tail(@)]
    BY DEF Query
  <1>4. /\ \A f \in Fields \ {"todo", "out"} : request'[f] = request[f]
        /\ request'.out = Over(a, request.out)
    BY <1>2, <1>3 DEF Fields
  <1>5. request'.quiet = request.quiet /\ SameQuestion
    BY <1>1, <1>4 DEF Fields, SameQuestion, dataVars
  <1>6. \A x \in DOMAIN request.out : /\ Counts(request, x, request.out[x].docs)
                                      /\ Links(request, x, request.out[x], request.out)
    BY <1>2, <1>5 DEF FreshInv
  <1>7. s \in StepsOf[request.kind]
    BY <1>0, <1>1, <1>2, NextStep
  <1>8. Answered(request, a)
    <2>1. s = "topicDocs" => Links(request, "topTopic", request.out["topTopic"], request.out)
      <3> SUFFICES ASSUME s = "topicDocs" PROVE "topTopic" \in DOMAIN request.out
        BY <1>6
      <3>1. RestsOn(s, "topTopic") /\ Results("topTopic") = {"topTopic"}
        BY DEF RestsOn, Results
      <3>2. QED
        BY <1>0, <1>1, <1>2, <3>1, DoneBefore
    <2>2. CASE s \in LinkedSteps
      BY <1>0, <1>2, <1>7, <2>1, <2>2, LinkedRight
    <2>3. CASE s \notin LinkedSteps
      BY <1>0, <1>1, <1>2, <1>7, <2>3, PlainRight
    <2>4. QED
      BY <2>2, <2>3
  <1>9. DOMAIN a = Results(s)
    <2>1. CASE request.kind \in DOMAIN Dashboard
      BY <1>0, <1>2, <1>7, <2>1, KindsOfStep, StaffDomain
    <2>2. CASE request.kind \notin DOMAIN Dashboard
      BY <1>0, <1>1, <2>2, AnswersShown DEF AnswerShows
    <2>3. QED
      BY <2>1, <2>2
  <1>10. CASE r \in DOMAIN a
    <2>1. request'.out[r] = a[r]
      BY <1>4, <1>10 DEF Over
    <2>2. Counts(request, r, a[r].docs) /\ Links(request, r, a[r], request.out)
      BY <1>8, <1>10 DEF Answered
    <2>3. PICK row : row = a[r]
      OBVIOUS
    <2>4. PICK more : more = request'.out
      OBVIOUS
    <2>5. \A need \in From(r) : more[need] = request.out[need]
      <3>1. r \in Results(s)
        BY <1>9, <1>10
      <3>2. Results(s) \intersect From(r) = {} /\ From(r) \subseteq DOMAIN request.out
        BY <1>0, <1>1, <1>2, <3>1, FromEarlier
      <3>3. ASSUME NEW need \in From(r) PROVE request'.out[need] = request.out[need]
        <4>1. need \notin DOMAIN a /\ need \in DOMAIN request.out
          BY <1>9, <3>2
        <4>2. QED
          BY <1>4, <4>1 DEF Over
      <3>4. QED
        BY <2>4, <3>3
    <2>6. Counts(request, r, row.docs)' /\ Links(request, r, row, more)'
      BY <1>5, <2>2, <2>3, <2>5, SameCounts, SameLinks
    <2>7. QED
      BY <2>1, <2>3, <2>4, <2>6
  <1>11. CASE r \notin DOMAIN a
    <2>1. r \in DOMAIN request.out /\ request'.out[r] = request.out[r]
      BY <1>4, <1>11 DEF Over
    <2>2. \A need \in From(r) : request'.out[need] = request.out[need]
      <3>1. Results(s) \intersect From(r) = {} /\ From(r) \subseteq DOMAIN request.out
        BY <1>0, <1>1, <1>2, <2>1, NotAgain
      <3>2. QED
        BY <1>4, <1>9, <3>1 DEF Over
    <2>3. QED
      BY <1>5, <1>6, <2>1, <2>2, SameFresh
  <1>12. QED
    BY <1>10, <1>11

LEMMA FreshAuthenticate == ViewInv /\ FreshInv /\ Authenticate => FreshInv'
  <1> SUFFICES ASSUME ViewInv, FreshInv, Authenticate, request'.kind # "", request'.quiet, NEW r \in DOMAIN request'.out
               PROVE  Counts(request, r, request.out[r].docs)' /\ Links(request, r, request.out[r], request.out)'
    BY DEF FreshInv
  <1>1. request.todo # <<>> /\ Head(request.todo) = "auth" /\ UNCHANGED dataVars
    BY DEF Authenticate
  <1>2. PageOK(request) /\ request.kind # "" /\ DOMAIN request = Fields /\ request.kind \in DOMAIN Program
    BY <1>1, NoKind DEF ViewInv, PageOK
  <1>3. /\ \A f \in Fields \ {"reach", "todo", "ever"} : request'[f] = request[f]
        /\ request'.reach = ReachNow(request)
    BY <1>2 DEF Authenticate, ReachNow, Fields
  <1>4. request'.out = request.out /\ request'.quiet = request.quiet
    BY <1>3 DEF Fields
  <1>5. request.kind \notin DOMAIN Dashboard
    <2>1. "auth" \in StepsOf[request.kind]
      BY <1>1, <1>2, NextStep
    <2>2. "auth" \in StaffSteps <=> request.kind \in DOMAIN Dashboard
      BY <1>2, <2>1, KindsOfStep
    <2>3. "auth" \notin StaffSteps
      BY DEF StaffSteps
    <2>4. QED
      BY <2>2, <2>3
  <1>6. request'.reach = request.reach
    BY <1>2, <1>3, <1>4, <1>5, FoundByKnown DEF Met
  <1>7. SameQuestion
    BY <1>1, <1>3, <1>6 DEF SameQuestion, Fields, dataVars
  <1>8. Counts(request, r, request.out[r].docs) /\ Links(request, r, request.out[r], request.out)
    BY <1>2, <1>4 DEF FreshInv
  <1>9. QED
    BY <1>4, <1>7, <1>8, SameFresh

LEMMA FreshStep == ViewInv /\ FreshInv /\ [ViewNext]_viewVars => FreshInv'
  <1> SUFFICES ASSUME ViewInv, FreshInv, [ViewNext]_viewVars PROVE FreshInv'
    OBVIOUS
  <1>1. ASSUME NEW caller \in Callers, NEW kind \in DOMAIN Program, NEW query \in Queries, Ask(caller, kind, query)
        PROVE  FreshInv'
    <2> DEFINE more == [caller |-> caller, kind |-> kind, todo |-> Program[kind], out |-> <<>>,
                        reach |-> {}, quiet |-> TRUE, ever |-> [names |-> {}, reach |-> {}]]
    <2>1. DOMAIN query = {"search", "hits", "entity", "dated", "day", "span", "platform", "bucket", "of", "focus"}
      BY QueryAssumption
    <2>2. "out" \in DOMAIN more /\ more.out = <<>> /\ request' = Over(query, more)
      BY <1>1 DEF Ask
    <2> HIDE DEF more
    <2>3. request'.out = <<>>
      BY <2>1, <2>2 DEF Over
    <2>4. DOMAIN <<>> = {}
      OBVIOUS
    <2>5. DOMAIN request'.out = {}
      BY <2>3, <2>4
    <2>6. QED
      BY <2>5 DEF FreshInv
  <1>2. ASSUME request' = NoRequest PROVE FreshInv'
    BY <1>2, NoKind DEF FreshInv
  <1>3. CASE CheckVisible
    <2>1. CASE ~Visible(request, request.of)
      BY <1>2, <1>3, <2>1 DEF CheckVisible
    <2>2. CASE Visible(request, request.of)
      <3>1. request.todo # <<>> /\ UNCHANGED dataVars /\ request' = [request EXCEPT !.todo = Tail(@)]
        BY <1>3, <2>2 DEF CheckVisible
      <3>2. DOMAIN request = Fields /\ request.kind # ""
        BY <3>1, NoKind DEF ViewInv, PageOK
      <3>3. /\ \A f \in Fields \ {"todo"} : request'[f] = request[f]
            /\ request'.out = request.out /\ request'.quiet = request.quiet
        BY <3>1, <3>2 DEF Fields
      <3>4. SameQuestion
        BY <3>1, <3>3 DEF SameQuestion, Fields, dataVars
      <3>5. ASSUME request'.quiet, NEW r \in DOMAIN request'.out
            PROVE  Counts(request, r, request.out[r].docs)' /\ Links(request, r, request.out[r], request.out)'
        <4>1. Counts(request, r, request.out[r].docs) /\ Links(request, r, request.out[r], request.out)
          BY <3>2, <3>3, <3>5 DEF FreshInv
        <4>2. QED
          BY <3>3, <3>4, <3>5, <4>1, SameFresh
      <3>6. QED
        BY <3>5 DEF FreshInv
    <2>3. QED
      BY <2>1, <2>2
  <1>4. CASE Commit
    <2>1. CASE request.kind = ""
      BY <1>4, <2>1 DEF Commit, FreshInv
    <2>2. CASE request.kind # ""
      <3>1. DOMAIN request = Fields
        BY <2>2 DEF ViewInv, PageOK
      <3>2. request'.quiet = FALSE
        BY <1>4, <2>2, <3>1 DEF Commit, Fields
      <3>3. QED
        BY <3>2 DEF FreshInv
    <2>3. QED
      BY <2>1, <2>2
  <1>5. CASE UNCHANGED viewVars
    <2>1. request' = request /\ doc' = doc /\ tracked' = tracked
      BY <1>5 DEF viewVars, dataVars
    <2>2. SameQuestion
      BY <2>1 DEF SameQuestion
    <2>3. ASSUME request.kind # "", request.quiet, NEW r \in DOMAIN request.out
          PROVE  Counts(request, r, request.out[r].docs)' /\ Links(request, r, request.out[r], request.out)'
      <3>1. Counts(request, r, request.out[r].docs) /\ Links(request, r, request.out[r], request.out)
        BY <2>3 DEF FreshInv
      <3>2. QED
        BY <2>1, <2>2, <2>3, <3>1, SameFresh
    <2>4. QED
      BY <2>1, <2>3 DEF FreshInv
  <1>6. QED
    BY <1>1, <1>2, <1>3, <1>4, <1>5, FreshQuery, FreshAuthenticate DEF ViewNext, Reply

LEMMA FreshAlways == ViewSpec => [](ViewInv /\ FreshInv)
  <1>1. ViewInit => ViewInv /\ FreshInv
    BY ViewInitInv, NoKind DEF ViewInit, FreshInv
  <1>2. ViewInv /\ FreshInv /\ [ViewNext]_viewVars => (ViewInv /\ FreshInv)'
    BY ViewStep, FreshStep
  <1>3. QED
    BY <1>1, <1>2, PTL DEF ViewSpec

(***************************************************************************)
(* The counts of the accordion                                             *)
(***************************************************************************)

\* Every document is in one bucket, and the list of a bucket is the bucket.
LEMMA OneBucket ==
  ASSUME DataInv, NEW d \in Doc
  PROVE  /\ \E b \in Buckets : InBucket(d, b)
         /\ \A b, c \in Buckets : InBucket(d, b) /\ InBucket(d, c) => b = c
         /\ \A b \in Buckets : InList(d, b) <=> InBucket(d, b)
  <1>1. doc[d].sentiment \in {"positive", "negative", "neutral", ""}
    BY DocumentAssumption DEF DataInv, DataTypeOK, Document
  <1>2. \A b \in Buckets : InBucket(d, b) <=>
            \/ NotCompetitor(d) /\ b = "unclassified" /\ doc[d].sentiment = ""
            \/ NotCompetitor(d) /\ b \notin {"unclassified", "competitor"} /\ doc[d].sentiment = b
            \/ ~NotCompetitor(d) /\ b = "competitor"
    BY <1>1 DEF InBucket, Buckets
  <1>3. \A b \in Buckets : InList(d, b) <=>
            \/ NotCompetitor(d) /\ b = "unclassified" /\ doc[d].sentiment = ""
            \/ NotCompetitor(d) /\ b \notin {"unclassified", "competitor"} /\ doc[d].sentiment = b
            \/ ~NotCompetitor(d) /\ b = "competitor"
    BY DEF InList, Buckets, NotCompetitor
  <1>4. \E b \in Buckets : InBucket(d, b)
    <2>1. CASE ~NotCompetitor(d)
      BY <1>2, <2>1 DEF Buckets
    <2>2. CASE NotCompetitor(d) /\ doc[d].sentiment = ""
      BY <1>2, <2>2 DEF Buckets
    <2>3. CASE NotCompetitor(d) /\ doc[d].sentiment # ""
      BY <1>1, <1>2, <2>3 DEF Buckets
    <2>4. QED
      BY <2>1, <2>2, <2>3
  <1>5. \A b, c \in Buckets : InBucket(d, b) /\ InBucket(d, c) => b = c
    BY <1>2 DEF Buckets
  <1>6. QED
    BY <1>2, <1>3, <1>4, <1>5

\* A result tells what kind of request it is of.
LEMMA ResultOfKind ==
  ASSUME PageOK(request), NEW r \in DOMAIN request.out
  PROVE  /\ request.kind \in DOMAIN StepsOf /\ \E s \in StepsOf[request.kind] : r \in Results(s)
         /\ r = "category" => request.kind = "browse"
         /\ r \in {"kpis", "news", "topics", "topicSentiments", "negativePosts", "positivePosts", "previous"} =>
               request.kind # "browse"
  <1> DEFINE p == Program[request.kind]
  <1>1. PICK n \in 0..Len(p) : Done(request, p, n)
    BY DEF PageOK
  <1>2. Ordered(p, StepsOf[request.kind]) /\ request.kind \in DOMAIN Program
    BY ProgramsOrdered DEF PageOK
  <1>3. request.kind \in DOMAIN StepsOf
    BY <1>2 DEF Program, Over, Portal, Dashboard, StepsOf
  <1> HIDE DEF p
  <1>4. PICK i \in 1..n : r \in Results(p[i])
    BY <1>1 DEF Done
  <1>5. p[i] \in StepsOf[request.kind]
    BY <1>1, <1>2, <1>4 DEF Ordered
  <1>6. r = "category" => p[i] = "category"
    BY <1>4, DocumentAssumption DEF Results
  <1>7. r \in {"kpis", "topics", "topicSentiments", "negativePosts", "positivePosts", "previous"} => p[i] = r
    BY <1>4, DocumentAssumption DEF Results
  <1>8. r = "news" => p[i] \in {"split", "news"}
    BY <1>4, DocumentAssumption DEF Results
  <1>9. /\ p[i] = "category" => request.kind = "browse"
        /\ p[i] \in {"kpis", "topics", "topicSentiments", "negativePosts", "positivePosts", "previous", "split",
                    "news"} => request.kind # "browse"
    BY <1>3, <1>5 DEF StepsOf
  <1>10. QED
    BY <1>3, <1>4, <1>5, <1>6, <1>7, <1>8, <1>9

\* What a result rests on is there with it.
LEMMA RestsFound ==
  ASSUME PageOK(request), NEW r \in DOMAIN request.out,
         r \in {"positivePosts", "positiveTop", "topicDocs", "entitySentiments", "allTopicSentiments"},
         NEW need, RestsOn(r, need)
  PROVE  Results(need) \subseteq DOMAIN request.out
  <1> DEFINE p == Program[request.kind]
  <1>1. PICK n \in 0..Len(p) : Done(request, p, n)
    BY DEF PageOK
  <1>2. Ordered(p, StepsOf[request.kind])
    BY ProgramsOrdered DEF PageOK
  <1> HIDE DEF p
  <1>3. PICK i \in 1..n : r \in Results(p[i])
    BY <1>1 DEF Done
  <1>4. p[i] = r /\ i \in 1..Len(p)
    BY <1>1, <1>3, DocumentAssumption DEF Results
  <1>5. PICK j \in 1..(i - 1) : p[j] = need
    BY <1>2, <1>4 DEF Ordered
  <1>6. j \in 1..n
    BY <1>1, <1>3, <1>5
  <1>7. QED
    BY <1>1, <1>5, <1>6 DEF Done

\* "A collapsed section's count always matches what expanding it will show", for any
\* documents and filters, if nothing is committed while the page loads.
THEOREM SectionsAgree == ViewSpec => []CountsAgree
  <1>1. ViewInv /\ FreshInv => CountsAgree
    <2> SUFFICES ASSUME ViewInv, FreshInv, Quiet, Has(Buckets \union {"category", "total", "items"})
                 PROVE  /\ \A b, c \in Buckets : b # c => Docs(b) \intersect Docs(c) = {}
                        /\ UNION {Docs(b) : b \in Buckets} =
                              {d \in Docs("category") : PlatformOf[TargetOf[d]] = request.platform}
                        /\ Docs("total") = Docs(request.bucket) /\ Docs("items") = Docs("total")
      BY DEF CountsAgree
    <2>1. PageOK(request) /\ request.kind # "" /\ DataInv /\ request.bucket \in Buckets
      BY DEF ViewInv, Quiet, PageOK
    <2>2. \A r \in Buckets \union {"category", "total", "items"} : Counts(request, r, Docs(r))
      BY DEF Has, Quiet, FreshInv, Docs
    <2>3. request.kind = "browse"
      BY <2>1, ResultOfKind DEF Has
    <2>4. \A b \in Buckets : Docs(b) = {d \in OfPlatform(request) : InBucket(d, b)}
      BY <2>2, <2>3 DEF Counts, CountsPage
    <2>5. Docs("category") = Listed(request)
      BY <2>2, <2>3 DEF Counts, CountsPage
    <2>6. /\ Docs("total") = {d \in OfPlatform(request) : InList(d, request.bucket)}
          /\ Docs("items") = {d \in OfPlatform(request) : InList(d, request.bucket)}
      BY <2>2, <2>3 DEF Counts, CountsPage
    <2>7. OfPlatform(request) \subseteq Doc
      BY DEF OfPlatform, Listed, InScope, Stored
    <2>8. \A b, c \in Buckets : b # c => Docs(b) \intersect Docs(c) = {}
      BY <2>1, <2>4, <2>7, OneBucket
    <2>9. UNION {Docs(b) : b \in Buckets} = OfPlatform(request)
      <3>1. \A d \in OfPlatform(request) : \E b \in Buckets : InBucket(d, b)
        BY <2>1, <2>7, OneBucket
      <3>2. \A d \in OfPlatform(request) : \E b \in Buckets : d \in Docs(b)
        BY <2>4, <3>1
      <3>3. \A b \in Buckets : Docs(b) \subseteq OfPlatform(request)
        BY <2>4
      <3>4. QED
        BY <3>2, <3>3
    <2>10. OfPlatform(request) = {d \in Docs("category") : PlatformOf[TargetOf[d]] = request.platform}
      BY <2>5 DEF OfPlatform
    <2>11. Docs("total") = Docs(request.bucket)
      BY <2>1, <2>4, <2>6, <2>7, OneBucket
    <2>12. QED
      BY <2>6, <2>8, <2>9, <2>10, <2>11
  <1>2. QED
    BY <1>1, FreshAlways, PTL

(***************************************************************************)
(* The figures of the reports                                              *)
(***************************************************************************)

\* A document with a sentiment is classified, and one that is classified is matched.
LEMMA Sorted ==
  ASSUME DataInv, NEW docs \in SUBSET Doc
  PROVE  /\ Classified(docs) \subseteq Matched(docs)
         /\ \A x \in Sentiment : Of(docs, x) = Of(Classified(docs), x)
         /\ Classified(docs) = UNION {Of(Classified(docs), x) : x \in Sentiment}
  <1>1. \A d \in docs : /\ Processed(doc[d]) /\ doc[d].class \in {"pending", "completed", "failed"}
                        /\ doc[d].sentiment \in Sentiment \union {""}
    BY DEF DataInv, DataTypeOK, Document
  <1>2. \A d \in docs : /\ doc[d].class = "completed" => doc[d].gate = "matched"
                        /\ doc[d].sentiment # "" => doc[d].class = "completed"
    BY <1>1 DEF Processed
  <1>3. Classified(docs) \subseteq Matched(docs)
    BY <1>2 DEF Classified, Matched
  <1>4. "" \notin Sentiment
    BY DocumentAssumption
  <1>5. \A x \in Sentiment : Of(docs, x) = Of(Classified(docs), x)
    BY <1>2, <1>4 DEF Of, Classified
  <1>6. \A d \in Classified(docs) : doc[d].sentiment \in Sentiment
    BY <1>1 DEF Classified
  <1>7. Classified(docs) = UNION {Of(Classified(docs), x) : x \in Sentiment}
    <2>1. \A d \in Classified(docs) : d \in Of(Classified(docs), doc[d].sentiment)
      BY DEF Of
    <2>2. \A x : Of(Classified(docs), x) \subseteq Classified(docs)
      BY DEF Of
    <2>3. QED
      BY <1>6, <2>1, <2>2
  <1>8. QED
    BY <1>3, <1>5, <1>7

LEMMA AllWithin ==
  ASSUME NEW q
  PROVE  /\ InReport(q) \subseteq Doc /\ Reported(q) \subseteq Doc
         /\ \A b : BrandDocs(q, b) \subseteq Doc
  BY DEF InReport, ReportScope, InScope, Stored, Reported, BrandDocs, BrandScope, Mentioning

\* While it is quiet, every result counts what it is to count.
LEMMA QuietCounts ==
  ASSUME ViewInv, FreshInv, Quiet
  PROVE  /\ PageOK(request) /\ DataInv
         /\ \A r \in DOMAIN request.out : /\ Counts(request, r, Docs(r))
                                          /\ Links(request, r, request.out[r], request.out)
  BY DEF ViewInv, FreshInv, Quiet, Docs

\* The rows of the topics, the names and the sentiments of a report.
LEMMA ReportRows ==
  ASSUME ViewInv, FreshInv, Quiet, Has({"topics", "topicSentiments", "negativePosts", "positivePosts"})
  PROVE  /\ Docs("topics") = Docs("kpis")
         /\ Docs("topicSentiments") = UNION {Docs(s) : s \in Sentiment}
         /\ Docs("entitySentiments") \subseteq Docs("entities")
         /\ Docs("negativePosts") = Docs("negative") /\ Docs("positivePosts") = Docs("positive")
  <1>1. PageOK(request) /\ DataInv /\ InReport(request) \in SUBSET Doc
    BY QuietCounts, AllWithin
  <1>2. request.kind # "browse"
    BY <1>1, ResultOfKind DEF Has
  <1>3. {"kpis", "entities", "entitySentiments"} \union Sentiment \subseteq DOMAIN request.out
    <2>1. "positivePosts" \in DOMAIN request.out
      BY DEF Has
    <2>2. \A need \in {"kpis", "sentiments", "entities", "entitySentiments"} :
              Results(need) \subseteq DOMAIN request.out
      BY <1>1, <2>1, RestsFound DEF RestsOn
    <2>3. QED
      BY <2>2 DEF Results
  <1>4. \A r \in {"kpis", "topics", "topicSentiments", "negativePosts", "positivePosts"} \union Sentiment :
            CountsReport(request, r, Docs(r))
    BY <1>2, <1>3, QuietCounts DEF Has, Counts
  <1>5. Docs("topics") = Docs("kpis")
    BY <1>4 DEF CountsReport
  <1>6. \A s \in Sentiment : Docs(s) = Of(Classified(InReport(request)), s)
    BY <1>4 DEF CountsReport
  <1>7. Docs("topicSentiments") = UNION {Docs(s) : s \in Sentiment}
    <2>1. Docs("topicSentiments") = Classified(InReport(request))
      BY <1>4 DEF CountsReport
    <2>2. Classified(InReport(request)) = UNION {Of(Classified(InReport(request)), x) : x \in Sentiment}
      BY <1>1, Sorted
    <2>3. QED
      BY <1>6, <2>1, <2>2
  <1>8. Docs("negativePosts") = Docs("negative") /\ Docs("positivePosts") = Docs("positive")
    <2>1. \A x \in Sentiment : Of(InReport(request), x) = Of(Classified(InReport(request)), x)
      BY <1>1, Sorted
    <2>2. /\ Docs("negativePosts") = Of(InReport(request), "negative")
          /\ Docs("positivePosts") = Of(InReport(request), "positive")
      BY <1>4 DEF CountsReport, Posts
    <2>3. QED
      BY <1>6, <2>1, <2>2, DocumentAssumption
  <1>9. Docs("entitySentiments") \subseteq Docs("entities")
    <2> DEFINE names == request.out["entities"].names
    <2>1. /\ names \subseteq tracked /\ Docs("entities") = UNION {Mentioning(n, Naming(request)) : n \in names}
          /\ Docs("entitySentiments") = UNION {Mentioning(n, NamingClassified(request)) : n \in names}
      BY <1>3, QuietCounts DEF Links, Docs
    <2> HIDE DEF names
    <2>2. ASSUME NEW n \in names PROVE Mentioning(n, NamingClassified(request)) \subseteq Mentioning(n, Naming(request))
      BY <2>1, <2>2 DEF Mentioning, NamingClassified, Naming, Classified, Names
    <2>3. QED
      BY <2>1, <2>2
  <1>10. QED
    BY <1>5, <1>7, <1>8, <1>9

\* No publication between the window of a report and the one before.
LEMMA WindowsMeet ==
  ASSUME ViewInv, FreshInv, Quiet, Has({"kpis", "previous"}), request.entity = {}
  PROVE  {d \in Matched(InScope(request)) : doc[d].focus = request.focus /\ d \in Between(
             [from |-> Before(request).from, to |-> ThisWindow(request).to])}
         \subseteq Docs("kpis") \union Docs("previous")
  <1> SUFFICES ASSUME NEW d \in Matched(InScope(request)), doc[d].focus = request.focus,
                      d \in Between([from |-> Before(request).from, to |-> ThisWindow(request).to])
               PROVE  d \in Docs("kpis") \union Docs("previous")
    OBVIOUS
  <1> DEFINE middle == (request.day - request.span) * DayLength
  <1>1. request.kind # "browse" /\ request.day \in Int /\ request.span \in Nat
    BY QuietCounts, ResultOfKind DEF Has, PageOK
  <1>2. Docs("kpis") = Matched(InReport(request))
    BY <1>1, QuietCounts DEF Has, Counts, CountsReport
  <1>3. Docs("previous") = Matched(ReportScope(request, Before(request), request.focus))
    BY <1>1, QuietCounts DEF Has, Counts, CountsReport
  <1>4. Before(request).to = middle /\ ThisWindow(request).from = middle
    BY DEF Before, ThisWindow, Window
  <1>5. /\ d \in Doc /\ Before(request).from <= Published[d] /\ Published[d] <= ThisWindow(request).to
        /\ d \in InScope(request) /\ doc[d].gate = "matched"
    BY DEF Between, Matched
  <1>6. middle \in Int /\ Published[d] \in Int
    BY <1>1, <1>5, DocumentAssumption
  <1> HIDE DEF middle
  <1>7. CASE Published[d] <= middle
    BY <1>3, <1>4, <1>5, <1>7 DEF Matched, ReportScope, Between
  <1>8. CASE middle <= Published[d]
    BY <1>2, <1>4, <1>5, <1>8 DEF Matched, InReport, ReportScope, Between
  <1>9. QED
    BY <1>6, <1>7, <1>8

\* The report of the dashboard.
LEMMA StaffRows ==
  ASSUME ViewInv, FreshInv, Quiet, Has({"allKpis", "negativeTop", "positiveTop"})
  PROVE  /\ Docs("allSentiments") \union Docs("allTopics") \subseteq Docs("allKpis")
         /\ Docs("negativeTop") = Docs("negativeCount") /\ Docs("positiveTop") = Docs("positiveCount")
         /\ Docs("allTopicSentiments") \subseteq Docs("allSentiments") \intersect Docs("allTopics")
         /\ Cardinality(AllNames(request)) <= MaxTopics =>
                Docs("allTopicSentiments") = Docs("allSentiments") \intersect Docs("allTopics")
  <1> DEFINE rows == Reported(request)
  <1>1. PageOK(request) /\ DataInv /\ rows \in SUBSET Doc
    BY QuietCounts, AllWithin
  <1>2. {"allSentiments", "allTopics", "allTopicSentiments", "negativeCount", "positiveCount"}
        \subseteq DOMAIN request.out
    <2>1. "positiveTop" \in DOMAIN request.out
      BY DEF Has
    <2>2. \A need \in {"allSentiments", "allTopics", "allTopicSentiments", "negativeCount", "positiveCount"} :
              Results(need) \subseteq DOMAIN request.out
      BY <1>1, <2>1, RestsFound DEF RestsOn
    <2>3. QED
      BY <2>2 DEF Results
  <1>3. /\ Docs("allKpis") = rows /\ Docs("allSentiments") = Classified(rows)
        /\ Docs("negativeCount") = Of(Classified(rows), "negative")
        /\ Docs("positiveCount") = Of(Classified(rows), "positive")
        /\ Docs("negativeTop") = Of(rows, "negative") /\ Docs("positiveTop") = Of(rows, "positive")
    BY <1>2, QuietCounts DEF Has, Counts, CountsStaff
  <1>4. PICK topics : /\ topics \in TopicsFound(request) /\ topics = request.out["allTopics"].names
                      /\ Docs("allTopics") = UNION {Mentioning(n, rows) : n \in topics}
    BY <1>2, QuietCounts DEF Links, Docs
  <1>5. PICK again \in TopicsFound(request) :
            Docs("allTopicSentiments") = UNION {Mentioning(n, Classified(rows)) : n \in again \intersect topics}
    BY <1>2, <1>4, QuietCounts DEF Links, Docs
  <1>6. Docs("negativeTop") = Docs("negativeCount") /\ Docs("positiveTop") = Docs("positiveCount")
    BY <1>1, <1>3, Sorted, DocumentAssumption
  <1>7. Classified(rows) \subseteq rows /\ \A n : Mentioning(n, rows) \subseteq rows
    BY Fewer
  <1>8. \A n : Mentioning(n, Classified(rows)) = Mentioning(n, rows) \intersect Classified(rows)
    BY DEF Mentioning, Classified
  <1>9. Docs("allSentiments") \union Docs("allTopics") \subseteq Docs("allKpis")
    BY <1>3, <1>4, <1>7
  <1>10. Docs("allTopicSentiments") \subseteq Docs("allSentiments") \intersect Docs("allTopics")
    <2> HIDE DEF rows
    <2>1. QED
      BY <1>3, <1>4, <1>5, <1>8
  <1>11. ASSUME Cardinality(AllNames(request)) <= MaxTopics
         PROVE  Docs("allTopicSentiments") = Docs("allSentiments") \intersect Docs("allTopics")
    <2>1. again = AllNames(request) /\ topics = AllNames(request)
      BY <1>4, <1>5, <1>11 DEF TopicsFound, Busiest
    <2> HIDE DEF rows
    <2>2. QED
      BY <1>3, <1>4, <1>5, <1>8, <2>1
  <1>12. QED
    BY <1>6, <1>9, <1>10, <1>11

\* The numbers of a report fit together, for any documents and any request, if
\* nothing is committed while they are counted.
THEOREM ReportsAddUp == ViewSpec => []ReportAddsUp
  <1>1. ViewInv /\ FreshInv => ReportAddsUp
    <2> SUFFICES ASSUME ViewInv, FreshInv, Quiet PROVE ReportAddsUp
      BY DEF ReportAddsUp
    <2>1. PageOK(request) /\ DataInv /\ InReport(request) \in SUBSET Doc
      BY QuietCounts, AllWithin
    <2>2. ASSUME Has({"kpis"} \union Sentiment), NEW s \in Sentiment PROVE Docs(s) \subseteq Docs("kpis")
      <3>1. request.kind # "browse"
        BY <2>1, <2>2, ResultOfKind DEF Has
      <3>2. Docs("kpis") = Matched(InReport(request)) /\ Docs(s) = Of(Classified(InReport(request)), s)
        BY <2>2, <3>1, QuietCounts DEF Has, Counts, CountsReport
      <3>3. QED
        BY <2>1, <3>2, Sorted, Fewer
    <2>3. ASSUME Has({"news", "social", "negative"}), request.entity = {}
          PROVE  Docs("news") \union Docs("social") = Docs("negative")
      <3>1. request.kind # "browse"
        BY <2>1, <2>3, ResultOfKind DEF Has
      <3>2. /\ Docs("news") = News(Negative(request)) /\ Docs("social") = Negative(request) \ News(Negative(request))
            /\ Docs("negative") = Of(Classified(InReport(request)), "negative")
        BY <2>3, <3>1, QuietCounts, DocumentAssumption DEF Has, Counts, CountsReport
      <3>3. InReport(request) = ReportScope(request, ThisWindow(request), request.focus)
        BY <2>3 DEF InReport
      <3>4. Docs("negative") = Negative(request)
        BY <3>2, <3>3 DEF Negative
      <3>5. QED
        BY <3>2, <3>4, Fewer
    <2>4. ASSUME Has({"topTopic", "topicDocs"}) PROVE Docs("topicDocs") = Docs("topTopic")
      BY <2>4, QuietCounts DEF Has, Links, Docs
    <2>5. ASSUME Has({"brandCounts", "brandChannels", "positiveBrands", "negativeBrands"})
          PROVE  Docs("positiveBrands") \union Docs("negativeBrands") \subseteq
                    Docs("brandCounts") \intersect Docs("brandChannels")
      <3>1. \A r \in {"brandCounts", "brandChannels", "positiveBrands", "negativeBrands"} :
               CountsBrands(request, r, Docs(r))
        BY <2>5, QuietCounts DEF Has, Counts
      <3>2. \A b, x : Of(Classified(BrandDocs(request, b)), x) \subseteq Classified(BrandDocs(request, b))
        BY Fewer
      <3>3. \A b : Classified(BrandDocs(request, b)) \subseteq BrandDocs(request, b)
        BY Fewer
      <3>4. QED
        BY <3>1, <3>2, <3>3 DEF CountsBrands
    <2>6. ASSUME Has({"allRows", "allTotal"}) PROVE Docs("allRows") = Docs("allTotal")
      BY <2>6, QuietCounts DEF Has, Counts, CountsStaff
    <2>7. QED
      BY <2>2, <2>3, <2>4, <2>5, <2>6, ReportRows, WindowsMeet, StaffRows DEF ReportAddsUp
  <1>2. QED
    BY <1>1, FreshAlways, PTL

(***************************************************************************)
(* The portal as a whole                                                   *)
(***************************************************************************)

LEMMA PortalParts ==
  ASSUME [PortalNext]_portalVars
  PROVE  [OrgNext]_orgVars /\ [ViewNext]_viewVars /\ [EventNext]_eventVars /\ [MailNext]_mailVars
  BY DEF PortalNext, portalVars

\* What MCPortal puts side by side are the parts as they are: a behaviour of it is one of
\* every part, and what is proved of a part holds there.
THEOREM PortalIsItsParts == PortalSpec => OrgSpec /\ ViewSpec /\ EventSpec /\ MailSpec
  <1>1. PortalInit => OrgInit /\ ViewInit /\ EventInit /\ MailInit
    BY DEF PortalInit
  <1>2. QED
    BY <1>1, PortalParts, PTL DEF PortalSpec, OrgSpec, ViewSpec, EventSpec, MailSpec

\* Sources and grants, documents, events and the mails of a report keep their types,
\* whatever the part does that moves.
THEOREM EveryPartTypeCorrect == PortalSpec => []PortalTypeOK
  <1>1. /\ PortalSpec => []OrgTypeOK
        /\ PortalSpec => []DataTypeOK
        /\ PortalSpec => []EventTypeOK
        /\ PortalSpec => []MailTypeOK
    BY PortalIsItsParts, PortalTypeCorrect, DataTypeCorrect, EventTypeCorrect, MailTypeCorrect
  <1>2. OrgTypeOK /\ DataTypeOK /\ EventTypeOK /\ MailTypeOK => PortalTypeOK
    BY DEF PortalTypeOK
  <1>3. QED
    BY <1>1, <1>2, PTL
=============================================================================
