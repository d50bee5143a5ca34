---------------------------------- MODULE MCPortal ----------------------------------
(***************************************************************************)
(* Instances of OrgPortal, PortalViews, EventReport and ReportEmail for    *)
(* TLC: what the customer portal writes, what it shows, and its reports.   *)
(*                                                                         *)
(* The four share no variable, so a behaviour moves in one of them, the    *)
(* part it starts with.                                                    *)
(***************************************************************************)
EXTENDS OrgPortal, PortalViews, EventReport, ReportEmail, TLC

CONSTANTS Parts, m1, m2, u1, s1, s2, s3, d1, d2, d3, t1, t2, t3, n1, n2, n3, topic, a1, a2, k1, k2

VARIABLE part

-----------------------------------------------------------------------------
(* Sources: two organizations, or one and the spellings of one page *)

Spelled(page, scheme, slashes) == [page |-> page, scheme |-> scheme, slashes |-> slashes, padded |-> FALSE]
Row(org, url, user) == [org |-> org, url |-> url, by |-> user]

MCOrgOf == m1 :> "o1" @@ m2 :> "o2" @@ u1 :> "o1"
PageP == Spelled("p", "", 0)
PageQ == Spelled("q", "https://", 1)
TwoPages == {PageP, PageQ}
TwoFiles == {<<PageP>>, <<PageQ>>, <<PageP, PageQ>>}
RowOfEach == s1 :> Row("o1", PageP, m1) @@ s2 :> Row("o2", PageQ, m2)

OnePage == {Spelled("p", scheme, n) : scheme \in {"", "https://", "HTTPS://"}, n \in 0..1}
OneRowFiles == {<<url>> : url \in OnePage}
NoRows == <<>>

-----------------------------------------------------------------------------
(* Documents: one with everything, one on its way, one of another organization *)

MCTargetOf == d1 :> t1 @@ d2 :> t2 @@ d3 :> t3
MCPlatformOf == t1 :> "news" @@ t2 :> "facebook" @@ t3 :> "news"
MCPublished == d1 :> 8 @@ d2 :> 9 @@ d3 :> 9  \* at 08:00 of a day, and later that day

Full == [gate |-> "matched", focus |-> "own", class |-> "completed", sentiment |-> "negative", tag |-> NoTopic,
         names |-> {n1, n2}]
MCSeeds == {d1 :> Full @@ d2 :> [Absent EXCEPT !.gate = "pending", !.names = {n1, n2}] @@ d3 :> Full,
            d1 :> [Full EXCEPT !.class = "pending", !.sentiment = "", !.names = {n1, n2, n3}]
               @@ d2 :> [Full EXCEPT !.focus = "competitor", !.sentiment = "positive", !.tag = topic]
               @@ d3 :> Absent,
            [d \in Doc |-> Absent]}

Params(searched, entity, platform, bucket, of) ==
    [search |-> searched, hits |-> {d1}, entity |-> entity, dated |-> searched, day |-> 2, span |-> 1,
     platform |-> platform, bucket |-> bucket, of |-> of, focus |-> "own"]
MCQueries == {Params(FALSE, {}, "news", "negative", d1), Params(FALSE, {n1}, "facebook", "competitor", d2),
              Params(TRUE, {n2}, "news", "unclassified", d3)}

-----------------------------------------------------------------------------
(* An event *)

MCBrandOf == k1 :> "own" @@ k2 :> "rival"
MCMentions == a1 :> {k1, k2} @@ a2 :> {k1}
MCSpans == {<<{a1, a2}, {}>>, <<{a2}, {a1}>>}

-----------------------------------------------------------------------------
Symmetry == Permutations(Request) \union Permutations(Report)

portalVars == <<part, orgVars, viewVars, eventVars, mailVars>>

\* A part that rests rests in one initial state.
PortalInit ==
    /\ OrgInit /\ ViewInit /\ EventInit /\ MailInit /\ part \in Parts
    /\ part # "views" => doc = [d \in Doc |-> Absent]

PortalNext ==
    /\ UNCHANGED part
    /\ \/ part = "sources" /\ OrgNext /\ UNCHANGED <<viewVars, eventVars, mailVars>>
       \/ part = "views" /\ ViewNext /\ UNCHANGED <<orgVars, eventVars, mailVars>>
       \/ part = "event" /\ EventNext /\ UNCHANGED <<orgVars, viewVars, mailVars>>
       \/ part = "mail" /\ MailNext /\ UNCHANGED <<orgVars, viewVars, eventVars>>

PortalSpec == PortalInit /\ [][PortalNext]_portalVars

\* Every part keeps its types.
PortalTypeOK == OrgTypeOK /\ DataTypeOK /\ EventTypeOK /\ MailTypeOK
=============================================================================
