--------------------------------- MODULE EventReport ---------------------------------
(***************************************************************************)
(* The reports on an event (pipeline/event_report.py and                   *)
(* compute_event_report_data in routers/org.py).  A report goes through    *)
(* two windows; each is one transaction that stays open while a language   *)
(* model is asked about one article and brand after the other.  Answers    *)
(* are kept in event_report_matches for the reports to come.               *)
(*                                                                         *)
(* What a transaction inserts, others see when it commits; an insert of a  *)
(* row that another one has inserted and not committed waits for it.       *)
(***************************************************************************)
EXTENDS Naturals, FiniteSets, Sequences, Maps

CONSTANTS
    Report,      \* requests for reports that may be under way at the same time
    Article,     \* documents on the event
    Term,        \* brand and competitor keywords
    BrandOf,     \* the brand a keyword stands for
    Mentions,    \* the keywords in the text of an article
    Spans,       \* what reports may cover: pairs of windows, as sets of articles
    Verdict,     \* answers of the model; "neutral" when it cannot be reached
    MaxReports,  \* bound: reports
    MaxTerms     \* bound: changes of the keywords

ASSUME EventAssumption ==
    /\ BrandOf \in [Term -> STRING] /\ Mentions \in [Article -> SUBSET Term]
    /\ Spans \subseteq Seq(SUBSET Article) \ {<<>>} /\ "neutral" \in Verdict
    /\ {MaxReports, MaxTerms} \subseteq Nat

Match == Article \X {BrandOf[t] : t \in Term}

VARIABLES
    cached,   \* event_report_matches, committed: an answer for some of Match
    terms,    \* organization_keywords of these categories
    reports,  \* what every request is doing
    started, changed

eventVars == <<cached, terms, reports, started, changed>>

NoReport == [step |-> "idle", spans |-> <<>>, todo |-> {}, match |-> <<>>, verdict |-> "",
             mine |-> <<>>, shown |-> <<>>, late |-> {}, tables |-> {}]

EventTypeOK ==
    /\ DOMAIN cached \subseteq Match /\ \A x \in DOMAIN cached : cached[x] \in Verdict
    /\ terms \subseteq Term
    /\ \A r \in Report : /\ reports[r].step \in {"idle", "window", "scan", "assess", "insert", "compose", "done"}
                         /\ reports[r].todo \subseteq Match
                         /\ DOMAIN reports[r].mine \union reports[r].late \subseteq DOMAIN reports[r].shown
    /\ started \in 0..MaxReports /\ changed \in 0..MaxTerms

EventInit ==
    /\ cached = <<>> /\ terms = Term
    /\ reports = [r \in Report |-> NoReport]
    /\ started = 0 /\ changed = 0

Goes(r, next) == reports' = [reports EXCEPT ![r] = next]

\* The brands of the keywords: get_competitor_brands, with the organization's own.
BrandsOf(words) == {BrandOf[t] : t \in words}

AskReport(r, span) ==
    /\ reports[r].step \in {"idle", "done"} /\ started < MaxReports
    /\ Goes(r, [NoReport EXCEPT !.step = "window", !.spans = span])
    /\ started' = started + 1
    /\ UNCHANGED <<cached, terms, changed>>

\* The first statements of run_event_match: keywords, then documents.
OpenWindow(r) ==
    /\ reports[r].step = "window"
    /\ Goes(r, [reports[r] EXCEPT !.step = "scan", !.spans = Tail(@),
          !.todo = {x \in Head(reports[r].spans) \X BrandsOf(terms) : x[2] \in BrandsOf(Mentions[x[1]] \intersect terms)}])
    /\ UNCHANGED <<cached, terms, started, changed>>

\* The cached answer, or a call.
LookUp(r, x) ==
    LET report == reports[r]
    IN  /\ report.step = "scan" /\ x \in report.todo
        /\ IF x \in DOMAIN cached \union DOMAIN report.mine
             THEN Goes(r, [report EXCEPT !.todo = @ \ {x}, !.shown = With(@, x, Over(report.mine, cached)[x])])
             ELSE Goes(r, [report EXCEPT !.step = "assess", !.match = x])
        /\ UNCHANGED <<cached, terms, started, changed>>

\* _assess_article, a paid call.  One that fails gives an answer like any other.
Assess(r, verdict) ==
    /\ reports[r].step = "assess"
    /\ Goes(r, [reports[r] EXCEPT !.step = "insert", !.verdict = verdict])
    /\ UNCHANGED <<cached, terms, started, changed>>

WaitsFor(r, other) ==
    other # r /\ reports[r].step = "insert" /\ reports[r].match \in DOMAIN reports[other].mine

\* What the report shows of a match, and that it is dealt with.
Kept(r) ==
    LET report == reports[r]
    IN  [report EXCEPT !.step = "scan", !.todo = @ \ {report.match}, !.shown = With(@, report.match, report.verdict)]

\* (mutant) ON CONFLICT DO UPDATE.
InsertOver(r) ==
    /\ reports[r].step = "insert" /\ \A other \in Report : ~WaitsFor(r, other)
    /\ Goes(r, [Kept(r) EXCEPT !.mine = With(@, reports[r].match, reports[r].verdict)])
    /\ UNCHANGED <<cached, terms, started, changed>>

\* ON CONFLICT DO NOTHING, where another report has kept an answer since the look-up; this
\* one shows its own all the same ("late" is a history of that).
Insert(r) ==
    /\ reports[r].step = "insert" /\ \A other \in Report : ~WaitsFor(r, other)
    /\ Goes(r, IF reports[r].match \in DOMAIN cached THEN [Kept(r) EXCEPT !.late = @ \union {reports[r].match}]
               ELSE [Kept(r) EXCEPT !.mine = With(@, reports[r].match, reports[r].verdict)])
    /\ UNCHANGED <<cached, terms, started, changed>>

CommitWindow(r) ==
    /\ reports[r].step = "scan" /\ reports[r].todo = {}
    /\ cached' = Over(reports[r].mine, cached)
    /\ Goes(r, [reports[r] EXCEPT !.step = IF reports[r].spans = <<>> THEN "compose" ELSE "window", !.mine = <<>>])
    /\ UNCHANGED <<terms, started, changed>>

\* The tables are for the brands of the keywords as they are now.
Compose(r) ==
    /\ reports[r].step = "compose"
    /\ Goes(r, [reports[r] EXCEPT !.step = "done", !.tables = BrandsOf(terms)])
    /\ UNCHANGED <<cached, terms, started, changed>>

\* The database ends one of two transactions that wait for each other.
BreakDeadlock(r) ==
    /\ \E other \in Report : WaitsFor(r, other) /\ WaitsFor(other, r)
    /\ Goes(r, NoReport)
    /\ UNCHANGED <<cached, terms, started, changed>>

\* The server is restarted in the middle of it.
LoseReport(r) ==
    /\ reports[r].step \in {"assess", "insert"} /\ reports[r].mine # <<>>
    /\ Goes(r, NoReport)
    /\ UNCHANGED <<cached, terms, started, changed>>

\* select_keyword, deselect_keyword.
ChangeTerm(t) ==
    /\ changed < MaxTerms /\ changed' = changed + 1
    /\ terms' = (terms \ {t}) \union ({t} \ terms)
    /\ UNCHANGED <<cached, reports, started>>

EventNext ==
    \/ \E r \in Report :
          \/ \E span \in Spans : AskReport(r, span)
          \/ OpenWindow(r)
          \/ \E x \in Match : LookUp(r, x)
          \/ \E verdict \in Verdict : Assess(r, verdict)
          \/ Insert(r) \/ CommitWindow(r) \/ Compose(r) \/ BreakDeadlock(r) \/ LoseReport(r)
    \/ \E t \in Term : ChangeTerm(t)

EventSpec == EventInit /\ [][EventNext]_eventVars

-----------------------------------------------------------------------------
\* An assessment that was kept is never replaced, whatever reports overlap, end in a
\* deadlock or die; a report that is composed shows only pairs that have one kept, for all
\* of its windows, and shows what is kept.  The exception: where another report has kept
\* an answer between the look-up and the insert, so that the insert is dropped ("late"),
\* this one shows its own, and the next report of the same window another.
AssessmentStands == [][
    /\ \A x \in DOMAIN cached : x \in DOMAIN cached' /\ cached'[x] = cached[x]
    /\ \A r \in Report : reports'[r].step = "compose" =>
          \A x \in DOMAIN reports'[r].shown :
             /\ x \in DOMAIN cached'
             /\ x \notin reports'[r].late => reports'[r].shown[x] = cached'[x]]_eventVars
=============================================================================
