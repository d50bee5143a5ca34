------------------------------- MODULE ReportProofs -------------------------------
(***************************************************************************)
(* Theorems about ReportEmail and EventReport, for every set of            *)
(* organizations, articles and brands and any number of reports at once.   *)
(***************************************************************************)
EXTENDS EventReport, ReportEmail, TLAPS

(***************************************************************************)
(* The report that is mailed                                               *)
(***************************************************************************)

\* MailTypeOK with the types of what is in it.
MailType ==
    /\ MailTypeOK
    /\ DOMAIN job = {"step", "rows", "day", "sent", "failed"}
    /\ job.rows \subseteq [about : Subscriber, row : Settings]

Sent == {m \in mails : m.run = jobs}

\* The mails of the run that is under way are about who it has tried, each about
\* another organization; those of runs that died have other numbers, and "send now"
\* has none.
SentInv ==
    /\ Tried \subseteq {item.about : item \in job.rows}
    /\ job.sent \subseteq {m.about : m \in Sent}
    /\ \A m \in Sent : /\ m.about \in Tried /\ m.window = job.day
                       /\ \E item \in job.rows : item.about = m.about /\ m.to = Recipients(item.row)
    /\ \A m, n \in Sent : m.about = n.about => m = n

MailInv ==
    /\ MailType
    /\ \A m \in mails : m.run \in 0..jobs
    /\ job.step # "idle" => jobs > 0 /\ SentInv
    /\ job.step = "done" => Waiting = {}

LEMMA MailInitInv == MailInit => MailInv
  <1> SUFFICES ASSUME MailInit PROVE MailInv
    OBVIOUS
  <1>1. NoSetting \in Settings
    BY DEF NoSetting, Settings
  <1>2. DOMAIN job = {"step", "rows", "day", "sent", "failed"}
    BY DEF MailInit, NoJob
  <1>3. today \in 1..MaxDays /\ settings \in 0..MaxSettings /\ jobs \in 0..MaxJobs
    BY MailBounds DEF MailInit
  <1>4. job.step = "idle" /\ job.rows = {} /\ job.sent = {} /\ job.failed = {}
    BY DEF MailInit, NoJob
  <1>5. setting \in [Subscriber -> Settings]
    BY <1>1 DEF MailInit
  <1>6. mails = {}
    BY DEF MailInit
  <1>7. QED
    BY <1>2, <1>3, <1>4, <1>5, <1>6 DEF MailInv, MailType, MailTypeOK

LEMMA MailCounters ==
  MailInv => /\ jobs \in Nat /\ jobs <= MaxJobs /\ MaxJobs \in Nat
             /\ settings \in Nat /\ settings <= MaxSettings /\ MaxSettings \in Nat
             /\ \A m \in mails : m.run \in Nat /\ m.run <= jobs
  <1>1. MaxJobs \in Nat /\ MaxSettings \in Nat
    BY MailBounds
  <1>2. QED
    BY <1>1 DEF MailInv, MailType, MailTypeOK

\* The run tries one organization more, and a mail about it may leave.
LEMMA TryNext ==
  ASSUME MailInv, job.step = "running", NEW item \in Waiting, NEW sends \in BOOLEAN, NEW failed \in BOOLEAN,
         sends \/ failed,
         job' = IF failed THEN [job EXCEPT !.failed = @ \union {item.about}]
                ELSE [job EXCEPT !.sent = @ \union {item.about}],
         IF sends THEN Mail(item.about, item.row, job.day) ELSE UNCHANGED mails,
         UNCHANGED <<setting, today, settings, jobs>>
  PROVE  MailInv'
  <1> DEFINE mail == [about |-> item.about, to |-> Recipients(item.row), window |-> job.day, run |-> jobs,
                      nth |-> Cardinality(OfRun(jobs)) + 1]
  <1>1. item \in job.rows /\ item.about \in Subscriber /\ item.about \notin Tried
    BY DEF Waiting, MailInv, MailType
  <1>2. /\ job'.step = "running" /\ job'.rows = job.rows /\ job'.day = job.day
        /\ Tried' = Tried \union {item.about}
        /\ job'.sent = IF failed THEN job.sent ELSE job.sent \union {item.about}
        /\ job'.failed = IF failed THEN job.failed \union {item.about} ELSE job.failed
        /\ DOMAIN job' = DOMAIN job
    BY DEF MailInv, MailType, Tried
  <1>3. mails' = mails \/ mails' = mails \union {mail}
    BY DEF Mail
  <1>4. ~failed => mails' = mails \union {mail}
    BY DEF Mail
  <1>5. MailType'
    BY <1>1, <1>2 DEF MailInv, MailType, MailTypeOK
  <1>6. \A m \in mails' : m.run \in 0..jobs'
    BY <1>3 DEF MailInv, MailType, MailTypeOK
  <1>7. jobs > 0 /\ SentInv
    BY DEF MailInv
  <1>8. Sent' = Sent \/ Sent' = Sent \union {mail}
    BY <1>3 DEF Sent
  <1>9. ~failed => mail \in Sent'
    BY <1>4 DEF Sent
  <1>10. SentInv'
    <2>1. Tried' \subseteq {i.about : i \in job'.rows}
      BY <1>1, <1>2, <1>7 DEF SentInv
    <2>2. Sent \subseteq Sent'
      BY <1>8
    <2>3. job'.sent \subseteq {m.about : m \in Sent'}
      BY <1>2, <1>7, <1>9, <2>2 DEF SentInv
    <2>4. ASSUME NEW m \in Sent'
          PROVE  /\ m.about \in Tried' /\ m.window = job'.day
                 /\ \E i \in job'.rows : i.about = m.about /\ m.to = Recipients(i.row)
      BY <1>1, <1>2, <1>7, <1>8 DEF SentInv
    <2>5. ASSUME NEW m \in Sent', NEW n \in Sent', m.about = n.about PROVE m = n
      BY <1>1, <1>7, <1>8, <2>5 DEF SentInv
    <2>6. QED
      BY <2>1, <2>3, <2>4, <2>5 DEF SentInv, Recipients
  <1>11. QED
    BY <1>2, <1>5, <1>6, <1>7, <1>10 DEF MailInv

LEMMA MailStep == MailInv /\ [MailNext]_mailVars => MailInv'
  <1> SUFFICES ASSUME MailInv, [MailNext]_mailVars PROVE MailInv'
    OBVIOUS
  <1>1. ASSUME NEW o \in Subscriber, SendNow(o) PROVE MailInv'
    <2>1. /\ UNCHANGED <<setting, job, today, settings, jobs>>
          /\ \E m : m.run = 0 /\ mails' = mails \union {m}
      BY <1>1 DEF SendNow
    <2>2. job.step # "idle" => Sent' = Sent
      <3>1. job.step # "idle" => jobs # 0
        BY MailCounters DEF MailInv
      <3>2. QED
        BY <2>1, <3>1 DEF Sent
    <2>3. MailType'
      BY <2>1 DEF MailInv, MailType, MailTypeOK
    <2>4. \A m \in mails' : m.run \in 0..jobs'
      BY <2>1, MailCounters
    <2>5. QED
      BY <2>1, <2>2, <2>3, <2>4 DEF MailInv, SentInv, Tried, Waiting, Recipients
  <1>2. ASSUME NEW o \in Subscriber, NEW row \in Settings, Configure(o, row) PROVE MailInv'
    <2>1. settings < MaxSettings /\ settings' = settings + 1
      BY <1>2 DEF Configure
    <2>2. settings' \in 0..MaxSettings
      BY <2>1, MailCounters
    <2>3. setting' \in [Subscriber -> Settings]
      BY <1>2 DEF Configure, MailInv, MailType, MailTypeOK
    <2>4. MailType'
      BY <1>2, <2>2, <2>3 DEF Configure, MailInv, MailType, MailTypeOK
    <2>5. QED
      BY <1>2, <2>4 DEF Configure, MailInv, SentInv, Sent, Tried, Waiting
  <1>3. ASSUME NEW item \in job.rows, SendReport(item) PROVE MailInv'
    BY <1>3, TryNext, TRUE \in BOOLEAN, FALSE \in BOOLEAN DEF SendReport
  <1>4. ASSUME NEW item \in job.rows, NEW left \in BOOLEAN, FailReport(item, left) PROVE MailInv'
    BY <1>4, TryNext, TRUE \in BOOLEAN DEF FailReport
  <1>5. CASE StartJob
    <2>1. jobs < MaxJobs /\ jobs' = jobs + 1
      BY <1>5 DEF StartJob
    <2>2. jobs' \in 0..MaxJobs /\ jobs' > 0 /\ \A m \in mails : m.run \in 0..jobs' /\ m.run # jobs'
      BY <2>1, MailCounters
    <2>3. job'.rows \subseteq [about : Subscriber, row : Settings]
      <3>1. SUFFICES ASSUME NEW item \in job'.rows PROVE item \in [about : Subscriber, row : Settings]
        OBVIOUS
      <3>2. \E o \in Subscriber : item = [about |-> o, row |-> setting[o]]
        BY <1>5 DEF StartJob
      <3>3. setting \in [Subscriber -> Settings]
        BY DEF MailInv, MailType, MailTypeOK
      <3>4. QED
        BY <3>2, <3>3
    <2>4. job'.step = "running" /\ job'.sent = {} /\ job'.failed = {} /\ DOMAIN job' = DOMAIN job
      BY <1>5 DEF StartJob, MailInv, MailType, MailTypeOK
    <2>5. MailType'
      BY <1>5, <2>2, <2>3, <2>4 DEF StartJob, MailInv, MailType, MailTypeOK
    <2>6. Tried' = {} /\ Sent' = {} /\ job'.sent = {} /\ job'.step = "running"
      BY <1>5, <2>2, <2>4 DEF StartJob, Sent, Tried
    <2>7. SentInv'
      BY <2>6 DEF SentInv
    <2>8. QED
      BY <1>5, <2>2, <2>5, <2>6, <2>7 DEF StartJob, MailInv
  <1>6. CASE EndJob
    BY <1>6 DEF EndJob, MailInv, MailType, MailTypeOK, SentInv, Sent, Tried, Waiting
  <1>7. CASE JobDies
    BY <1>7 DEF JobDies, NoJob, MailInv, MailType, MailTypeOK
  <1>8. CASE NextDay
    <2>1. MailType'
      BY <1>8, MailBounds DEF NextDay, MailInv, MailType, MailTypeOK
    <2>2. QED
      BY <1>8, <2>1 DEF NextDay, MailInv, SentInv, Sent, Tried, Waiting
  <1>9. CASE UNCHANGED mailVars
    BY <1>9 DEF mailVars, MailInv, MailType, MailTypeOK, SentInv, Sent, Tried, Waiting
  <1>10. QED
    BY <1>1, <1>2, <1>3, <1>4, <1>5, <1>6, <1>7, <1>8, <1>9 DEF MailNext

LEMMA MailAlways == MailSpec => []MailInv
  BY MailInitInv, MailStep, PTL DEF MailSpec

\* Every reachable state of the settings, the job and its counters is well-typed.
THEOREM MailTypeCorrect == MailSpec => []MailTypeOK
  <1>1. MailInv => MailTypeOK
    BY DEF MailInv, MailType
  <1>2. QED
    BY <1>1, MailAlways, PTL

\* A run of the daily job that comes to its end has tried every organization that
\* wanted the mail when it started, and no mail of it is a second one, about somebody
\* else or to somebody who was not named, for any failures, earlier runs that died
\* and changes of the settings meanwhile.
THEOREM JobServes == MailSpec => []JobServesAll
  <1>1. MailInv => JobServesAll
    <2> SUFFICES ASSUME MailInv, job.step = "done" PROVE JobServesAll
      BY DEF JobServesAll
    <2>1. SentInv /\ Waiting = {}
      BY DEF MailInv
    <2>2. {item.about : item \in job.rows} = Tried
      BY <2>1 DEF SentInv, Waiting
    <2>3. \A m \in Sent : \E item \in job.rows :
              item.about = m.about /\ m.window = job.day /\ m.to \ AlwaysCc \subseteq {item.row.to} \union item.row.cc
      BY <2>1 DEF SentInv, Recipients
    <2>4. QED
      BY <2>1, <2>2, <2>3 DEF JobServesAll, OfRun, SentInv, Sent
  <1>2. QED
    BY <1>1, MailAlways, PTL

(***************************************************************************)
(* The reports on an event                                                 *)
(***************************************************************************)

Steps == {"idle", "window", "scan", "assess", "insert", "compose", "done"}

\* Assessments to some of the matches: what is cached, what a report has inserted and
\* what it shows.
Assessments == UNION {[S -> Verdict] : S \in SUBSET Match}

ReportState == [step : Steps, spans : Seq(SUBSET Article), todo : SUBSET Match,
                match : Match \union {<<>>}, verdict : Verdict \union {""},
                mine : Assessments, shown : Assessments, late : SUBSET Match, tables : SUBSET {BrandOf[t] : t \in Term}]

EventType ==
    /\ EventTypeOK
    /\ cached \in Assessments
    /\ reports \in [Report -> ReportState]
    /\ \A r \in Report : /\ reports[r].step = "window" => reports[r].spans # <<>>
                         /\ reports[r].step \in {"assess", "insert"} => reports[r].match \in Match
                         /\ reports[r].step = "insert" => reports[r].verdict \in Verdict

\* What a report has inserted, and else the kept answer, is what it shows, where it has
\* not come late with an answer of its own.
ShowsKept(report, kept) ==
    \A x \in DOMAIN report.shown \ report.late :
        report.shown[x] = IF x \in DOMAIN report.mine THEN report.mine[x] ELSE kept[x]

\* Nobody has inserted what is kept already, no two transactions what the other one has,
\* and a report shows what is kept or what it has inserted itself.
EventInv ==
    /\ EventType
    /\ \A r \in Report :
          /\ DOMAIN reports[r].mine \intersect DOMAIN cached = {}
          /\ DOMAIN reports[r].shown \subseteq DOMAIN cached \union DOMAIN reports[r].mine
          /\ ShowsKept(reports[r], cached)
          /\ reports[r].step \notin {"scan", "assess", "insert"} => reports[r].mine = <<>>
          /\ \A other \in Report \ {r} : DOMAIN reports[r].mine \intersect DOMAIN reports[other].mine = {}

LEMMA NoAnswers == <<>> \in Assessments /\ DOMAIN <<>> = {}
  <1>1. <<>> \in [{} -> Verdict]
    OBVIOUS
  <1>2. QED
    BY <1>1 DEF Assessments

LEMMA AnswersType ==
  ASSUME NEW f \in Assessments
  PROVE  DOMAIN f \subseteq Match /\ f \in [DOMAIN f -> Verdict]
  BY DEF Assessments

LEMMA OneMoreAnswer ==
  ASSUME NEW f \in Assessments, NEW x \in Match, NEW v \in Verdict
  PROVE  /\ With(f, x, v) \in Assessments /\ DOMAIN With(f, x, v) = DOMAIN f \union {x}
         /\ With(f, x, v)[x] = v /\ \A y \in DOMAIN f \ {x} : With(f, x, v)[y] = f[y]
  <1>1. DOMAIN f \subseteq Match /\ f \in [DOMAIN f -> Verdict]
    BY AnswersType
  <1>2. /\ With(f, x, v) \in [DOMAIN f \union {x} -> Verdict]
        /\ With(f, x, v)[x] = v /\ \A y \in DOMAIN f \ {x} : With(f, x, v)[y] = f[y]
    BY <1>1 DEF With, Over, Single
  <1>3. QED
    BY <1>1, <1>2 DEF Assessments

LEMMA JoinedAnswers ==
  ASSUME NEW f \in Assessments, NEW g \in Assessments
  PROVE  /\ Over(f, g) \in Assessments /\ DOMAIN Over(f, g) = DOMAIN f \union DOMAIN g
         /\ \A x \in DOMAIN f : Over(f, g)[x] = f[x]
         /\ \A x \in DOMAIN g \ DOMAIN f : Over(f, g)[x] = g[x]
  <1>1. DOMAIN f \subseteq Match /\ f \in [DOMAIN f -> Verdict] /\ DOMAIN g \subseteq Match /\ g \in [DOMAIN g -> Verdict]
    BY AnswersType
  <1>2. /\ Over(f, g) \in [DOMAIN f \union DOMAIN g -> Verdict]
        /\ \A x \in DOMAIN f : Over(f, g)[x] = f[x]
        /\ \A x \in DOMAIN g \ DOMAIN f : Over(f, g)[x] = g[x]
    BY <1>1 DEF Over
  <1>3. QED
    BY <1>1, <1>2 DEF Assessments

LEMMA NoReportState == NoReport \in ReportState
  BY NoAnswers DEF NoReport, ReportState, Steps

LEMMA EventInitInv == EventInit => EventInv
  <1> SUFFICES ASSUME EventInit PROVE EventInv
    OBVIOUS
  <1>1. cached \in Assessments /\ DOMAIN cached = {}
    BY NoAnswers DEF EventInit
  <1>2. \A r \in Report : reports[r] = NoReport
    BY DEF EventInit
  <1>3. reports \in [Report -> ReportState]
    BY NoReportState DEF EventInit
  <1>4. /\ NoReport.step = "idle" /\ NoReport.todo = {} /\ NoReport.mine = <<>> /\ NoReport.shown = <<>>
        /\ NoReport.late = {}
    BY DEF NoReport
  <1>5. started \in 0..MaxReports /\ changed \in 0..MaxTerms /\ terms \subseteq Term
    BY EventAssumption DEF EventInit
  <1>6. EventTypeOK
    BY <1>1, <1>2, <1>4, <1>5, NoAnswers DEF EventTypeOK
  <1>7. QED
    BY <1>1, <1>2, <1>3, <1>4, <1>6, NoAnswers DEF EventInv, EventType, ShowsKept

\* What a step of one report has to leave: next is what the report is doing afterwards.
LEMMA ReportStep ==
  ASSUME EventInv, NEW r \in Report, NEW next, Goes(r, next), next \in ReportState,
         next.step = "window" => next.spans # <<>>,
         next.step \in {"assess", "insert"} => next.match \in Match,
         next.step = "insert" => next.verdict \in Verdict,
         DOMAIN next.mine \union next.late \subseteq DOMAIN next.shown, ShowsKept(next, cached'),
         \A x \in DOMAIN cached : cached'[x] = cached[x],
         cached' \in Assessments, DOMAIN cached \subseteq DOMAIN cached',
         DOMAIN next.mine \intersect DOMAIN cached' = {},
         DOMAIN next.shown \subseteq DOMAIN cached' \union DOMAIN next.mine,
         next.step \notin {"scan", "assess", "insert"} => next.mine = <<>>,
         \A other \in Report \ {r} :
             /\ DOMAIN next.mine \intersect DOMAIN reports[other].mine = {}
             /\ DOMAIN reports[other].mine \intersect DOMAIN cached' = {},
         terms' \subseteq Term, started' \in 0..MaxReports, changed' \in 0..MaxTerms
  PROVE  EventInv'
  <1>1. /\ reports' \in [Report -> ReportState] /\ reports'[r] = next
        /\ \A other \in Report \ {r} : reports'[other] = reports[other]
    BY DEF EventInv, EventType, Goes
  <1>2. \A x \in DOMAIN cached' : x \in Match /\ cached'[x] \in Verdict
    BY AnswersType
  <1>3. \A q \in Report : reports'[q].step \in Steps /\ reports'[q].todo \subseteq Match
    BY <1>1 DEF ReportState
  <1>4. \A q \in Report : DOMAIN reports'[q].mine \union reports'[q].late \subseteq DOMAIN reports'[q].shown
    BY <1>1 DEF EventInv, EventType, EventTypeOK
  <1>5. EventTypeOK'
    BY <1>2, <1>3, <1>4 DEF EventTypeOK, Steps
  <1>6. EventType'
    BY <1>1, <1>5 DEF EventInv, EventType
  <1>7. ASSUME NEW q \in Report
        PROVE  /\ DOMAIN reports'[q].mine \intersect DOMAIN cached' = {}
               /\ DOMAIN reports'[q].shown \subseteq DOMAIN cached' \union DOMAIN reports'[q].mine
               /\ ShowsKept(reports'[q], cached')
               /\ reports'[q].step \notin {"scan", "assess", "insert"} => reports'[q].mine = <<>>
               /\ \A other \in Report \ {q} : DOMAIN reports'[q].mine \intersect DOMAIN reports'[other].mine = {}
    <2>1. CASE q = r
      BY <1>1, <2>1
    <2>2. CASE q # r
      BY <1>1, <2>2 DEF EventInv, ShowsKept
    <2>3. QED
      BY <2>1, <2>2
  <1>8. QED
    BY <1>6, <1>7 DEF EventInv

\* What the report of r is, in the state the action finds.
LEMMA ReportNow ==
  ASSUME EventInv, NEW r \in Report
  PROVE  /\ reports[r] \in ReportState /\ reports[r].mine \in Assessments /\ reports[r].shown \in Assessments
         /\ reports[r].todo \subseteq Match /\ reports[r].spans \in Seq(SUBSET Article)
         /\ DOMAIN reports[r].mine \union reports[r].late \subseteq DOMAIN reports[r].shown
         /\ reports[r].late \subseteq Match /\ ShowsKept(reports[r], cached)
         /\ DOMAIN reports[r].mine \intersect DOMAIN cached = {}
         /\ DOMAIN reports[r].shown \subseteq DOMAIN cached \union DOMAIN reports[r].mine
         /\ reports[r].step \notin {"scan", "assess", "insert"} => reports[r].mine = <<>>
         /\ \A other \in Report \ {r} :
                /\ DOMAIN reports[r].mine \intersect DOMAIN reports[other].mine = {}
                /\ DOMAIN reports[other].mine \intersect DOMAIN cached = {}
         /\ cached \in Assessments /\ terms \subseteq Term /\ started \in 0..MaxReports /\ changed \in 0..MaxTerms
         /\ reports[r].step = "window" => reports[r].spans # <<>>
         /\ reports[r].step \in {"assess", "insert"} => reports[r].match \in Match
         /\ reports[r].step = "insert" => reports[r].verdict \in Verdict
  <1>1. reports[r] \in ReportState
    BY DEF EventInv, EventType
  <1>2. QED
    BY <1>1 DEF EventInv, EventType, EventTypeOK, ReportState

\* A request, ended by the database, by a restart or by one of its own.
LEMMA ForgetStep ==
  ASSUME EventInv, NEW r \in Report, Goes(r, NoReport), UNCHANGED <<cached, terms, started, changed>>
  PROVE  EventInv'
  <1>1. /\ NoReport.step = "idle" /\ NoReport.mine = <<>> /\ NoReport.shown = <<>> /\ NoReport.late = {}
    BY DEF NoReport
  <1>2. ShowsKept(NoReport, cached')
    BY <1>1, NoAnswers DEF ShowsKept
  <1>3. QED
    BY <1>1, <1>2, ReportStep, ReportNow, NoReportState, NoAnswers

LEMMA EventStep == EventInv /\ [EventNext]_eventVars => EventInv'
  <1> SUFFICES ASSUME EventInv, [EventNext]_eventVars PROVE EventInv'
    OBVIOUS
  <1>1. ASSUME NEW r \in Report, NEW span \in Spans, AskReport(r, span) PROVE EventInv'
    <2> DEFINE next == [NoReport EXCEPT !.step = "window", !.spans = span]
    <2>1. span \in Seq(SUBSET Article) /\ span # <<>>
      BY EventAssumption
    <2>2. /\ next \in ReportState /\ next.step = "window" /\ next.spans = span
          /\ next.mine = <<>> /\ next.shown = <<>> /\ next.late = {}
      BY <2>1, NoReportState DEF NoReport, ReportState, Steps
    <2>3. Goes(r, next) /\ UNCHANGED <<cached, terms, changed>> /\ started < MaxReports /\ started' = started + 1
      BY <1>1 DEF AskReport
    <2>4. started' \in 0..MaxReports
      BY <2>3, ReportNow, EventAssumption
    <2>5. QED
      <3> HIDE DEF next
      <3>1. QED
        BY <2>1, <2>2, <2>3, <2>4, ReportStep, ReportNow, NoAnswers DEF ShowsKept
  <1>2. ASSUME NEW r \in Report, OpenWindow(r) PROVE EventInv'
    <2> DEFINE todo == {x \in Head(reports[r].spans) \X BrandsOf(terms) : x[2] \in BrandsOf(Mentions[x[1]] \intersect terms)}
               next == [reports[r] EXCEPT !.step = "scan", !.spans = Tail(@), !.todo = todo]
    <2>1. /\ reports[r] \in ReportState /\ reports[r].mine \in Assessments /\ reports[r].shown \in Assessments
          /\ reports[r].todo \subseteq Match /\ cached \in Assessments
      BY ReportNow
    <2>2. reports[r].step = "window" /\ Goes(r, next) /\ UNCHANGED <<cached, terms, started, changed>>
      BY <1>2 DEF OpenWindow
    <2>3. reports[r].spans \in Seq(SUBSET Article) /\ reports[r].spans # <<>> /\ reports[r].mine = <<>>
      BY <2>2, ReportNow
    <2>4. Head(reports[r].spans) \in SUBSET Article /\ Tail(reports[r].spans) \in Seq(SUBSET Article)
      BY <2>3
    <2>5. BrandsOf(terms) \subseteq {BrandOf[t] : t \in Term}
      BY ReportNow DEF BrandsOf
    <2>6. todo \subseteq Match
      BY <2>4, <2>5 DEF Match
    <2>7. /\ next \in ReportState /\ next.step = "scan"
          /\ next.mine = reports[r].mine /\ next.shown = reports[r].shown /\ next.late = reports[r].late
      <3> HIDE DEF todo
      <3>1. QED
        BY <2>1, <2>4, <2>6 DEF ReportState, Steps
    <2>8. QED
      <3> HIDE DEF next
      <3>1. QED
        BY <2>2, <2>7, ReportStep, ReportNow DEF ShowsKept
  <1>3. ASSUME NEW r \in Report, NEW x \in Match, LookUp(r, x) PROVE EventInv'
    <2>1. /\ reports[r] \in ReportState /\ reports[r].mine \in Assessments /\ reports[r].shown \in Assessments
          /\ reports[r].todo \subseteq Match /\ cached \in Assessments
      BY ReportNow
    <2>2. reports[r].step = "scan" /\ UNCHANGED <<cached, terms, started, changed>>
      BY <1>3 DEF LookUp
    <2>3. CASE x \in DOMAIN cached \union DOMAIN reports[r].mine
      <3> DEFINE v == Over(reports[r].mine, cached)[x]
                 shown == With(reports[r].shown, x, v)
                 next == [reports[r] EXCEPT !.todo = @ \ {x}, !.shown = shown]
      <3>1. Goes(r, next)
        BY <1>3, <2>3 DEF LookUp
      <3>2. v \in Verdict /\ v = IF x \in DOMAIN reports[r].mine THEN reports[r].mine[x] ELSE cached[x]
        <4>1. v \in Verdict
          BY <2>1, <2>3, JoinedAnswers, AnswersType
        <4>2. CASE x \in DOMAIN reports[r].mine
          BY <2>1, <4>1, <4>2, JoinedAnswers
        <4>3. CASE x \notin DOMAIN reports[r].mine
          <5>1. x \in DOMAIN cached \ DOMAIN reports[r].mine
            BY <2>3, <4>3
          <5>2. \A y \in DOMAIN cached \ DOMAIN reports[r].mine : Over(reports[r].mine, cached)[y] = cached[y]
            BY <2>1, JoinedAnswers
          <5>3. v = cached[x]
            BY <5>1, <5>2
          <5>4. QED
            BY <4>1, <4>3, <5>3
        <4>4. QED
          BY <4>1, <4>2, <4>3
      <3>3. /\ shown \in Assessments /\ DOMAIN shown = DOMAIN reports[r].shown \union {x}
            /\ shown[x] = v /\ \A y \in DOMAIN reports[r].shown \ {x} : shown[y] = reports[r].shown[y]
        BY <2>1, <3>2, OneMoreAnswer
      <3>4. /\ next \in ReportState /\ next.step = "scan" /\ next.mine = reports[r].mine /\ next.shown = shown
            /\ next.late = reports[r].late
        <4> HIDE DEF shown
        <4>1. QED
          BY <2>1, <2>2, <3>3 DEF ReportState
      <3>5. ShowsKept(next, cached)
        <4> HIDE DEF next, shown, v
        <4>1. QED
          BY <3>2, <3>3, <3>4, ReportNow DEF ShowsKept
      <3>6. QED
        <4> HIDE DEF next, shown
        <4>1. QED
          BY <2>2, <2>3, <3>1, <3>3, <3>4, <3>5, ReportStep, ReportNow
    <2>4. CASE x \notin DOMAIN cached \union DOMAIN reports[r].mine
      <3> DEFINE next == [reports[r] EXCEPT !.step = "assess", !.match = x]
      <3>1. Goes(r, next)
        BY <1>3, <2>4 DEF LookUp
      <3>2. /\ next \in ReportState /\ next.step = "assess" /\ next.match = x
            /\ next.mine = reports[r].mine /\ next.shown = reports[r].shown /\ next.late = reports[r].late
        BY <2>1 DEF ReportState, Steps
      <3>3. QED
        <4> HIDE DEF next
        <4>1. QED
          BY <2>2, <3>1, <3>2, ReportStep, ReportNow DEF ShowsKept
    <2>5. QED
      BY <2>3, <2>4
  <1>4. ASSUME NEW r \in Report, NEW verdict \in Verdict, Assess(r, verdict) PROVE EventInv'
    <2> DEFINE next == [reports[r] EXCEPT !.step = "insert", !.verdict = verdict]
    <2>1. /\ reports[r] \in ReportState /\ reports[r].mine \in Assessments /\ reports[r].shown \in Assessments
          /\ reports[r].todo \subseteq Match /\ cached \in Assessments
      BY ReportNow
    <2>2. reports[r].step = "assess" /\ Goes(r, next) /\ UNCHANGED <<cached, terms, started, changed>>
      BY <1>4 DEF Assess
    <2>3. /\ next \in ReportState /\ next.step = "insert" /\ next.match = reports[r].match /\ next.verdict = verdict
          /\ next.mine = reports[r].mine /\ next.shown = reports[r].shown /\ next.late = reports[r].late
      BY <2>1 DEF ReportState, Steps
    <2>4. QED
      <3> HIDE DEF next
      <3>1. QED
        BY <2>2, <2>3, ReportStep, ReportNow DEF ShowsKept
  <1>5. ASSUME NEW r \in Report, Insert(r) PROVE EventInv'
    <2> DEFINE x == reports[r].match
               v == reports[r].verdict
               mine == With(reports[r].mine, x, v)
               shown == With(reports[r].shown, x, v)
    <2>1. /\ reports[r] \in ReportState /\ reports[r].mine \in Assessments /\ reports[r].shown \in Assessments
          /\ reports[r].todo \subseteq Match /\ reports[r].late \subseteq Match
      BY ReportNow
    <2>2. reports[r].step = "insert" /\ UNCHANGED <<cached, terms, started, changed>>
      BY <1>5 DEF Insert
    <2>3. \A other \in Report \ {r} : x \notin DOMAIN reports[other].mine
      BY <1>5 DEF Insert, WaitsFor
    <2>4. x \in Match /\ v \in Verdict
      BY <2>2, ReportNow
    <2>5. /\ shown \in Assessments /\ DOMAIN shown = DOMAIN reports[r].shown \union {x}
          /\ shown[x] = v /\ \A y \in DOMAIN reports[r].shown \ {x} : shown[y] = reports[r].shown[y]
      <3>1. reports[r].shown \in Assessments
        BY <2>1
      <3>2. QED
        BY <2>4, <3>1, OneMoreAnswer, ZenonT(30)
    <2>6. /\ mine \in Assessments /\ DOMAIN mine = DOMAIN reports[r].mine \union {x}
          /\ mine[x] = v /\ \A y \in DOMAIN reports[r].mine \ {x} : mine[y] = reports[r].mine[y]
      <3>1. reports[r].mine \in Assessments
        BY <2>1
      <3>2. QED
        BY <2>4, <3>1, OneMoreAnswer, ZenonT(30)
    <2>7. /\ Kept(r) \in ReportState /\ Kept(r).step = "scan" /\ Kept(r).mine = reports[r].mine
          /\ Kept(r).shown = shown /\ Kept(r).late = reports[r].late
      BY <2>1, <2>5 DEF ReportState, Steps, Kept
    <2>8. CASE x \in DOMAIN cached
      <3> DEFINE next == [Kept(r) EXCEPT !.late = @ \union {x}]
      <3>1. Goes(r, next)
        BY <1>5, <2>8 DEF Insert
      <3>2. /\ next \in ReportState /\ next.step = "scan" /\ next.mine = reports[r].mine
            /\ next.shown = shown /\ next.late = reports[r].late \union {x}
        BY <2>1, <2>4, <2>7 DEF ReportState
      <3>3. ShowsKept(next, cached)
        <4> HIDE DEF next, shown, v, x
        <4>1. QED
          BY <2>5, <3>2, ReportNow DEF ShowsKept
      <3>4. QED
        <4> HIDE DEF next, shown, mine, v, x
        <4>1. QED
          BY <2>2, <2>5, <2>8, <3>1, <3>2, <3>3, ReportStep, ReportNow
    <2>9. CASE x \notin DOMAIN cached
      <3> DEFINE next == [Kept(r) EXCEPT !.mine = With(@, x, v)]
      <3>1. Goes(r, next)
        BY <1>5, <2>9 DEF Insert
      <3>2. /\ next \in ReportState /\ next.step = "scan" /\ next.mine = mine
            /\ next.shown = shown /\ next.late = reports[r].late
        BY <2>6, <2>7 DEF ReportState
      <3>3. ShowsKept(next, cached)
        <4> HIDE DEF next, shown, mine, v, x
        <4>1. QED
          BY <2>5, <2>6, <3>2, ReportNow DEF ShowsKept
      <3>4. QED
        <4> HIDE DEF next, shown, mine, v, x
        <4>1. QED
          BY <2>2, <2>3, <2>5, <2>6, <2>9, <3>1, <3>2, <3>3, ReportStep, ReportNow
    <2>10. QED
      BY <2>8, <2>9
  <1>6. ASSUME NEW r \in Report, CommitWindow(r) PROVE EventInv'
    <2> DEFINE next == [reports[r] EXCEPT !.step = IF reports[r].spans = <<>> THEN "compose" ELSE "window", !.mine = <<>>]
    <2>1. /\ reports[r] \in ReportState /\ reports[r].mine \in Assessments /\ reports[r].shown \in Assessments
          /\ reports[r].todo \subseteq Match /\ cached \in Assessments
      BY ReportNow
    <2>2. /\ reports[r].step = "scan" /\ Goes(r, next) /\ cached' = Over(reports[r].mine, cached)
          /\ UNCHANGED <<terms, started, changed>>
      BY <1>6 DEF CommitWindow
    <2>3. /\ cached' \in Assessments /\ DOMAIN cached' = DOMAIN reports[r].mine \union DOMAIN cached
          /\ \A x \in DOMAIN cached' :
                cached'[x] = IF x \in DOMAIN reports[r].mine THEN reports[r].mine[x] ELSE cached[x]
      <3>1. /\ cached' \in Assessments /\ DOMAIN cached' = DOMAIN reports[r].mine \union DOMAIN cached
            /\ \A x \in DOMAIN reports[r].mine : cached'[x] = reports[r].mine[x]
            /\ \A x \in DOMAIN cached \ DOMAIN reports[r].mine : cached'[x] = cached[x]
        BY <2>1, <2>2, JoinedAnswers
      <3>2. QED
        BY <3>1
    <2>4. /\ next \in ReportState /\ next.step \in {"compose", "window"} /\ next.mine = <<>>
          /\ next.shown = reports[r].shown /\ next.late = reports[r].late
          /\ next.step = "window" => next.spans # <<>>
      BY <2>1, NoAnswers DEF ReportState, Steps
    <2>5. \A other \in Report \ {r} : DOMAIN reports[other].mine \intersect DOMAIN cached' = {}
      BY <2>3, ReportNow
    <2>6. /\ DOMAIN reports[r].shown \subseteq DOMAIN cached'
          /\ DOMAIN reports[r].mine \union reports[r].late \subseteq DOMAIN reports[r].shown
          /\ \A x \in DOMAIN cached : cached'[x] = cached[x]
      BY <2>3, ReportNow
    <2>7. terms' \subseteq Term /\ started' \in 0..MaxReports /\ changed' \in 0..MaxTerms
      BY <2>2, ReportNow
    <2>8. ShowsKept(next, cached')
      <3> HIDE DEF next
      <3>1. QED
        BY <2>3, <2>4, <2>6, NoAnswers, ReportNow DEF ShowsKept
    <2>9. QED
      <3> HIDE DEF next
      <3>1. QED
        BY <2>2, <2>3, <2>4, <2>5, <2>6, <2>7, <2>8, NoAnswers, ReportStep
  <1>7. ASSUME NEW r \in Report, Compose(r) PROVE EventInv'
    <2> DEFINE next == [reports[r] EXCEPT !.step = "done", !.tables = BrandsOf(terms)]
    <2>1. /\ reports[r] \in ReportState /\ reports[r].mine \in Assessments /\ reports[r].shown \in Assessments
          /\ reports[r].todo \subseteq Match /\ cached \in Assessments
      BY ReportNow
    <2>2. reports[r].step = "compose" /\ Goes(r, next) /\ UNCHANGED <<cached, terms, started, changed>>
      BY <1>7 DEF Compose
    <2>3. BrandsOf(terms) \subseteq {BrandOf[t] : t \in Term}
      BY ReportNow DEF BrandsOf
    <2>4. /\ next \in ReportState /\ next.step = "done"
          /\ next.mine = reports[r].mine /\ next.shown = reports[r].shown /\ next.late = reports[r].late
      BY <2>1, <2>3 DEF ReportState, Steps
    <2>5. QED
      <3> HIDE DEF next
      <3>1. QED
        BY <2>2, <2>4, ReportStep, ReportNow DEF ShowsKept
  <1>8. ASSUME NEW r \in Report, BreakDeadlock(r) \/ LoseReport(r) PROVE EventInv'
    BY <1>8, ForgetStep DEF BreakDeadlock, LoseReport
  <1>9. ASSUME NEW t \in Term, ChangeTerm(t) PROVE EventInv'
    <2>1. changed < MaxTerms /\ changed' = changed + 1 /\ terms' \subseteq terms \union {t}
          /\ UNCHANGED <<cached, reports, started>>
      BY <1>9 DEF ChangeTerm
    <2>2. changed' \in 0..MaxTerms
      BY <2>1, EventAssumption DEF EventInv, EventType, EventTypeOK
    <2>3. terms' \subseteq Term
      BY <2>1 DEF EventInv, EventType, EventTypeOK
    <2>4. EventTypeOK'
      BY <2>1, <2>2, <2>3 DEF EventInv, EventType, EventTypeOK
    <2>5. QED
      BY <2>1, <2>4 DEF EventInv, EventType
  <1>10. CASE UNCHANGED eventVars
    BY <1>10 DEF eventVars, EventInv, EventType, EventTypeOK
  <1>11. QED
    BY <1>1, <1>2, <1>3, <1>4, <1>5, <1>6, <1>7, <1>8, <1>9, <1>10 DEF EventNext

LEMMA EventAlways == EventSpec => []EventInv
  BY EventInitInv, EventStep, PTL DEF EventSpec

\* Every reachable state of the requests, the kept answers and the counters is
\* well-typed.
THEOREM EventTypeCorrect == EventSpec => []EventTypeOK
  <1>1. EventInv => EventTypeOK
    BY DEF EventInv, EventType
  <1>2. QED
    BY <1>1, EventAlways, PTL

\* What a step does to the answers that are kept, and to a report that is composed.
LEMMA AssessmentStep ==
  ASSUME EventInv, [EventNext]_eventVars
  PROVE  /\ \A x \in DOMAIN cached : x \in DOMAIN cached' /\ cached'[x] = cached[x]
         /\ \A r \in Report : reports'[r].step = "compose" =>
               \A x \in DOMAIN reports'[r].shown :
                  /\ x \in DOMAIN cached'
                  /\ x \notin reports'[r].late => reports'[r].shown[x] = cached'[x]
  <1>1. \A x \in DOMAIN cached : x \in DOMAIN cached' /\ cached'[x] = cached[x]
    <2>1. CASE \E r \in Report : CommitWindow(r)
      <3>1. PICK r \in Report : CommitWindow(r)
        BY <2>1
      <3>2. cached' = Over(reports[r].mine, cached)
        BY <3>1 DEF CommitWindow
      <3>3. /\ reports[r].mine \in Assessments /\ cached \in Assessments
            /\ DOMAIN reports[r].mine \intersect DOMAIN cached = {}
        BY ReportNow
      <3>4. \A x \in DOMAIN cached : x \in DOMAIN cached \ DOMAIN reports[r].mine
        BY <3>3
      <3>5. /\ DOMAIN Over(reports[r].mine, cached) = DOMAIN reports[r].mine \union DOMAIN cached
            /\ \A x \in DOMAIN cached \ DOMAIN reports[r].mine : Over(reports[r].mine, cached)[x] = cached[x]
        BY <3>3, JoinedAnswers
      <3>6. QED
        BY <3>2, <3>4, <3>5
    <2>2. CASE UNCHANGED cached
      BY <2>2
    <2>3. QED
      BY <2>1, <2>2 DEF EventNext, eventVars, AskReport, OpenWindow, LookUp, Assess, Insert, Compose,
                        BreakDeadlock, LoseReport, ChangeTerm
  <1>2. ASSUME NEW r \in Report, reports'[r].step = "compose", NEW x \in DOMAIN reports'[r].shown
        PROVE  /\ x \in DOMAIN cached'
               /\ x \notin reports'[r].late => reports'[r].shown[x] = cached'[x]
    <2>1. EventInv'
      BY EventStep
    <2>2. /\ reports'[r].mine = <<>> /\ DOMAIN reports'[r].shown \subseteq DOMAIN cached' \union DOMAIN reports'[r].mine
          /\ ShowsKept(reports'[r], cached')
      BY <2>1, <1>2 DEF EventInv, ShowsKept
    <2>3. QED
      BY <1>2, <2>2, NoAnswers DEF ShowsKept
  <1>3. QED
    BY <1>1, <1>2

\* However many reports overlap, wait for each other, are ended by the database or
\* lost, an assessment that was kept stays as it is, and a report is composed of pairs that
\* have one and shows that one, but where it came late with an answer of its own.
THEOREM AssessmentsStand == EventSpec => AssessmentStands
  <1>1. EventInv /\ [EventNext]_eventVars =>
            [/\ \A x \in DOMAIN cached : x \in DOMAIN cached' /\ cached'[x] = cached[x]
             /\ \A r \in Report : reports'[r].step = "compose" =>
                   \A x \in DOMAIN reports'[r].shown :
                      /\ x \in DOMAIN cached'
                      /\ x \notin reports'[r].late => reports'[r].shown[x] = cached'[x]]_eventVars
    BY AssessmentStep
  <1>2. QED
    BY <1>1, EventAlways, PTL DEF EventSpec, AssessmentStands
=============================================================================
