--------------------------------- MODULE ReportEmail ---------------------------------
(***************************************************************************)
(* The report that is mailed: pipeline/report_email.py, which the DAG      *)
(* report_email runs at 08:00, notifications/email.py, and the settings    *)
(* and the "send now" of the portal (routers/org.py).                      *)
(***************************************************************************)
EXTENDS Naturals, FiniteSets

CONSTANTS
    Subscriber,  \* organizations
    Address, AlwaysCc,
    MaxSettings, \* bound: changes of settings
    MaxJobs,     \* bound: runs of the job
    MaxDays

ASSUME CopyAssumption == AlwaysCc \subseteq Address
ASSUME MailBounds == {MaxSettings, MaxJobs} \subseteq Nat /\ MaxDays \in Nat \ {0}

VARIABLES
    setting,  \* organization_report_email, by organization
    job,      \* the run of the job: [step, rows, day, sent, failed]
    mails,    \* mails that left: [about, to, window, run, nth], the nth of a run of the job
    today,
    settings, jobs

mailVars == <<setting, job, mails, today, settings, jobs>>

NoSetting == [to |-> "", cc |-> {}, enabled |-> FALSE]
Settings == [to : Address \union {""}, cc : SUBSET Address, enabled : BOOLEAN]
NoJob == [step |-> "idle", rows |-> {}, day |-> 0, sent |-> {}, failed |-> {}]

MailTypeOK ==
    /\ setting \in [Subscriber -> Settings]
    /\ job.step \in {"idle", "running", "done"} /\ job.sent \union job.failed \subseteq Subscriber
    /\ today \in 1..MaxDays /\ settings \in 0..MaxSettings /\ jobs \in 0..MaxJobs

MailInit ==
    /\ setting = [o \in Subscriber |-> NoSetting]
    /\ job = NoJob /\ mails = {}
    /\ today = 1 /\ settings = 0 /\ jobs = 0

\* update_report_email_setting: no daily mail without an address.
Configure(o, row) ==
    /\ settings < MaxSettings /\ settings' = settings + 1
    /\ row.enabled => row.to # ""
    /\ setting' = [setting EXCEPT ![o] = row]
    /\ UNCHANGED <<job, mails, today, jobs>>

\* The recipients of a mail: every address once.
Recipients(row) == {row.to} \union ((row.cc \union AlwaysCc) \ {row.to})

OfRun(n) == {m \in mails : m.run = n}

Mail(o, row, window) ==
    mails' = mails \union {[about |-> o, to |-> Recipients(row), window |-> window, run |-> jobs,
                            nth |-> Cardinality(OfRun(jobs)) + 1]}

\* send_daily_reports reads all settings before it sends.
StartJob ==
    /\ job.step # "running" /\ jobs < MaxJobs
    /\ job' = [step |-> "running", day |-> today, sent |-> {}, failed |-> {},
               rows |-> {[about |-> o, row |-> setting[o]] :
                            o \in {s \in Subscriber : setting[s].enabled /\ setting[s].to # ""}}]
    /\ jobs' = jobs + 1
    /\ UNCHANGED <<setting, mails, today, settings>>

Tried == job.sent \union job.failed
Waiting == {item \in job.rows : item.about \notin Tried}

SendReport(item) ==
    /\ job.step = "running" /\ item \in Waiting
    /\ Mail(item.about, item.row, job.day)
    /\ job' = [job EXCEPT !.sent = @ \union {item.about}]
    /\ UNCHANGED <<setting, today, settings, jobs>>

\* (mutant) What one organization's report raises ends the loop.
FailStops(item, left) ==
    /\ job.step = "running" /\ item \in Waiting
    /\ job' = [job EXCEPT !.failed = @ \union {item.about}, !.step = "done"]
    /\ IF left THEN Mail(item.about, item.row, job.day) ELSE UNCHANGED mails
    /\ UNCHANGED <<setting, today, settings, jobs>>

\* The report cannot be built, or the mail server refuses, or it takes the mail and
\* the connection breaks: counted, logged, and the next organization's turn.
FailReport(item, left) ==
    /\ job.step = "running" /\ item \in Waiting
    /\ job' = [job EXCEPT !.failed = @ \union {item.about}]
    /\ IF left THEN Mail(item.about, item.row, job.day) ELSE UNCHANGED mails
    /\ UNCHANGED <<setting, today, settings, jobs>>

EndJob ==
    /\ job.step = "running" /\ Waiting = {}
    /\ job' = [job EXCEPT !.step = "done"]
    /\ UNCHANGED <<setting, mails, today, settings, jobs>>

\* The worker dies; a run by hand starts from the beginning.
JobDies ==
    /\ job.step = "running"
    /\ job' = NoJob
    /\ UNCHANGED <<setting, mails, today, settings, jobs>>

\* send_report_email_now does not look at "enabled"; 400 without an address.  These mails
\* are not counted.
SendNow(o) ==
    /\ setting[o].to # ""
    /\ mails' = mails \union {[about |-> o, to |-> Recipients(setting[o]), window |-> 0, run |-> 0, nth |-> 0]}
    /\ UNCHANGED <<setting, job, today, settings, jobs>>

NextDay ==
    /\ today < MaxDays /\ today' = today + 1
    /\ UNCHANGED <<setting, job, mails, settings, jobs>>

MailNext ==
    \/ \E o \in Subscriber : SendNow(o) \/ \E row \in Settings : Configure(o, row)
    \/ \E item \in job.rows : SendReport(item) \/ \E left \in BOOLEAN : FailReport(item, left)
    \/ StartJob \/ EndJob \/ JobDies \/ NextDay

MailSpec == MailInit /\ [][MailNext]_mailVars

-----------------------------------------------------------------------------
\* "One org failing must not stop the rest": a run that comes to its end has tried every
\* organization that wanted the mail when it started, sent each at most one, about
\* itself and for the day the run started on, to its address and to nobody it did
\* not name.
JobServesAll == job.step = "done" =>
    LET sent == OfRun(jobs)
    IN  /\ {item.about : item \in job.rows} = Tried
        /\ job.sent \subseteq {m.about : m \in sent}
        /\ \A m \in sent : \E item \in job.rows :
              item.about = m.about /\ m.window = job.day /\ m.to \ AlwaysCc \subseteq {item.row.to} \union item.row.cc
        /\ \A m, n \in sent : m.about = n.about => m = n
=============================================================================
