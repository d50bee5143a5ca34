------------------------------- MODULE ContentPipeline -------------------------------
(***************************************************************************)
(* The gate and the classifier of the content pipeline: run_keyword_filter *)
(* (pipeline/keyword_filter.py), then run_classify (pipeline/classify.py), *)
(* as the content_pipeline DAG runs them, one run at a time.  Crawls edit  *)
(* documents, organizations choose keywords and modes, and an admin turns  *)
(* keywords off and on, at any moment of a run.                            *)
(*                                                                         *)
(* What the classifier does to the documents of one organization is one    *)
(* transaction, and what the model's answers cost is written in it.        *)
(***************************************************************************)
EXTENDS Documents, FiniteSetsExt

CONSTANTS
    Brand, Competitor, Industry, \* keywords of the catalog, by category
    HasImages,   \* documents with images
    HasKey,      \* OPENAI_API_KEY is set
    DefaultMode, \* classify_mode of the row with id 1
    FilterSize,  \* batch_size of run_keyword_filter, 200 in the code
    BatchSize,   \* batch_size of run_classify, 20 in the code
    MaxRequests, \* bound: requests of organizations and admin
    MaxEdits,    \* bound: edits of documents
    MaxCalls     \* bound: calls of the model for one document

Keyword == Brand \union Competitor \union Industry
Modes == {"normal", "llm_text", "llm_image"}
Unset == "unset"

ASSUME CategoryAssumption ==
    Brand \intersect Competitor = {} /\ Industry \intersect (Brand \union Competitor) = {}
ASSUME DataAssumption ==
    HasImages \subseteq Doc /\ HasKey \in BOOLEAN /\ DefaultMode \in Modes
ASSUME SizeAssumption == {FilterSize, BatchSize} \subseteq Nat \ {0}
ASSUME BoundAssumption == {MaxRequests, MaxEdits, MaxCalls} \subseteq Nat

VARIABLES
    content,  \* documents: the keywords that occur in the text
    gate,     \* keyword_status
    hits,     \* matched_keywords
    class,    \* classification_status
    classOf,  \* the mode a document was classified in
    booked,   \* classification_cost_usd, in answers of the model
    chosen,   \* organization_keywords
    active,   \* keywords_catalog.is_active
    setting,  \* pipeline_settings: an organization's classify_mode, or Unset
    run,      \* the DAG run
    answers,  \* history: the answers of the model for a document
    ever,     \* history: the keywords and the modes an organization ever chose
    requests, edits

documents == <<content, gate, hits, class, classOf, booked>>
config == <<chosen, active, setting>>
counts == <<requests, edits>>
contentVars == <<content, gate, hits, class, classOf, booked, chosen, active, setting, run, answers, ever,
          requests, edits>>

NoOutcome == [class |-> "pending", cost |-> 0]
NoRun == [step |-> "idle", matchers |-> [o \in Client |-> {}], orgs |-> {}, org |-> NoOrg,
         mode |-> Unset, todo |-> {}, out |-> [d \in Doc |-> NoOutcome]]

ModeOf(o) == IF o = NoOrg \/ setting[o] = Unset THEN DefaultMode ELSE setting[o]

ContentTypeOK ==
    /\ content \in [Doc -> SUBSET Keyword]
    /\ gate \in [Doc -> {"pending", "matched", "no_match"}]
    /\ hits \in [Doc -> SUBSET Keyword]
    /\ class \in [Doc -> {"pending", "completed", "failed"}]
    /\ classOf \in [Doc -> Modes \union {Unset}]
    /\ booked \in [Doc -> Nat] /\ answers \in [Doc -> Nat]
    /\ chosen \in [Org -> SUBSET Keyword] /\ active \subseteq Keyword
    /\ setting \in [Org -> Modes \union {Unset}]
    /\ run.step \in {"idle", "filter", "filtered", "orgs", "mode", "rows"}
    /\ run.orgs \subseteq Client /\ run.org \in Client /\ run.todo \subseteq Doc
    /\ \A d \in Doc : run.out[d] # NoOutcome => run.step = "rows" /\ OrgOf[d] = run.org
    /\ \A d \in Doc : (class[d] = "completed") <=> (classOf[d] # Unset)

ContentInit ==
    /\ content \in [Doc -> SUBSET Keyword]
    /\ gate = [d \in Doc |-> "pending"] /\ hits = [d \in Doc |-> {}]
    /\ class = [d \in Doc |-> "pending"] /\ classOf = [d \in Doc |-> Unset]
    /\ booked = [d \in Doc |-> 0] /\ answers = [d \in Doc |-> 0]
    /\ chosen \in [Org -> SUBSET Keyword] /\ active = Keyword
    /\ setting = [o \in Org |-> Unset]
    /\ run = NoRun
    /\ ever = [o \in Client |-> [keywords |-> IF o \in Org THEN chosen[o] ELSE {}, modes |-> {ModeOf(o)}]]
    /\ requests = 0 /\ edits = 0

-----------------------------------------------------------------------------
(* Crawls, organizations, admin *)

\* save_post overwrites the content and leaves every status as it is.
EditDoc(d, text) ==
    /\ edits < MaxEdits /\ text # content[d]
    /\ content' = [content EXCEPT ![d] = text]
    /\ edits' = edits + 1
    /\ UNCHANGED <<gate, hits, class, classOf, booked, config, run, answers, ever, requests>>

Request ==
    /\ requests < MaxRequests
    /\ requests' = requests + 1
    /\ UNCHANGED <<documents, run, answers, edits>>

SelectKeyword(o, k) ==
    /\ Request /\ k \notin chosen[o]
    /\ chosen' = [chosen EXCEPT ![o] = @ \union {k}]
    /\ ever' = [ever EXCEPT ![o].keywords = @ \union {k}]
    /\ UNCHANGED <<active, setting>>

DeselectKeyword(o, k) ==
    /\ Request /\ k \in chosen[o]
    /\ chosen' = [chosen EXCEPT ![o] = @ \ {k}]
    /\ UNCHANGED <<active, setting, ever>>

\* update_keyword with is_active; the term and category of a keyword, which it may change
\* too, are constants here.
ToggleKeyword(k) ==
    /\ Request
    /\ active' = (active \ {k}) \union ({k} \ active)
    /\ UNCHANGED <<chosen, setting, ever>>

SetMode(o, mode) ==
    /\ Request /\ setting[o] # mode
    /\ setting' = [setting EXCEPT ![o] = mode]
    /\ ever' = [ever EXCEPT ![o].modes = @ \union {mode}]
    /\ UNCHANGED <<chosen, active>>

-----------------------------------------------------------------------------
(* The gate *)

\* (mutant) Everybody's keywords for everybody.
MatchersShared == [o \in Client |-> UNION {chosen[p] : p \in Org} \intersect active]

\* The organizations' own keywords; without an organization there are none.
Matchers == [o \in Client |-> IF o \in Org THEN chosen[o] \intersect active ELSE {}]

ReadKeywords ==
    /\ run.step = "idle"
    /\ run' = [NoRun EXCEPT !.step = "filter", !.matchers = Matchers]
    /\ UNCHANGED <<documents, config, answers, ever, counts>>

\* At most so many, in no order.
Chunk(size, S) == kSubset(Min({size, Cardinality(S)}), S)

PendingGate == {d \in Doc : gate[d] = "pending"}

Found(d) == content[d] \intersect run.matchers[OrgOf[d]]

\* An industry term alone does not open the gate.
Opens(found) == found \intersect (Brand \union Competitor) # {}

FilterBatch ==
    /\ run.step = "filter"
    /\ \E batch \in Chunk(FilterSize, PendingGate) :
          LET matched == {d \in batch : Opens(Found(d))}
          IN  /\ gate' = [d \in Doc |-> IF d \in matched THEN "matched"
                                        ELSE IF d \in batch THEN "no_match" ELSE gate[d]]
              /\ hits' = [d \in Doc |-> IF d \in matched THEN Found(d) ELSE hits[d]]
    /\ run' = [NoRun EXCEPT !.step = "filtered"]
    /\ UNCHANGED <<content, class, classOf, booked, config, answers, ever, counts>>

-----------------------------------------------------------------------------
(* The classifier *)

\* (mutant) The gate is not asked.
WaitingUngated(o) == {d \in Doc : class[d] = "pending" /\ OrgOf[d] = o}

\* (mutant) What is classified is classified again.
WaitingAgain(o) == {d \in Doc : gate[d] = "matched" /\ OrgOf[d] = o}

Waiting(o) == {d \in Doc : gate[d] = "matched" /\ class[d] = "pending" /\ OrgOf[d] = o}

ReadOrgs ==
    /\ run.step = "filtered"
    /\ run' = [NoRun EXCEPT !.step = "orgs", !.orgs = {o \in Client : Waiting(o) # {}}]
    /\ UNCHANGED <<documents, config, answers, ever, counts>>

\* (mutant) The mode of the last organization stays.
NextModeKept(o) == IF run.mode # Unset THEN run.mode ELSE ModeOf(o)

NextMode(o) == ModeOf(o)

\* An organization whose mode needs a key that is not there is skipped.
ReadMode(o) ==
    /\ run.step = "orgs" /\ o \in run.orgs
    /\ run' = IF NextMode(o) = "normal" \/ HasKey
              THEN [run EXCEPT !.step = "mode", !.org = o, !.orgs = @ \ {o}, !.mode = NextMode(o)]
              ELSE [run EXCEPT !.orgs = @ \ {o}]
    /\ UNCHANGED <<documents, config, answers, ever, counts>>

ReadRows ==
    /\ run.step = "mode"
    /\ \E batch \in Chunk(BatchSize, Waiting(run.org)) :
          run' = [run EXCEPT !.step = "rows", !.todo = batch]
    /\ UNCHANGED <<documents, config, answers, ever, counts>>

\* (mutant) What failed is left for the next run.
OutcomeRetried(d, good, cost) == [class |-> IF good THEN "completed" ELSE "pending", cost |-> cost]

\* A failure, of the call or of reading its answer, is final, and its cost is
\* not written.
Outcome(d, good, cost) ==
    IF good THEN [class |-> "completed", cost |-> cost] ELSE [class |-> "failed", cost |-> 0]

\* The rules of "normal" cost nothing and do not fail.  A call that is refused
\* costs nothing; one whose answer cannot be read does.  llm_image asks once
\* more, before, to have the images described, and goes on without if it must (a description
\* that cannot be read costs too, and the code does not book that).
Classify(d) ==
    /\ run.step = "rows" /\ d \in run.todo
    /\ \E described \in IF run.mode = "llm_image" /\ d \in HasImages THEN {0, 1} ELSE {0},
          answered \in IF run.mode = "normal" THEN {0} ELSE {0, 1}, readable \in BOOLEAN :
          LET good == run.mode = "normal" \/ (answered = 1 /\ readable)
              cost == described + answered
          IN  /\ answers[d] + cost <= MaxCalls
              /\ answers' = [answers EXCEPT ![d] = @ + cost]
              /\ run' = [run EXCEPT !.todo = @ \ {d}, !.out[d] = Outcome(d, good, cost)]
    /\ UNCHANGED <<documents, config, ever, counts>>

\* The updates of an organization's documents are committed together.
CommitClasses ==
    LET done == {d \in Doc : run.out[d] # NoOutcome}
    IN  /\ run.step = "rows" /\ run.todo = {}
        /\ class' = [d \in Doc |-> IF d \in done THEN run.out[d].class ELSE class[d]]
        /\ classOf' = [d \in Doc |->
              IF d \in done /\ run.out[d].class = "completed" THEN run.mode ELSE classOf[d]]
        /\ booked' = [d \in Doc |-> booked[d] + run.out[d].cost]
        /\ run' = [run EXCEPT !.step = "orgs", !.org = NoOrg, !.out = NoRun.out]
        /\ UNCHANGED <<content, gate, hits, config, answers, ever, counts>>

Finish ==
    /\ run.step = "orgs" /\ run.orgs = {}
    /\ run' = NoRun
    /\ UNCHANGED <<documents, config, answers, ever, counts>>

\* The run dies or fails: what it has not committed is gone.
Die ==
    /\ run.step # "idle"
    /\ run' = NoRun
    /\ UNCHANGED <<documents, config, answers, ever, counts>>

Pipeline ==
    \/ ReadKeywords \/ FilterBatch \/ ReadOrgs \/ \E o \in Client : ReadMode(o)
    \/ ReadRows \/ \E d \in Doc : Classify(d)
    \/ CommitClasses \/ Finish

ContentNext ==
    \/ \E d \in Doc : \E text \in SUBSET Keyword : EditDoc(d, text)
    \/ \E o \in Org, k \in Keyword : SelectKeyword(o, k) \/ DeselectKeyword(o, k)
    \/ \E k \in Keyword : ToggleKeyword(k)
    \/ \E o \in Org, mode \in Modes : SetMode(o, mode)
    \/ Pipeline \/ Die

ContentSpec == ContentInit /\ [][ContentNext]_contentVars

\* The crawl DAGs trigger run after run, and no step is the one every run dies in.
ContentFairness ==
    /\ WF_contentVars(Pipeline)
    /\ SF_contentVars(FilterBatch) /\ SF_contentVars(ReadOrgs) /\ \A o \in Client : SF_contentVars(ReadMode(o))
    /\ SF_contentVars(ReadRows) /\ (\A d \in Doc : SF_contentVars(Classify(d))) /\ SF_contentVars(CommitClasses)

-----------------------------------------------------------------------------
\* The gate bounds the spending: no document costs anything, or is classified,
\* that the gate has not let pass.
GateHolds == \A d \in Doc : (answers[d] > 0 \/ class[d] # "pending") => gate[d] = "matched"

\* A document passes for a brand or a competitor its own organization chose;
\* another organization's keywords open no gate of its own.
OwnKeywords ==
    \A d \in Doc :
        /\ hits[d] \subseteq ever[OrgOf[d]].keywords
        /\ gate[d] = "matched" => hits[d] \intersect (Brand \union Competitor) # {}

\* Organizations pay for their own mode: no call of the model for one that never
\* chose a mode that makes calls, and no result in a mode of somebody else.
OwnMode ==
    \A d \in Doc :
        /\ answers[d] > 0 => ever[OrgOf[d]].modes # {"normal"}
        /\ classOf[d] \in ever[OrgOf[d]].modes \union {Unset}

\* Once a document has its class, or has failed, nothing is spent on it again.
PaidOnce == [][\A d \in Doc : class[d] # "pending" => answers'[d] = answers[d] /\ class'[d] = class[d]]_contentVars

\* Each task does its step once and after the one before it, which is what PortalData has its
\* writers do: the gate decides on a document once, with its keywords for good, and only what
\* it has let pass comes to a class.
StepsOnce == [][\A d \in Doc :
    /\ gate[d] # "pending" => gate'[d] = gate[d] /\ hits'[d] = hits[d]
    /\ class'[d] # class[d] => gate[d] = "matched" /\ class[d] = "pending"]_contentVars

\* The classifier's queue: what has passed the gate and has no class.  It has at hand what
\* it has read and not committed yet.
ClassQueue == INSTANCE WorkQueue WITH
    Item <- Doc, Limit <- BatchSize,
    waiting <- {d \in Doc : gate[d] = "matched" /\ class[d] = "pending"},
    taken <- run.todo \union {d \in Doc : run.out[d] # NoOutcome}

\* Whatever the batch limits, every document gets to the gate, and every one the
\* gate lets pass gets its class or fails.
EventuallyFiltered == \A d \in Doc : <>(gate[d] # "pending")
EventuallyClassified == \A d \in Doc : gate[d] = "matched" ~> class[d] # "pending"
=============================================================================
