---------------------------- MODULE ContentPipelineProofs ----------------------------
(***************************************************************************)
(* Theorems about ContentPipeline, for every set of organizations,         *)
(* documents and keywords and every batch size.                            *)
(***************************************************************************)
EXTENDS ContentPipeline, TLAPS

Outcomes == [class : {"pending", "completed", "failed"}, cost : Nat]

Runs == [step : {"idle", "filter", "filtered", "orgs", "mode", "rows"},
         matchers : [Client -> SUBSET Keyword], orgs : SUBSET Client, org : Client,
         mode : Modes \union {Unset}, todo : SUBSET Doc, out : [Doc -> Outcomes]]

DocumentsTyped ==
    /\ content \in [Doc -> SUBSET Keyword]
    /\ gate \in [Doc -> {"pending", "matched", "no_match"}]
    /\ hits \in [Doc -> SUBSET Keyword]
    /\ class \in [Doc -> {"pending", "completed", "failed"}]
    /\ classOf \in [Doc -> Modes \union {Unset}]
    /\ booked \in [Doc -> Nat]

ConfigTyped ==
    /\ chosen \in [Org -> SUBSET Keyword] /\ active \subseteq Keyword
    /\ setting \in [Org -> Modes \union {Unset}]

Typed ==
    /\ DocumentsTyped /\ ConfigTyped
    /\ run \in Runs
    /\ answers \in [Doc -> Nat]
    /\ ever \in [Client -> [keywords : SUBSET Keyword, modes : SUBSET Modes]]

LEMMA NoRunType == NoRun \in Runs /\ NoOutcome \in Outcomes
  BY OrgAssumption DEF NoRun, NoOutcome, Runs, Outcomes, Client

LEMMA ModeType ==
  ASSUME ConfigTyped, NEW o \in Client
  PROVE  ModeOf(o) \in Modes
  BY DataAssumption DEF ConfigTyped, ModeOf, Client

LEMMA MatchersType ==
  ASSUME ConfigTyped
  PROVE  Matchers \in [Client -> SUBSET Keyword]
  BY DEF ConfigTyped, Matchers

\* A batch is part of what it is taken from.
LEMMA BatchIn ==
  ASSUME NEW n, NEW S, NEW T \in Chunk(n, S)
  PROVE  T \subseteq S
  BY DEF Chunk, kSubset

LEMMA InitTyped == ContentInit => Typed
  <1> SUFFICES ASSUME ContentInit PROVE Typed
    OBVIOUS
  <1>1. DocumentsTyped /\ ConfigTyped
    BY DEF ContentInit, DocumentsTyped, ConfigTyped
  <1>2. run \in Runs
    BY NoRunType DEF ContentInit
  <1>3. answers \in [Doc -> Nat]
    BY DEF ContentInit
  <1>4. \A o \in Client : (IF o \in Org THEN chosen[o] ELSE {}) \in SUBSET Keyword /\ {ModeOf(o)} \in SUBSET Modes
    BY <1>1, ModeType DEF ConfigTyped
  <1>5. ever \in [Client -> [keywords : SUBSET Keyword, modes : SUBSET Modes]]
    BY <1>4 DEF ContentInit
  <1>6. QED
    BY <1>1, <1>2, <1>3, <1>5 DEF Typed

LEMMA KeywordTyped ==
  ASSUME Typed, NEW o \in Org, NEW k \in Keyword, SelectKeyword(o, k) \/ DeselectKeyword(o, k)
  PROVE  Typed'
  <1>1. DocumentsTyped' /\ run' \in Runs /\ answers' \in [Doc -> Nat]
    BY DEF Typed, DocumentsTyped, SelectKeyword, DeselectKeyword, Request, documents
  <1>2. ConfigTyped'
    BY DEF Typed, ConfigTyped, SelectKeyword, DeselectKeyword
  <1>3. ever' \in [Client -> [keywords : SUBSET Keyword, modes : SUBSET Modes]]
    BY DEF Typed, SelectKeyword, DeselectKeyword, Client
  <1>4. QED
    BY <1>1, <1>2, <1>3 DEF Typed

\* An outcome is an outcome, whatever the call came to.
LEMMA OutcomeType ==
  ASSUME NEW d, NEW good \in BOOLEAN, NEW cost \in Nat
  PROVE  /\ Outcome(d, good, cost) \in Outcomes
         /\ Outcome(d, good, cost).class # "pending"
  BY DEF Outcome, Outcomes

\* What Classify does, without how it comes to it.
LEMMA ClassifyStep ==
  ASSUME Typed, NEW d \in Doc, Classify(d)
  PROVE  \E cost \in Nat, o \in Outcomes :
            /\ run.step = "rows" /\ d \in run.todo /\ o.class # "pending"
            /\ cost > 0 => run.mode # "normal"
            /\ answers' = [answers EXCEPT ![d] = @ + cost]
            /\ run' = [run EXCEPT !.todo = @ \ {d}, !.out[d] = o]
            /\ UNCHANGED <<documents, config, ever, counts>>
  <1>1. PICK described \in (IF run.mode = "llm_image" /\ d \in HasImages THEN {0, 1} ELSE {0}),
             answered \in (IF run.mode = "normal" THEN {0} ELSE {0, 1}),
             readable \in BOOLEAN :
          /\ answers' = [answers EXCEPT ![d] = @ + (described + answered)]
          /\ run' = [run EXCEPT !.todo = @ \ {d},
                       !.out[d] = Outcome(d, run.mode = "normal" \/ (answered = 1 /\ readable),
                                          described + answered)]
    BY Zenon DEF Classify
  <1>2. described \in {0, 1} /\ answered \in {0, 1}
    BY <1>1
  <1>3. described + answered \in Nat
    BY <1>2
  <1>4. described + answered > 0 => run.mode # "normal"
    BY <1>1
  <1> DEFINE good == run.mode = "normal" \/ (answered = 1 /\ readable)
             o == Outcome(d, good, described + answered)
  <1>5. o \in Outcomes /\ o.class # "pending"
    BY <1>3, OutcomeType
  <1>6. run.step = "rows" /\ d \in run.todo /\ UNCHANGED <<documents, config, ever, counts>>
    BY DEF Classify
  <1>7. run' = [run EXCEPT !.todo = @ \ {d}, !.out[d] = o]
    BY <1>1
  <1> HIDE DEF o
  <1>8. QED
    BY <1>1, <1>3, <1>4, <1>5, <1>6, <1>7

LEMMA PipelineTyped == Typed /\ (Pipeline \/ Die) => Typed'
  <1> SUFFICES ASSUME Typed, Pipeline \/ Die PROVE Typed'
    OBVIOUS
  <1>1. DocumentsTyped /\ ConfigTyped /\ run \in Runs
    BY DEF Typed
  <1>2. ASSUME UNCHANGED <<documents, config, answers, ever>>, run' \in Runs PROVE Typed'
    BY <1>2 DEF Typed, DocumentsTyped, ConfigTyped, documents, config
  <1>3. CASE ReadKeywords
    <2>1. run' \in Runs
      BY <1>1, <1>3, NoRunType, MatchersType DEF ReadKeywords, Runs
    <2>2. QED
      BY <1>2, <1>3, <2>1 DEF ReadKeywords
  <1>4. CASE FilterBatch
    <2>1. run' \in Runs
      BY <1>4, NoRunType DEF FilterBatch, Runs
    <2>2. \A d \in Doc : Found(d) \in SUBSET Keyword
      BY <1>1 DEF Found, DocumentsTyped
    <2>3. PICK batch : 
            /\ gate' = [d \in Doc |-> IF d \in {e \in batch : Opens(Found(e))} THEN "matched"
                                      ELSE IF d \in batch THEN "no_match" ELSE gate[d]]
            /\ hits' = [d \in Doc |-> IF d \in {e \in batch : Opens(Found(e))} THEN Found(d) ELSE hits[d]]
      BY <1>4 DEF FilterBatch
    <2>4. gate' \in [Doc -> {"pending", "matched", "no_match"}]
      BY <1>1, <2>3 DEF DocumentsTyped
    <2>5. hits' \in [Doc -> SUBSET Keyword]
      BY <1>1, <2>2, <2>3 DEF DocumentsTyped
    <2>6. QED
      BY <1>1, <1>4, <2>1, <2>4, <2>5 DEF FilterBatch, Typed, DocumentsTyped, ConfigTyped, config
  <1>5. CASE ReadOrgs
    <2>1. run' \in Runs
      BY <1>5, NoRunType DEF ReadOrgs, Runs
    <2>2. QED
      BY <1>2, <1>5, <2>1 DEF ReadOrgs
  <1>6. ASSUME NEW o \in Client, ReadMode(o) PROVE Typed'
    <2>1. NextMode(o) \in Modes
      BY <1>1, ModeType DEF NextMode
    <2>2. run' \in Runs
      BY <1>1, <1>6, <2>1 DEF ReadMode, Runs
    <2>3. QED
      BY <1>2, <1>6, <2>2 DEF ReadMode
  <1>7. CASE ReadRows
    <2>1. PICK batch \in SUBSET Doc : run' = [run EXCEPT !.step = "rows", !.todo = batch]
      BY <1>7, BatchIn DEF ReadRows, Waiting
    <2>2. run' \in Runs
      BY <1>1, <2>1 DEF Runs
    <2>3. QED
      BY <1>2, <1>7, <2>2 DEF ReadRows
  <1>8. ASSUME NEW d \in Doc, Classify(d) PROVE Typed'
    <2>1. PICK cost \in Nat, o \in Outcomes :
            /\ answers' = [answers EXCEPT ![d] = @ + cost]
            /\ run' = [run EXCEPT !.todo = @ \ {d}, !.out[d] = o]
            /\ UNCHANGED <<documents, config, ever, counts>>
      BY <1>8, ClassifyStep
    <2>2. run' \in Runs
      BY <1>1, <2>1 DEF Runs
    <2>3. answers' \in [Doc -> Nat]
      BY <2>1 DEF Typed
    <2>4. QED
      BY <1>1, <2>1, <2>2, <2>3 DEF Typed, DocumentsTyped, ConfigTyped, documents, config
  <1>9. CASE CommitClasses
    <2>1. NoRun.out \in [Doc -> Outcomes] /\ NoOrg \in Client
      BY NoRunType DEF Runs, Client
    <2>2. run' \in Runs
      BY <1>1, <1>9, <2>1 DEF CommitClasses, Runs
    <2>3. \A d \in Doc : run.out[d] \in Outcomes
      BY <1>1 DEF Runs
    <2>4. class' \in [Doc -> {"pending", "completed", "failed"}]
      BY <1>1, <1>9, <2>3 DEF CommitClasses, DocumentsTyped, Outcomes
    <2>5. classOf' \in [Doc -> Modes \union {Unset}]
      BY <1>1, <1>9 DEF CommitClasses, DocumentsTyped, Runs
    <2>6. booked' \in [Doc -> Nat]
      BY <1>1, <1>9, <2>3 DEF CommitClasses, DocumentsTyped, Outcomes
    <2>7. QED
      BY <1>1, <1>9, <2>2, <2>4, <2>5, <2>6 DEF CommitClasses, Typed, DocumentsTyped, ConfigTyped, config
  <1>10. CASE Finish \/ Die
    BY <1>2, <1>10, NoRunType DEF Finish, Die
  <1>11. QED
    BY <1>3, <1>4, <1>5, <1>6, <1>7, <1>8, <1>9, <1>10 DEF Pipeline

LEMMA NextTyped == Typed /\ [ContentNext]_contentVars => Typed'
  <1> SUFFICES ASSUME Typed, [ContentNext]_contentVars PROVE Typed'
    OBVIOUS
  <1>1. ASSUME NEW d \in Doc, NEW text \in SUBSET Keyword, EditDoc(d, text) PROVE Typed'
    BY <1>1 DEF EditDoc, Typed, DocumentsTyped, ConfigTyped, config
  <1>2. ASSUME NEW o \in Org, NEW k \in Keyword, SelectKeyword(o, k) \/ DeselectKeyword(o, k) PROVE Typed'
    BY <1>2, KeywordTyped
  <1>3. ASSUME NEW k \in Keyword, ToggleKeyword(k) PROVE Typed'
    BY <1>3 DEF ToggleKeyword, Request, Typed, DocumentsTyped, ConfigTyped, documents
  <1>4. ASSUME NEW o \in Org, NEW mode \in Modes, SetMode(o, mode) PROVE Typed'
    <2>1. DocumentsTyped' /\ run' \in Runs /\ answers' \in [Doc -> Nat]
      BY <1>4 DEF Typed, DocumentsTyped, SetMode, Request, documents
    <2>2. ConfigTyped'
      BY <1>4 DEF Typed, ConfigTyped, SetMode
    <2>3. QED
      BY <1>4, <2>1, <2>2 DEF SetMode, Typed, Client
  <1>5. CASE Pipeline \/ Die
    BY <1>5, PipelineTyped
  <1>6. CASE UNCHANGED contentVars
    BY <1>6 DEF contentVars, Typed, DocumentsTyped, ConfigTyped
  <1>7. QED
    BY <1>1, <1>2, <1>3, <1>4, <1>5, <1>6 DEF ContentNext

(***************************************************************************)
(* What a run holds                                                        *)
(***************************************************************************)

\* A document the classifier may have at hand.
AtHand(d) == gate[d] = "matched" /\ class[d] = "pending" /\ OrgOf[d] = run.org

\* What is still to be classified, and what is classified and not committed,
\* still waits for it, and no document is both.
RunHolds ==
    /\ \A d \in run.todo : run.step = "rows" /\ AtHand(d) /\ run.out[d] = NoOutcome
    /\ \A d \in Doc : run.out[d] # NoOutcome =>
          run.step = "rows" /\ AtHand(d) /\ run.out[d].class # "pending"

\* Keywords and modes a run has read, and those that are chosen, are among those
\* an organization ever chose.
ReadFromEver ==
    /\ \A o \in Client : run.matchers[o] \subseteq ever[o].keywords
    /\ run.step \in {"mode", "rows"} => run.mode \in ever[run.org].modes
    /\ \A o \in Client : ModeOf(o) \in ever[o].modes
    /\ \A o \in Org : chosen[o] \subseteq ever[o].keywords

\* The mode of a class is there when the class is.
ClassWithMode == \A d \in Doc : (class[d] = "completed") <=> (classOf[d] # Unset)

Inv ==
    /\ Typed /\ RunHolds /\ ReadFromEver /\ ClassWithMode
    /\ GateHolds /\ OwnKeywords /\ OwnMode

LEMMA RunRecord ==
  ASSUME Typed
  PROVE  /\ run.org \in Client /\ run.todo \subseteq Doc /\ run.orgs \subseteq Client
         /\ run.mode \in Modes \union {Unset} /\ run.matchers \in [Client -> SUBSET Keyword]
         /\ run.out \in [Doc -> Outcomes] /\ \A d \in Doc : run.out[d] \in Outcomes
         /\ \A d \in Doc : OrgOf[d] \in Client
  BY OrgAssumption DEF Typed, Runs

\* A run that starts over has nothing at hand.
LEMMA NothingAtHand ==
  ASSUME Inv, run'.todo = {}, \A d \in Doc : run'.out[d] = NoOutcome
  PROVE  RunHolds'
  BY DEF RunHolds

LEMMA NoRunHolds ==
  /\ NoRun.todo = {} /\ NoRun.mode = Unset /\ NoRun.step = "idle"
  /\ \A d \in Doc : NoRun.out[d] = NoOutcome
  /\ \A o \in Client : NoRun.matchers[o] = {}
  BY DEF NoRun

LEMMA InitInv == ContentInit => Inv
  <1> SUFFICES ASSUME ContentInit PROVE Inv
    OBVIOUS
  <1>1. Typed
    BY InitTyped
  <1>2. RunHolds
    BY NoRunHolds DEF ContentInit, RunHolds
  <1>3. ASSUME NEW o \in Client
        PROVE  ever[o].keywords = (IF o \in Org THEN chosen[o] ELSE {}) /\ ever[o].modes = {ModeOf(o)}
    BY DEF ContentInit
  <1>4. ReadFromEver
    BY <1>3, NoRunHolds DEF ContentInit, ReadFromEver, Client
  <1>5. ClassWithMode /\ GateHolds
    BY DEF ContentInit, ClassWithMode, GateHolds
  <1>6. OwnKeywords /\ OwnMode
    BY DEF ContentInit, OwnKeywords, OwnMode
  <1>7. QED
    BY <1>1, <1>2, <1>4, <1>5, <1>6 DEF Inv

\* A request of an organization or an admin leaves documents and run alone, and
\* what was ever chosen stays chosen once.
LEMMA RequestInv ==
  ASSUME Inv, Typed', UNCHANGED <<documents, run, answers>>,
         \A o \in Client : /\ ever[o].keywords \subseteq ever'[o].keywords
                           /\ ever[o].modes \subseteq ever'[o].modes
                           /\ ModeOf(o)' \in ever'[o].modes,
         \A o \in Org : chosen'[o] \subseteq ever'[o].keywords
  PROVE  Inv'
  <1>1. /\ Typed /\ RunHolds /\ ReadFromEver /\ ClassWithMode
        /\ GateHolds /\ OwnKeywords /\ OwnMode
        /\ UNCHANGED <<gate, hits, class, classOf, run, answers>>
    BY DEF Inv, documents
  <1>2. RunHolds'
    BY <1>1 DEF RunHolds, AtHand
  <1>3. ReadFromEver'
    BY <1>1, RunRecord DEF ReadFromEver
  <1>4. ClassWithMode' /\ GateHolds'
    BY <1>1 DEF ClassWithMode, GateHolds
  <1>5. OwnKeywords'
    BY <1>1, RunRecord DEF OwnKeywords
  <1>6. OwnMode'
    <2> SUFFICES ASSUME NEW d \in Doc
                 PROVE  /\ answers[d] > 0 => ever'[OrgOf[d]].modes # {"normal"}
                        /\ classOf[d] \in ever'[OrgOf[d]].modes \union {Unset}
      BY <1>1 DEF OwnMode
    <2> DEFINE o == OrgOf[d]
    <2>1. o \in Client /\ ModeOf(o) \in ever[o].modes
      BY <1>1, RunRecord DEF ReadFromEver
    <2>2. ever[o].modes # {"normal"} => ever'[o].modes # {"normal"}
      BY <2>1
    <2>3. QED
      BY <1>1, <2>1, <2>2 DEF OwnMode
  <1>7. QED
    BY <1>1, <1>2, <1>3, <1>4, <1>5, <1>6 DEF Inv

\* A step of the run that writes nothing.
LEMMA RunInv ==
  ASSUME Inv, Typed', UNCHANGED <<documents, config, answers, ever>>, RunHolds',
         \A o \in Client : run'.matchers[o] \subseteq ever[o].keywords,
         run'.step \in {"mode", "rows"} => run'.mode \in ever[run'.org].modes
  PROVE  Inv'
  <1>1. /\ Typed /\ ReadFromEver /\ ClassWithMode /\ GateHolds /\ OwnKeywords /\ OwnMode
        /\ UNCHANGED <<gate, hits, class, classOf, answers, ever, chosen, setting>>
    BY DEF Inv, documents, config
  <1>2. \A o \in Client : ModeOf(o)' = ModeOf(o)
    BY <1>1 DEF ModeOf
  <1>3. ReadFromEver'
    BY <1>1, <1>2 DEF ReadFromEver
  <1>4. ClassWithMode' /\ GateHolds' /\ OwnKeywords' /\ OwnMode'
    BY <1>1 DEF ClassWithMode, GateHolds, OwnKeywords, OwnMode
  <1>5. QED
    BY <1>3, <1>4 DEF Inv

\* The gate decides on what waits for it, by the keywords of its organization.
LEMMA FilterInv ==
  ASSUME Inv, Typed', FilterBatch
  PROVE  Inv'
  <1>1. /\ Typed /\ ReadFromEver /\ ClassWithMode /\ GateHolds /\ OwnKeywords /\ OwnMode
        /\ UNCHANGED <<class, classOf, answers, ever, chosen, setting>>
    BY DEF Inv, FilterBatch, config
  <1> DEFINE Passes(batch, d) == d \in batch /\ Opens(Found(d))
  <1>2. PICK batch \in SUBSET PendingGate :
          /\ gate' = [d \in Doc |-> IF Passes(batch, d) THEN "matched"
                                    ELSE IF d \in batch THEN "no_match" ELSE gate[d]]
          /\ hits' = [d \in Doc |-> IF Passes(batch, d) THEN Found(d) ELSE hits[d]]
    <2>1. PICK batch \in Chunk(FilterSize, PendingGate) :
            /\ gate' = [d \in Doc |-> IF d \in {e \in batch : Opens(Found(e))} THEN "matched"
                                      ELSE IF d \in batch THEN "no_match" ELSE gate[d]]
            /\ hits' = [d \in Doc |-> IF d \in {e \in batch : Opens(Found(e))} THEN Found(d) ELSE hits[d]]
      BY DEF FilterBatch
    <2>2. batch \in SUBSET PendingGate
      BY <2>1, BatchIn
    <2>3. QED
      BY <2>1, <2>2
  <1>3. \A d \in Doc : gate[d] = "matched" => gate'[d] = "matched" /\ hits'[d] = hits[d]
    BY <1>2 DEF PendingGate
  <1>4. RunHolds'
    <2>1. run' = [NoRun EXCEPT !.step = "filtered"]
      BY DEF FilterBatch
    <2>2. QED
      BY <2>1, NoRunHolds, NothingAtHand, NoRunType DEF Runs
  <1>5. ReadFromEver'
    <2>1. run'.step = "filtered" /\ run'.matchers = NoRun.matchers
      BY NoRunType DEF FilterBatch, Runs
    <2>2. \A o \in Client : ModeOf(o)' = ModeOf(o)
      BY <1>1 DEF ModeOf
    <2>3. QED
      BY <1>1, <2>1, <2>2, NoRunHolds DEF ReadFromEver
  <1>6. ClassWithMode' /\ GateHolds' /\ OwnMode'
    BY <1>1, <1>3 DEF ClassWithMode, GateHolds, OwnMode
  <1>7. OwnKeywords'
    <2> SUFFICES ASSUME NEW d \in Doc
                 PROVE  /\ hits'[d] \subseteq ever[OrgOf[d]].keywords
                        /\ gate'[d] = "matched" => hits'[d] \intersect (Brand \union Competitor) # {}
      BY <1>1 DEF OwnKeywords
    <2>1. Found(d) \subseteq ever[OrgOf[d]].keywords
      BY <1>1, RunRecord DEF Found, ReadFromEver
    <2>2. CASE Passes(batch, d)
      BY <1>2, <2>1, <2>2 DEF Opens
    <2>3. CASE ~Passes(batch, d)
      BY <1>1, <1>2, <2>3 DEF OwnKeywords
    <2>4. QED
      BY <2>2, <2>3
  <1>8. QED
    BY <1>1, <1>4, <1>5, <1>6, <1>7 DEF Inv

\* An answer costs its organization something only in a mode it once chose.
LEMMA ClassifyInv ==
  ASSUME Inv, Typed', NEW d \in Doc, Classify(d)
  PROVE  Inv'
  <1>1. /\ Typed /\ RunHolds /\ ReadFromEver /\ ClassWithMode /\ GateHolds /\ OwnKeywords /\ OwnMode
    BY DEF Inv
  <1>2. PICK cost \in Nat, o \in Outcomes :
          /\ run.step = "rows" /\ d \in run.todo /\ o.class # "pending"
          /\ cost > 0 => run.mode # "normal"
          /\ answers' = [answers EXCEPT ![d] = @ + cost]
          /\ run' = [run EXCEPT !.todo = @ \ {d}, !.out[d] = o]
          /\ UNCHANGED <<documents, config, ever, counts>>
    BY <1>1, ClassifyStep
  <1>3. UNCHANGED <<gate, hits, class, classOf, ever, chosen, setting>>
    BY <1>2 DEF documents, config
  <1>4. AtHand(d) /\ run.org \in Client
    BY <1>1, <1>2, RunRecord DEF RunHolds
  <1>5. /\ run'.step = run.step /\ run'.org = run.org /\ run'.mode = run.mode
        /\ run'.matchers = run.matchers /\ run'.todo = run.todo \ {d}
        /\ \A e \in Doc : run'.out[e] = IF e = d THEN o ELSE run.out[e]
    BY <1>1, <1>2 DEF Typed, Runs
  <1>6. RunHolds'
    <2>1. \A e \in Doc : AtHand(e)' <=> AtHand(e)
      BY <1>3, <1>5 DEF AtHand
    <2>2. QED
      BY <1>1, <1>2, <1>4, <1>5, <2>1, RunRecord DEF RunHolds
  <1>7. ReadFromEver'
    <2>1. \A c \in Client : ModeOf(c)' = ModeOf(c)
      BY <1>3 DEF ModeOf
    <2>2. QED
      BY <1>1, <1>3, <1>5, <2>1 DEF ReadFromEver
  <1>8. \A e \in Doc : e # d => answers'[e] = answers[e]
    BY <1>1, <1>2 DEF Typed
  <1>9. ClassWithMode' /\ GateHolds' /\ OwnKeywords'
    BY <1>1, <1>3, <1>4, <1>8 DEF ClassWithMode, GateHolds, OwnKeywords, AtHand
  <1>10. answers'[d] > 0 => answers[d] > 0 \/ run.mode # "normal"
    BY <1>1, <1>2 DEF Typed
  <1>11. run.mode \in ever[OrgOf[d]].modes
    BY <1>1, <1>2, <1>4 DEF ReadFromEver, AtHand
  <1>12. OwnMode'
    BY <1>1, <1>3, <1>8, <1>10, <1>11 DEF OwnMode
  <1>13. QED
    BY <1>6, <1>7, <1>9, <1>12 DEF Inv

\* What is committed was waiting, in the organization whose mode it was done in.
LEMMA CommitInv ==
  ASSUME Inv, Typed', CommitClasses
  PROVE  Inv'
  <1>1. /\ Typed /\ RunHolds /\ ReadFromEver /\ ClassWithMode /\ GateHolds /\ OwnKeywords /\ OwnMode
        /\ UNCHANGED <<gate, hits, answers, ever, chosen, setting>>
        /\ run.step = "rows" /\ run.todo = {}
    BY DEF Inv, CommitClasses, config
  <1>2. run' = [run EXCEPT !.step = "orgs", !.org = NoOrg, !.out = NoRun.out]
    BY DEF CommitClasses
  <1>3. run'.step = "orgs" /\ run'.todo = {} /\ run'.matchers = run.matchers /\ run'.out = NoRun.out
    BY <1>1, <1>2 DEF Typed, Runs
  <1>4. RunHolds'
    BY <1>3, NoRunHolds, NothingAtHand
  <1>5. ReadFromEver'
    <2>1. \A c \in Client : ModeOf(c)' = ModeOf(c)
      BY <1>1 DEF ModeOf
    <2>2. QED
      BY <1>1, <1>3, <2>1 DEF ReadFromEver
  <1>6. \A d \in Doc : run.out[d] = NoOutcome => class'[d] = class[d] /\ classOf'[d] = classOf[d]
    BY DEF CommitClasses
  <1>7. \A d \in Doc : run.out[d] # NoOutcome =>
          /\ class'[d] = run.out[d].class
          /\ classOf'[d] = IF run.out[d].class = "completed" THEN run.mode ELSE classOf[d]
          /\ AtHand(d)
    BY <1>1 DEF CommitClasses, RunHolds
  <1>8. run.mode \in ever[run.org].modes /\ run.mode # Unset
    <2>1. run.mode \in ever[run.org].modes
      BY <1>1 DEF ReadFromEver
    <2>2. ever[run.org].modes \subseteq Modes
      BY <1>1, RunRecord DEF Typed
    <2>3. QED
      BY <2>1, <2>2 DEF Modes, Unset
  <1>9. ClassWithMode'
    BY <1>1, <1>6, <1>7, <1>8 DEF ClassWithMode, AtHand
  <1>10. GateHolds'
    BY <1>1, <1>6, <1>7 DEF GateHolds, AtHand
  <1>11. OwnKeywords'
    BY <1>1 DEF OwnKeywords
  <1>12. OwnMode'
    BY <1>1, <1>6, <1>7, <1>8 DEF OwnMode, AtHand
  <1>13. QED
    BY <1>4, <1>5, <1>9, <1>10, <1>11, <1>12 DEF Inv

\* A keyword that is chosen was chosen once; one that is given up stays among them.
LEMMA KeywordInv ==
  ASSUME Inv, Typed', NEW o \in Org, NEW k \in Keyword, SelectKeyword(o, k) \/ DeselectKeyword(o, k)
  PROVE  Inv'
  <1>1. Typed /\ ReadFromEver /\ UNCHANGED <<documents, run, answers, setting>>
    BY DEF Inv, SelectKeyword, DeselectKeyword, Request
  <1>2. \A c \in Client : ever[c].keywords \subseteq ever'[c].keywords /\ ever'[c].modes = ever[c].modes
    BY <1>1 DEF SelectKeyword, DeselectKeyword, Typed
  <1>3. \A c \in Client : ModeOf(c)' \in ever'[c].modes
    BY <1>1, <1>2 DEF ModeOf, ReadFromEver
  <1>4. \A c \in Org : chosen'[c] \subseteq ever'[c].keywords
    BY <1>1 DEF SelectKeyword, DeselectKeyword, ReadFromEver, Client, Typed, ConfigTyped
  <1>5. QED
    BY <1>1, <1>2, <1>3, <1>4, RequestInv

\* So is the mode.
LEMMA ModeInv ==
  ASSUME Inv, Typed', NEW o \in Org, NEW mode \in Modes, SetMode(o, mode)
  PROVE  Inv'
  <1>0. Typed /\ ReadFromEver
    BY DEF Inv
  <1>1. UNCHANGED <<documents, run, answers, chosen>>
    BY DEF SetMode, Request
  <1>2. \A c \in Client : /\ ever[c].keywords \subseteq ever'[c].keywords
                          /\ ever[c].modes \subseteq ever'[c].modes
    BY <1>0 DEF SetMode, Typed
  <1>3. ASSUME NEW c \in Client PROVE ModeOf(c)' \in ever'[c].modes
    <2>1. ModeOf(c) \in ever[c].modes
      BY <1>0 DEF ReadFromEver
    <2>2. CASE c = o
      BY <1>0, <2>2, OrgAssumption DEF SetMode, ModeOf, Modes, Unset, Typed, ConfigTyped, Client
    <2>3. CASE c # o
      BY <1>0, <1>2, <2>1, <2>3 DEF SetMode, ModeOf, Typed, ConfigTyped, Client
    <2>4. QED
      BY <2>2, <2>3
  <1>4. \A c \in Org : chosen'[c] \subseteq ever'[c].keywords
    BY <1>0, <1>1, <1>2 DEF ReadFromEver, Client
  <1>5. QED
    BY <1>0, <1>1, <1>2, <1>3, <1>4, RequestInv

LEMMA NextInv == Inv /\ [ContentNext]_contentVars => Inv'
  <1> SUFFICES ASSUME Inv, [ContentNext]_contentVars PROVE Inv'
    OBVIOUS
  <1>1. Typed' /\ Typed /\ RunHolds /\ ReadFromEver
    BY NextTyped DEF Inv
  <1>2. ASSUME UNCHANGED <<gate, hits, class, classOf, answers, ever, chosen, setting, run>> PROVE Inv'
    BY <1>1, <1>2 DEF Inv, RunHolds, AtHand, ReadFromEver, ModeOf, ClassWithMode, GateHolds,
       OwnKeywords, OwnMode
  <1>3. ASSUME NEW d \in Doc, NEW text \in SUBSET Keyword, EditDoc(d, text) PROVE Inv'
    BY <1>2, <1>3 DEF EditDoc, config
  <1>4. ASSUME NEW o \in Org, NEW k \in Keyword, SelectKeyword(o, k) \/ DeselectKeyword(o, k) PROVE Inv'
    BY <1>1, <1>4, KeywordInv
  <1>5. ASSUME NEW k \in Keyword, ToggleKeyword(k) PROVE Inv'
    BY <1>2, <1>5 DEF ToggleKeyword, Request, documents
  <1>6. ASSUME NEW o \in Org, NEW mode \in Modes, SetMode(o, mode) PROVE Inv'
    BY <1>1, <1>6, ModeInv
  <1>7. CASE ReadKeywords
    <2>1. run'.step = "filter" /\ run'.matchers = Matchers /\ run'.todo = {} /\ run'.out = NoRun.out
      BY <1>7, NoRunType DEF ReadKeywords, NoRun
    <2>2. \A o \in Client : Matchers[o] \subseteq ever[o].keywords
      BY <1>1 DEF Matchers, ReadFromEver
    <2>3. RunHolds'
      BY <2>1, NoRunHolds, NothingAtHand
    <2>4. QED
      BY <1>1, <1>7, <2>1, <2>2, <2>3, RunInv DEF ReadKeywords
  <1>8. CASE ReadOrgs
    <2>1. run'.step = "orgs" /\ run'.matchers = NoRun.matchers /\ run'.todo = {} /\ run'.out = NoRun.out
      BY <1>8, NoRunType DEF ReadOrgs, NoRun
    <2>2. RunHolds'
      BY <2>1, NoRunHolds, NothingAtHand
    <2>3. QED
      BY <1>1, <1>8, <2>1, <2>2, NoRunHolds, RunInv DEF ReadOrgs
  <1>9. ASSUME NEW o \in Client, ReadMode(o) PROVE Inv'
    <2>1. /\ run'.matchers = run.matchers /\ run'.todo = run.todo /\ run'.out = run.out
          /\ run'.step = run.step \/ (run'.step = "mode" /\ run'.org = o /\ run'.mode = ModeOf(o))
          /\ run.step = "orgs"
      BY <1>1, <1>9 DEF ReadMode, NextMode, Typed, Runs
    <2>2. run.todo = {} /\ \A d \in Doc : run.out[d] = NoOutcome
      BY <1>1, <2>1 DEF RunHolds, Typed, Runs
    <2>3. RunHolds'
      BY <2>1, <2>2, NothingAtHand
    <2>4. run'.step \in {"mode", "rows"} => run'.mode \in ever[run'.org].modes
      BY <1>1, <2>1 DEF ReadFromEver
    <2>5. QED
      BY <1>1, <1>9, <2>1, <2>3, <2>4, RunInv DEF ReadMode, ReadFromEver
  <1>10. CASE ReadRows
    <2>1. PICK batch \in SUBSET Waiting(run.org) : run' = [run EXCEPT !.step = "rows", !.todo = batch]
      BY <1>10, BatchIn DEF ReadRows
    <2>2. /\ run'.step = "rows" /\ run'.todo = batch /\ run'.org = run.org /\ run'.mode = run.mode
          /\ run'.matchers = run.matchers /\ run'.out = run.out /\ run.step = "mode"
      BY <1>1, <1>10, <2>1 DEF Typed, Runs, ReadRows
    <2>3. \A d \in Doc : run.out[d] = NoOutcome
      BY <1>1, <2>2 DEF RunHolds
    <2>4. RunHolds'
      BY <1>10, <2>1, <2>2, <2>3 DEF ReadRows, RunHolds, AtHand, Waiting, documents
    <2>5. QED
      BY <1>1, <1>10, <2>2, <2>4, RunInv DEF ReadRows, ReadFromEver
  <1>11. CASE Finish \/ Die
    <2>1. run' = NoRun /\ UNCHANGED <<documents, config, answers, ever>>
      BY <1>11 DEF Finish, Die
    <2>2. RunHolds'
      BY <2>1, NoRunHolds, NothingAtHand
    <2>3. QED
      BY <1>1, <2>1, <2>2, NoRunHolds, RunInv
  <1>12. CASE UNCHANGED contentVars
    BY <1>2, <1>12 DEF contentVars
  <1>13. QED
    BY <1>1, <1>3, <1>4, <1>5, <1>6, <1>7, <1>8, <1>9, <1>10, <1>11, <1>12,
       FilterInv, ClassifyInv, CommitInv DEF ContentNext, Pipeline

LEMMA InvAlways == ContentSpec => []Inv
  <1>1. ContentInit => Inv
    BY InitInv
  <1>2. Inv /\ [ContentNext]_contentVars => Inv'
    BY NextInv
  <1>3. QED
    BY <1>1, <1>2, PTL DEF ContentSpec

(***************************************************************************)
(* The theorems                                                            *)
(***************************************************************************)

\* Every reachable state of documents, configuration and run is well-typed; what a
\* run has in hand is of the organization it is at, and a class is there exactly
\* when the mode it was made in is (pipeline/classify.py, _classify_rows).
THEOREM ContentTypeCorrect == ContentSpec => []ContentTypeOK
  <1>1. Inv => ContentTypeOK
    <2> SUFFICES ASSUME Inv PROVE ContentTypeOK
      OBVIOUS
    <2>1. Typed /\ RunHolds /\ ClassWithMode
      BY DEF Inv
    <2>2. \A d \in Doc : run.out[d] # NoOutcome => run.step = "rows" /\ OrgOf[d] = run.org
      BY <2>1 DEF RunHolds, AtHand
    <2>3. /\ run.step \in {"idle", "filter", "filtered", "orgs", "mode", "rows"}
          /\ run.orgs \subseteq Client /\ run.org \in Client /\ run.todo \subseteq Doc
      BY <2>1 DEF Typed, Runs
    <2>4. QED
      BY <2>1, <2>2, <2>3 DEF Typed, DocumentsTyped, ConfigTyped, ClassWithMode, ContentTypeOK
  <1>2. QED
    BY <1>1, InvAlways, PTL

\* The gate bounds the spending: a document costs an answer of the model, or has a
\* class, only after run_keyword_filter has let it pass.
THEOREM GateAlways == ContentSpec => []GateHolds
  <1>1. Inv => GateHolds
    BY DEF Inv
  <1>2. QED
    BY <1>1, InvAlways, PTL

\* What run_keyword_filter writes to a document are keywords its own organization
\* once chose, whatever is chosen, given up and turned off while it runs.
THEOREM KeywordsOwn == ContentSpec => []OwnKeywords
  <1>1. Inv => OwnKeywords
    BY DEF Inv
  <1>2. QED
    BY <1>1, InvAlways, PTL

\* run_classify makes calls for an organization, and classifies its documents, only
\* in a mode that organization had at some moment.
THEOREM ModesOwn == ContentSpec => []OwnMode
  <1>1. Inv => OwnMode
    BY DEF Inv
  <1>2. QED
    BY <1>1, InvAlways, PTL

\* What no step may do: spend on a document, or change its class, once the
\* document has been classified or has failed; runs that die take none of it back.
THEOREM PaidOnlyOnce == ContentSpec => PaidOnce
  <1> DEFINE Kept == \A d \in Doc :
                class[d] # "pending" => answers'[d] = answers[d] /\ class'[d] = class[d]
  <1>1. Inv /\ [ContentNext]_contentVars => [Kept]_contentVars
    <2> SUFFICES ASSUME Inv, [ContentNext]_contentVars PROVE Kept
      OBVIOUS
    <2>1. Typed /\ RunHolds
      BY DEF Inv
    <2>2. ASSUME UNCHANGED <<class, answers>> PROVE Kept
      BY <2>2
    <2>3. ASSUME NEW e \in Doc, Classify(e) PROVE Kept
      <3>1. PICK cost \in Nat : /\ e \in run.todo /\ answers' = [answers EXCEPT ![e] = @ + cost]
                                /\ UNCHANGED <<documents, config, ever, counts>>
        BY <2>1, <2>3, ClassifyStep
      <3>2. class[e] = "pending" /\ class' = class
        BY <2>1, <3>1 DEF RunHolds, AtHand, documents
      <3>3. QED
        BY <2>1, <3>1, <3>2 DEF Typed
    <2>4. CASE CommitClasses
      <3>1. \A d \in Doc : run.out[d] # NoOutcome => class[d] = "pending"
        BY <2>1 DEF RunHolds, AtHand
      <3>2. QED
        BY <2>4, <3>1 DEF CommitClasses
    <2>5. ASSUME NEW d \in Doc, NEW text \in SUBSET Keyword, EditDoc(d, text) PROVE Kept
      BY <2>2, <2>5 DEF EditDoc
    <2>6. ASSUME NEW o \in Org, NEW k \in Keyword,
                 SelectKeyword(o, k) \/ DeselectKeyword(o, k) PROVE Kept
      BY <2>2, <2>6 DEF SelectKeyword, DeselectKeyword, Request, documents
    <2>7. ASSUME NEW k \in Keyword, ToggleKeyword(k) PROVE Kept
      BY <2>2, <2>7 DEF ToggleKeyword, Request, documents
    <2>8. ASSUME NEW o \in Org, NEW mode \in Modes, SetMode(o, mode) PROVE Kept
      BY <2>2, <2>8 DEF SetMode, Request, documents
    <2>9. CASE FilterBatch
      BY <2>2, <2>9 DEF FilterBatch
    <2>10. CASE ReadKeywords \/ ReadOrgs \/ (\E o \in Client : ReadMode(o)) \/ ReadRows \/ Finish \/ Die
      BY <2>2, <2>10 DEF ReadKeywords, ReadOrgs, ReadMode, ReadRows, Finish, Die, documents
    <2>11. CASE UNCHANGED contentVars
      BY <2>2, <2>11 DEF contentVars
    <2>12. QED
      BY <2>3, <2>4, <2>5, <2>6, <2>7, <2>8, <2>9, <2>10, <2>11 DEF ContentNext, Pipeline
  <1>2. QED
    BY <1>1, InvAlways, PTL DEF ContentSpec, PaidOnce
=============================================================================
