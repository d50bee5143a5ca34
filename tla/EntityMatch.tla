--------------------------------- MODULE EntityMatch ---------------------------------
(***************************************************************************)
(* The task entity_match of the DAG content_pipeline                       *)
(* (pipeline/entity_match.py): which names of the gazetteer a document     *)
(* mentions; and the gazetteer's routes in routers/admin.py.               *)
(*                                                                         *)
(* A run reads the gazetteer, takes a batch of the documents that have no  *)
(* row yet, and writes their rows, all in one transaction.                 *)
(***************************************************************************)
EXTENDS Documents, SequencesExt

CONSTANTS
    Form,         \* surface forms: the rows of entity_gazetteer
    ConceptOf, NameOf,
    FoundIn,      \* the documents with the form in their text
    MatchBatch,
    MaxForms      \* bound: changes of the gazetteer

ASSUME FormAssumption ==
    /\ IsFiniteSet(Form) /\ FoundIn \in [Form -> SUBSET Doc] /\ MatchBatch \in Nat \ {0} /\ MaxForms \in Nat
    /\ DOMAIN ConceptOf = Form /\ DOMAIN NameOf = Form
    /\ \A f \in Form : ConceptOf[f] # "__none__" /\ NameOf[f] # "__none__"

VARIABLES
    forms,     \* entity_gazetteer: is_active, or "absent"
    entities,  \* document_entities: rows [concept, name] of a document
    matcher,   \* the run: [step, gazetteer, docs]
    formChanges

matchVars == <<forms, entities, matcher, formChanges>>

Concepts == {ConceptOf[f] : f \in Form}
RowsOf == [concept : Concepts \union {"__none__"}, name : {NameOf[f] : f \in Form} \union {"__none__"}]
Checked == [concept |-> "__none__", name |-> "__none__"]  \* the row of a document without names
NoMatcher == [step |-> "idle", gazetteer |-> <<>>, docs |-> {}]

MatchTypeOK ==
    /\ forms \in [Form -> {"absent", "active", "inactive"}]
    /\ entities \in [Doc -> SUBSET RowsOf]
    /\ matcher.step \in {"idle", "select", "tag"} /\ matcher.gazetteer \in Seq(Form) /\ matcher.docs \subseteq Doc
    /\ formChanges \in 0..MaxForms

MatchInit ==
    /\ forms \in [Form -> {"absent", "active"}]
    /\ entities = [d \in Doc |-> {}]
    /\ matcher = NoMatcher /\ formChanges = 0

-----------------------------------------------------------------------------
(* The gazetteer; nothing here looks at documents that have been matched *)

ChangeForms ==
    /\ formChanges < MaxForms /\ formChanges' = formChanges + 1
    /\ UNCHANGED <<entities, matcher>>

\* create_entity: 409 for a form the concept has.
CreateForm(f) ==
    /\ ChangeForms /\ forms[f] = "absent"
    /\ forms' = [forms EXCEPT ![f] = "active"]

Named(name) == {f \in Form : NameOf[f] = name /\ forms[f] # "absent"}

\* update_entity and delete_entity go by the name, whatever concepts share it.
UpdateEntity(name, state) ==
    /\ ChangeForms /\ Named(name) # {}
    /\ forms' = [f \in Form |-> IF f \in Named(name) THEN state ELSE forms[f]]

-----------------------------------------------------------------------------
(* A run *)

ActiveForms == {f \in Form : forms[f] = "active"}
Unmatched == {d \in Doc : entities[d] = {}}

\* The rows come in no order.  Nothing to do while the gazetteer is empty.
StartMatch ==
    /\ matcher.step = "idle" /\ ActiveForms # {}
    /\ \E gazetteer \in SetToSeqs(ActiveForms) :
          matcher' = [NoMatcher EXCEPT !.step = "select", !.gazetteer = gazetteer]
    /\ UNCHANGED <<forms, entities, formChanges>>

\* LIMIT without an order.
SelectUnmatched ==
    /\ matcher.step = "select"
    /\ \E docs \in SUBSET Unmatched :
          /\ Cardinality(docs) <= MatchBatch
          /\ docs # Unmatched => Cardinality(docs) = MatchBatch
          /\ matcher' = [matcher EXCEPT !.step = "tag", !.docs = docs]
    /\ UNCHANGED <<forms, entities, formChanges>>

\* The places of a document's forms in the gazetteer, and its rows: a concept counts
\* once, with the name of its first form.
PlacesOf(d) == {i \in DOMAIN matcher.gazetteer : d \in FoundIn[matcher.gazetteer[i]]}
RowOf(f) == [concept |-> ConceptOf[f], name |-> NameOf[f]]
RowsFound(d) ==
    {RowOf(matcher.gazetteer[i]) :
        i \in {k \in PlacesOf(d) : \A j \in PlacesOf(d) : j < k => ConceptOf[matcher.gazetteer[j]] # ConceptOf[matcher.gazetteer[k]]}}

\* (mutant) No row for a document without names.
CommitNoSentinel ==
    /\ matcher.step = "tag"
    /\ entities' = [d \in Doc |-> IF d \in matcher.docs THEN RowsFound(d) ELSE entities[d]]
    /\ matcher' = NoMatcher
    /\ UNCHANGED <<forms, formChanges>>

CommitMatches ==
    /\ matcher.step = "tag"
    /\ entities' = [d \in Doc |->
          IF d \notin matcher.docs THEN entities[d] ELSE IF PlacesOf(d) = {} THEN {Checked} ELSE RowsFound(d)]
    /\ matcher' = NoMatcher
    /\ UNCHANGED <<forms, formChanges>>

MatchDies ==
    /\ matcher.step # "idle"
    /\ matcher' = NoMatcher
    /\ UNCHANGED <<forms, entities, formChanges>>

MatchNext ==
    \/ \E f \in Form : CreateForm(f) \/ \E state \in {"absent", "active", "inactive"} : UpdateEntity(NameOf[f], state)
    \/ StartMatch \/ SelectUnmatched \/ CommitMatches \/ MatchDies

MatchSpec == MatchInit /\ [][MatchNext]_matchVars

\* Every crawl starts the DAG again, and not every run dies.
MatchFairness ==
    /\ WF_matchVars(StartMatch)
    /\ SF_matchVars(SelectUnmatched) /\ SF_matchVars(CommitMatches)

-----------------------------------------------------------------------------
\* A document has names of the forms in its text, one for a concept, or is marked as
\* checked, not both.
MatchedWell(d) ==
    \/ entities[d] = {Checked}
    \/ /\ entities[d] # {}
       /\ \A row \in entities[d] :
             /\ \E f \in Form : d \in FoundIn[f] /\ row = RowOf(f)
             /\ \A other \in entities[d] : row.concept = other.concept => row = other

\* The rows of a document are what its text and a gazetteer give, from the first commit on.
MatchedRight == \A d \in Doc : entities[d] = {} \/ MatchedWell(d)

\* A document is matched once: no run, and no change of the gazetteer, touches its rows
\* afterwards.
MatchedOnce == [][\A d \in Doc : entities[d] # {} => entities'[d] = entities[d]]_matchVars

\* The matcher's queue: the documents without a row.
MatchQueue == INSTANCE WorkQueue WITH Item <- Doc, Limit <- MatchBatch, waiting <- Unmatched, taken <- matcher.docs

\* Every document comes to be matched, and stays it, unless the gazetteer is empty again
\* and again: those without a name must not fill the batch for ever.
EventuallyMatched == []<>(ActiveForms = {}) \/ \A d \in Doc : <>[]MatchedWell(d)
=============================================================================
