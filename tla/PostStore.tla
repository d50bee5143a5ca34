------------------------------- MODULE PostStore -------------------------------
(***************************************************************************)
(* The documents table and the crawls that save posts into it:             *)
(* PgStorage.save_post (adapters/fb_pg_storage.py) and save_document       *)
(* (adapters/document_store.py), which guard against duplicates alike.     *)
(*                                                                         *)
(* The guard is one statement and the upsert another; the transaction is   *)
(* READ COMMITTED, so other crawls commit in between.                      *)
(***************************************************************************)
EXTENDS StoredText, Posts

CONSTANTS
    Target,    \* crawl_targets
    Owner,     \* owner_external_id: a group or a page
    OwnerOf,   \* the owner a target crawls
    PostsOf,   \* the posts of an owner
    Content,   \* contents of posts
    MaxEdits   \* bound: edits of posts

ASSUME OwnerAssumption == OwnerOf \in [Target -> Owner] /\ PostsOf \in [Owner -> SUBSET Post]
ASSUME ContentAssumption == NoText \notin Content
ASSUME EditsAssumption == MaxEdits \in Nat

VARIABLES
    page,   \* the text of a post on Facebook
    edits,  \* how many edits there were
    docs,   \* documents: the text of the row (target_id, external_doc_id)
    saving, \* what every crawl is saving
    raced   \* history: two crawls were between guard and upsert for one owner

postVars == <<page, edits, docs, saving, raced>>

Row == {r \in Target \X Post : r[2] \in PostsOf[OwnerOf[r[1]]]}
OwnerOfRow(r) == OwnerOf[r[1]]

NoSave == [step |-> "idle"]

PostTypeOK ==
    /\ page \in [Post -> Content]
    /\ edits \in 0..MaxEdits
    /\ docs \in [Row -> Content \union {NoText}]
    /\ saving \in [Crawl -> {NoSave} \union [step : {"fetched", "checked"}, row : Row, text : Content]]
    /\ raced \in BOOLEAN

PostInit ==
    /\ page \in [Post -> Content]
    /\ edits = 0
    /\ docs = [r \in Row |-> NoText]
    /\ saving = [c \in Crawl |-> NoSave]
    /\ raced = FALSE

\* Somebody edits a post.
EditPost(p, text) ==
    /\ edits < MaxEdits /\ text # page[p]
    /\ page' = [page EXCEPT ![p] = text]
    /\ edits' = edits + 1
    /\ UNCHANGED <<docs, saving, raced>>

\* (mutant) The storage object of another target.
FetchPostForAnyTarget(c, r) ==
    /\ saving[c] = NoSave
    /\ \E t \in Target :
          saving' = [saving EXCEPT ![c] = [step |-> "fetched", row |-> <<t, r[2]>>, text |-> page[r[2]]]]
    /\ UNCHANGED <<page, edits, docs, raced>>

\* A crawl of a target has fetched a post.
FetchPost(c, r) ==
    /\ saving[c] = NoSave
    /\ saving' = [saving EXCEPT ![c] = [step |-> "fetched", row |-> r, text |-> page[r[2]]]]
    /\ UNCHANGED <<page, edits, docs, raced>>

\* (mutant) The guard does not ask for the owner.
DuplicatesAnywhere(r, text) == {q \in Row : q # r /\ docs[q] = text}

\* (mutant) The guard looks at other targets only.
DuplicatesElsewhere(r, text) ==
    {q \in Row : q[1] # r[1] /\ OwnerOfRow(q) = OwnerOfRow(r) /\ docs[q] = text}

\* The rows the guard finds: the same owner, the same content, another key.
Duplicates(r, text) == {q \in Row : q # r /\ OwnerOfRow(q) = OwnerOfRow(r) /\ docs[q] = text}

\* A crawl that has passed the guard for a row of this owner.
PassedFor(c, owner) == saving[c].step = "checked" /\ OwnerOfRow(saving[c].row) = owner

\* A duplicate ends the save; whatever row the post itself has stays as it is.
CheckPost(c) ==
    /\ saving[c].step = "fetched"
    /\ IF Duplicates(saving[c].row, saving[c].text) # {}
       THEN saving' = [saving EXCEPT ![c] = NoSave] /\ raced' = raced
       ELSE /\ saving' = [saving EXCEPT ![c].step = "checked"]
            /\ raced' = (raced \/ \E d \in Crawl : PassedFor(d, OwnerOfRow(saving[c].row)))
    /\ UNCHANGED <<page, edits, docs>>

\* INSERT ... ON CONFLICT (target_id, external_doc_id) DO UPDATE, and the commit.
UpsertPost(c) ==
    /\ saving[c].step = "checked"
    /\ docs' = [docs EXCEPT ![saving[c].row] = saving[c].text]
    /\ saving' = [saving EXCEPT ![c] = NoSave]
    /\ UNCHANGED <<page, edits, raced>>

\* The crawl dies: the transaction is rolled back.
AbortPost(c) ==
    /\ saving[c] # NoSave
    /\ saving' = [saving EXCEPT ![c] = NoSave]
    /\ UNCHANGED <<page, edits, docs, raced>>

PostNext ==
    \/ \E p \in Post, text \in Content : EditPost(p, text)
    \/ \E c \in Crawl : (\E r \in Row : FetchPost(c, r)) \/ CheckPost(c) \/ UpsertPost(c) \/ AbortPost(c)

PostSpec == PostInit /\ [][PostNext]_postVars

-----------------------------------------------------------------------------
\* "Guards against the same real post being saved twice": no two rows of an
\* owner have the same content.
NoDuplicatePost ==
    \A r, q \in Row :
        (r # q /\ OwnerOfRow(r) = OwnerOfRow(q) /\ docs[r] # NoText) => docs[r] # docs[q]

\* The guard does keep its promise, for any number of targets, edits and rolled
\* back saves, until two saves for one owner are between guard and commit.
DuplicatesOnlyByRace == raced \/ NoDuplicatePost

\* A save that is not rolled back leaves the text it was given in a row of the
\* owner: no owner loses a post to the guard because of what another one wrote.
NothingLost ==
    [][\A c \in Crawl : (CheckPost(c) \/ UpsertPost(c)) /\ saving'[c] = NoSave =>
          \E r \in Row : OwnerOfRow(r) = OwnerOfRow(saving[c].row) /\ docs'[r] = saving[c].text]_postVars

\* Migration 0013: each target has its own row for the same content.
OwnRow ==
    [][\A c \in Crawl : (CheckPost(c) \/ UpsertPost(c)) /\ saving'[c] = NoSave =>
          docs'[saving[c].row] # NoText]_postVars
=============================================================================
