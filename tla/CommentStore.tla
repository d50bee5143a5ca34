------------------------------- MODULE CommentStore -------------------------------
(***************************************************************************)
(* The comments of one stored post: PgStorage.upsert_comments              *)
(* (adapters/fb_pg_storage.py) run by the crawls that see the post, while  *)
(* people write, edit and remove comments on Facebook.                     *)
(*                                                                         *)
(* A slot is what comment_match_key makes of a comment: its author, parent *)
(* and depth.  The parser makes the id of a comment from its slot and its  *)
(* text, so a comment IS a pair of the two, and so is its id.              *)
(***************************************************************************)
EXTENDS StoredText, Sequences, SequencesExt

CONSTANTS
    Slot,       \* match keys
    Text,       \* texts of comments
    NoRow,      \* no row left to claim
    Habits,     \* bound: "any", and "tidy" (see Writable and FetchComments)
    MaxFetched, \* bound: comments in one list
    MaxPosted   \* bound: comments that ever are

ASSUME TextAssumption == NoText \notin Text
ASSUME NoRowAssumption == NoRow \notin Slot \X Text
ASSUME HabitAssumption == Habits \subseteq {"any", "tidy"} /\ {MaxFetched, MaxPosted} \subseteq Nat

Comment == Slot \X Text
SlotOf(id) == id[1]
TextOf(id) == id[2]

VARIABLES
    habit,     \* how people write and crawls run, in this behaviour
    live,      \* the comments on the page
    posted,    \* history: the comments that ever were
    rows,      \* document_comments: the text of the row with this external_comment_id
    crawl,     \* what every crawl has fetched and read
    reported   \* history: how often a comment was returned as new

commentVars == <<habit, live, posted, rows, crawl, reported>>

NoCrawl == [phase |-> "idle", list |-> <<>>, base |-> [id \in Comment |-> NoText],
         claim |-> [s \in Slot |-> NoRow]]

CommentTypeOK ==
    /\ habit \in Habits
    /\ live \subseteq posted /\ posted \subseteq Comment
    /\ rows \in [Comment -> Text \union {NoText}]
    /\ DOMAIN crawl = Crawl
    /\ \A c \in Crawl :
          /\ crawl[c].phase \in {"idle", "fetched", "read"}
          /\ ToSet(crawl[c].list) \subseteq posted
          /\ crawl[c].base \in [Comment -> Text \union {NoText}]
          /\ \A s \in Slot : crawl[c].claim[s] = NoRow \/ SlotOf(crawl[c].claim[s]) = s
    /\ reported \in [Comment -> Nat]

CommentInit ==
    /\ habit \in Habits
    /\ live = {} /\ posted = {}
    /\ rows = [id \in Comment |-> NoText]
    /\ crawl = [c \in Crawl |-> NoCrawl]
    /\ reported = [id \in Comment |-> 0]

-----------------------------------------------------------------------------
(* Facebook *)

\* The tidy have one comment in a slot, and never go back to an old text.
Writable(id, others) ==
    /\ id \notin others
    /\ habit = "tidy" => id \notin posted /\ \A o \in others : SlotOf(o) # SlotOf(id)
    /\ Cardinality(posted \union {id}) <= MaxPosted

WriteComment(id) ==
    /\ Writable(id, live)
    /\ live' = live \union {id}
    /\ posted' = posted \union {id}
    /\ UNCHANGED <<habit, rows, crawl, reported>>

EditComment(old, id) ==
    /\ old \in live /\ SlotOf(old) = SlotOf(id)
    /\ Writable(id, live \ {old})
    /\ live' = (live \ {old}) \union {id}
    /\ posted' = posted \union {id}
    /\ UNCHANGED <<habit, rows, crawl, reported>>

WithdrawComment(id) ==
    /\ id \in live
    /\ live' = live \ {id}
    /\ UNCHANGED <<habit, posted, rows, crawl, reported>>

-----------------------------------------------------------------------------
(* A crawl *)

\* What the page showed: some of the comments, in some order.
FetchComments(c) ==
    /\ crawl[c].phase = "idle"
    /\ habit = "tidy" => \A d \in Crawl : crawl[d].phase = "idle"
    /\ \E S \in SUBSET live \ {{}} : Cardinality(S) <= MaxFetched /\ \E list \in SetToSeqs(S) :
          crawl' = [crawl EXCEPT ![c] = [NoCrawl EXCEPT !.phase = "fetched", !.list = list]]
    /\ UNCHANGED <<habit, live, posted, rows, reported>>

Stored(s) == {id \in Comment : SlotOf(id) = s /\ rows[id] # NoText}

\* The SELECT of the existing rows.  by_match keeps one row of every slot: the
\* last of a result that has no order.
ReadRows(c) ==
    /\ crawl[c].phase = "fetched"
    /\ \E claim \in [Slot -> Comment \union {NoRow}] :
          /\ \A s \in Slot : IF Stored(s) = {} THEN claim[s] = NoRow ELSE claim[s] \in Stored(s)
          /\ crawl' = [crawl EXCEPT ![c] = [@ EXCEPT !.phase = "read", !.base = rows, !.claim = claim]]
    /\ UNCHANGED <<habit, live, posted, rows, reported>>

\* (mutant) What is found in by_match stays there and is not written.
OneUnwritten(base, m, id) ==
    IF id \in m.seen THEN m
    ELSE IF m.claim[SlotOf(id)] # NoRow THEN [m EXCEPT !.seen = @ \union {id}]
    ELSE IF m.rows[id] # NoText THEN m
    ELSE [m EXCEPT !.rows[id] = TextOf(id), !.seen = @ \union {id}, !.new = @ \union {id}]

\* (mutant) `inserted` is not looked at.
OneReportingAll(base, m, id) ==
    IF id \in m.seen THEN m
    ELSE IF m.claim[SlotOf(id)] # NoRow
    THEN [m EXCEPT !.rows[m.claim[SlotOf(id)]] = TextOf(id),
                   !.claim[SlotOf(id)] = NoRow, !.seen = @ \union {id}]
    ELSE [m EXCEPT !.rows[id] = TextOf(id), !.seen = @ \union {id}, !.new = @ \union {id}]

\* One comment of the list: known by its id; or the edited text of the row its
\* slot has to offer, which is taken once; or a new row, unless another crawl
\* has inserted it since (ON CONFLICT DO NOTHING).
One(base, m, id) ==
    LET row == m.claim[SlotOf(id)]
    IN  IF id \in m.seen THEN m
        ELSE IF row # NoRow
        THEN [m EXCEPT !.rows[row] = IF base[row] # TextOf(id) THEN TextOf(id) ELSE @,
                       !.claim[SlotOf(id)] = NoRow,
                       !.seen = @ \union {id}]
        ELSE IF m.rows[id] # NoText THEN m
        ELSE [m EXCEPT !.rows[id] = TextOf(id), !.seen = @ \union {id}, !.new = @ \union {id}]

\* The loop and the commit.  The statements of two crawls on the same row wait
\* for one another, so the loops take effect one after the other.
MergeComments(c) ==
    LET k == crawl[c]
        start == [rows |-> rows, claim |-> k.claim, new |-> {},
                  seen |-> {id \in Comment : k.base[id] # NoText}]
        merged[n \in 0..Len(k.list)] ==
            IF n = 0 THEN start ELSE One(k.base, merged[n - 1], k.list[n])
    IN  merged[Len(k.list)]

CommitComments(c) ==
    /\ crawl[c].phase = "read"
    /\ LET merged == MergeComments(c)
       IN  /\ rows' = merged.rows
           /\ reported' = [id \in Comment |-> IF id \in merged.new THEN reported[id] + 1 ELSE reported[id]]
    /\ crawl' = [crawl EXCEPT ![c] = NoCrawl]
    /\ UNCHANGED <<habit, live, posted>>

\* The crawl is cancelled or dies: the transaction is rolled back.
AbortComments(c) ==
    /\ crawl[c].phase # "idle"
    /\ crawl' = [crawl EXCEPT ![c] = NoCrawl]
    /\ UNCHANGED <<habit, live, posted, rows, reported>>

CommentNext ==
    \/ \E id \in Comment : WriteComment(id) \/ WithdrawComment(id) \/ \E old \in Comment : EditComment(old, id)
    \/ \E c \in Crawl : FetchComments(c) \/ ReadRows(c) \/ CommitComments(c) \/ AbortComments(c)

CommentSpec == CommentInit /\ [][CommentNext]_commentVars

-----------------------------------------------------------------------------
\* A comment is returned as new by exactly one crawl, the one that inserted its
\* row, whichever crawls overlap.
ReportedOnce == \A id \in Comment : reported[id] = IF rows[id] # NoText THEN 1 ELSE 0

\* Of the tidy, a crawl leaves one row in the slot of each comment it saw, with
\* the text it saw.
EditsInPlace ==
    [][\A c \in Crawl : habit = "tidy" /\ CommitComments(c) =>
          \A id \in ToSet(crawl[c].list) :
              \E row \in Comment : Stored(SlotOf(id))' = {row} /\ rows'[row] = TextOf(id)]_commentVars

\* The comment on match_key: nothing is "silently overwriting an unrelated
\* comment's text".  A stored comment that is on the page keeps its text.
NoForeignOverwrite == [][\A id \in live : rows[id] = TextOf(id) => rows'[id] = rows[id]]_commentVars
=============================================================================
