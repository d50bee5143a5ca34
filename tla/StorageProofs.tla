------------------------------- MODULE StorageProofs -------------------------------
(***************************************************************************)
(* Theorems about PostStore, CommentStore and ProxyPool, for every set of  *)
(* targets, posts, owners, crawls, slots and texts and any number of       *)
(* proxies, and about what MCSaving makes of them and of CrawlProofs' two  *)
(* modules.                                                                *)
(***************************************************************************)
EXTENDS MCSaving, CrawlProofs

Saving == [step : {"fetched", "checked"}, row : Row, text : Content]

LEMMA PostInitType == PostInit => PostTypeOK
  <1> SUFFICES ASSUME PostInit PROVE PostTypeOK
    OBVIOUS
  <1>1. edits \in 0..MaxEdits
    BY EditsAssumption DEF PostInit
  <1>2. page \in [Post -> Content] /\ docs \in [Row -> Content \union {NoText}] /\ raced \in BOOLEAN
    BY DEF PostInit
  <1>3. saving \in [Crawl -> {NoSave} \union Saving]
    BY DEF PostInit
  <1>4. QED
    BY <1>1, <1>2, <1>3 DEF PostTypeOK, Saving

\* A crawl that is at a post has a row and a text.
LEMMA AtPost ==
  ASSUME PostTypeOK, NEW c \in Crawl, saving[c] # NoSave
  PROVE  saving[c] \in Saving
  BY DEF PostTypeOK, Saving

LEMMA NoSaveStep == NoSave.step = "idle" /\ \A j \in Saving : j # NoSave /\ j.step # "idle"
  BY DEF NoSave, Saving

LEMMA PostNextType == PostTypeOK /\ [PostNext]_postVars => PostTypeOK'
  <1> SUFFICES ASSUME PostTypeOK, [PostNext]_postVars PROVE PostTypeOK'
    OBVIOUS
  <1>1. ASSUME NEW c \in Crawl, NEW j \in Saving \union {NoSave},
               saving' = [saving EXCEPT ![c] = j]
        PROVE  saving' \in [Crawl -> {NoSave} \union Saving]
    BY <1>1 DEF PostTypeOK, Saving
  <1>2. ASSUME NEW p \in Post, NEW text \in Content, EditPost(p, text) PROVE PostTypeOK'
    BY <1>2, EditsAssumption DEF EditPost, PostTypeOK
  <1>3. ASSUME NEW c \in Crawl, NEW r \in Row, FetchPost(c, r) PROVE PostTypeOK'
    <2>1. r[2] \in Post
      BY DEF Row
    <2>2. page[r[2]] \in Content
      BY <2>1 DEF PostTypeOK
    <2>3. [step |-> "fetched", row |-> r, text |-> page[r[2]]] \in Saving
      BY <2>2 DEF Saving
    <2>4. QED
      BY <1>1, <1>3, <2>3 DEF FetchPost, PostTypeOK, Saving
  <1>4. ASSUME NEW c \in Crawl, CheckPost(c) PROVE PostTypeOK'
    <2>1. saving[c] \in Saving
      BY <1>4, AtPost, NoSaveStep DEF CheckPost
    <2>2. [saving[c] EXCEPT !.step = "checked"] \in Saving
      BY <2>1 DEF Saving
    <2>3. QED
      BY <1>1, <1>4, <2>2 DEF CheckPost, PostTypeOK, Saving
  <1>5. ASSUME NEW c \in Crawl, UpsertPost(c) PROVE PostTypeOK'
    <2>1. saving[c].row \in Row /\ saving[c].text \in Content
      BY <1>5, AtPost, NoSaveStep DEF UpsertPost, Saving
    <2>2. docs' \in [Row -> Content \union {NoText}]
      BY <1>5, <2>1 DEF UpsertPost, PostTypeOK
    <2>3. QED
      BY <1>1, <1>5, <2>2 DEF UpsertPost, PostTypeOK, Saving
  <1>6. ASSUME NEW c \in Crawl, AbortPost(c) PROVE PostTypeOK'
    BY <1>1, <1>6 DEF AbortPost, PostTypeOK, Saving
  <1>7. CASE UNCHANGED postVars
    BY <1>7 DEF postVars, PostTypeOK
  <1>8. QED
    BY <1>2, <1>3, <1>4, <1>5, <1>6, <1>7 DEF PostNext

\* Rows, posts being edited and crawls keep their types: a row is only ever
\* written for a post of its target's owner.
THEOREM PostTypeCorrect == PostSpec => []PostTypeOK
  <1>1. QED
    BY PostInitType, PostNextType, PTL DEF PostSpec

(***************************************************************************)
(* Nothing is lost to the guard                                            *)
(***************************************************************************)

\* When a save ends without being rolled back, the text it was given is in a row
\* of the owner, whatever other crawls do: the guard of save_post drops only
\* what the owner already has.
THEOREM NothingIsLost == PostSpec => NothingLost
  <1> DEFINE InARow(c) == \E r \in Row :
                OwnerOfRow(r) = OwnerOfRow(saving[c].row) /\ docs'[r] = saving[c].text
  <1>1. ASSUME PostTypeOK, NEW c \in Crawl, CheckPost(c), saving'[c] = NoSave PROVE InARow(c)
    <2>1. saving[c] \in Saving
      BY <1>1, AtPost, NoSaveStep DEF CheckPost
    <2>2. [saving[c] EXCEPT !.step = "checked"] # NoSave
      BY <2>1, NoSaveStep DEF Saving
    <2>3. Duplicates(saving[c].row, saving[c].text) # {}
      BY <1>1, <2>2 DEF CheckPost, PostTypeOK
    <2>4. docs' = docs
      BY <1>1 DEF CheckPost
    <2>5. QED
      BY <2>3, <2>4 DEF Duplicates
  <1>2. ASSUME PostTypeOK, NEW c \in Crawl, UpsertPost(c) PROVE InARow(c)
    <2>1. saving[c].row \in Row
      BY <1>2, AtPost, NoSaveStep DEF UpsertPost, Saving
    <2>2. docs'[saving[c].row] = saving[c].text
      BY <1>2, <2>1 DEF UpsertPost, PostTypeOK
    <2>3. QED
      BY <2>1, <2>2
  <1>3. PostTypeOK => \A c \in Crawl : (CheckPost(c) \/ UpsertPost(c)) /\ saving'[c] = NoSave => InARow(c)
    BY <1>1, <1>2
  <1>4. QED
    BY <1>3, PostTypeCorrect, PTL DEF NothingLost

(***************************************************************************)
(* No duplicates before a race                                             *)
(***************************************************************************)

\* What the guard found still holds when the upsert comes.
GuardStillTrue ==
    \A c \in Crawl :
        saving[c].step = "checked" => \A q \in Row :
            (q # saving[c].row /\ OwnerOfRow(q) = OwnerOfRow(saving[c].row)) =>
                docs[q] # saving[c].text

\* One save of an owner between guard and commit.
OneAtATime ==
    \A c, d \in Crawl :
        (saving[c].step = "checked" /\ saving[d].step = "checked" /\ c # d) =>
            OwnerOfRow(saving[c].row) # OwnerOfRow(saving[d].row)

PostInv == PostTypeOK /\ (raced \/ (NoDuplicatePost /\ GuardStillTrue /\ OneAtATime))

LEMMA PostInitInv == PostInit => PostInv
  BY PostInitType, NoSaveStep DEF PostInit, PostInv, NoDuplicatePost, GuardStillTrue, OneAtATime

\* A step that leaves the rows alone, and makes no crawl pass the guard.
LEMMA RowsKept ==
  ASSUME PostInv, PostTypeOK', UNCHANGED <<docs, raced>>,
         \A d \in Crawl : saving'[d] = saving[d] \/ saving'[d].step # "checked"
  PROVE  PostInv'
  <1>1. CASE raced
    BY <1>1 DEF PostInv
  <1>2. CASE NoDuplicatePost /\ GuardStillTrue /\ OneAtATime
    <2>1. NoDuplicatePost'
      BY <1>2 DEF NoDuplicatePost
    <2>2. GuardStillTrue'
      BY <1>2 DEF GuardStillTrue
    <2>3. OneAtATime'
      BY <1>2 DEF OneAtATime
    <2>4. QED
      BY <2>1, <2>2, <2>3 DEF PostInv
  <1>3. QED
    BY <1>1, <1>2 DEF PostInv

LEMMA CheckInv ==
  ASSUME PostInv, PostTypeOK', NEW c \in Crawl, CheckPost(c)
  PROVE  PostInv'
  <1>1. PostTypeOK /\ saving[c] \in Saving /\ docs' = docs
    BY AtPost, NoSaveStep DEF CheckPost, PostInv
  <1>2. CASE Duplicates(saving[c].row, saving[c].text) # {}
    <2>1. saving' = [saving EXCEPT ![c] = NoSave] /\ raced' = raced
      BY <1>2 DEF CheckPost
    <2>2. \A d \in Crawl : saving'[d] = saving[d] \/ saving'[d].step # "checked"
      BY <1>1, <2>1, NoSaveStep DEF PostTypeOK
    <2>3. QED
      BY <1>1, <2>1, <2>2, RowsKept
  <1>3. CASE Duplicates(saving[c].row, saving[c].text) = {}
    <2>1. /\ saving' = [saving EXCEPT ![c].step = "checked"]
          /\ raced' = (raced \/ \E d \in Crawl : PassedFor(d, OwnerOfRow(saving[c].row)))
      BY <1>3 DEF CheckPost
    <2>2. saving'[c].row = saving[c].row /\ saving'[c].text = saving[c].text
      BY <1>1, <2>1 DEF PostTypeOK, Saving
    <2>3. \A d \in Crawl : d # c => saving'[d] = saving[d]
      BY <2>1, <1>1 DEF PostTypeOK
    <2>4. CASE raced'
      BY <2>4 DEF PostInv
    <2>5. CASE ~raced'
      <3>1. NoDuplicatePost /\ GuardStillTrue /\ OneAtATime
        BY <2>1, <2>5 DEF PostInv
      <3>2. \A d \in Crawl : saving[d].step = "checked" =>
                OwnerOfRow(saving[d].row) # OwnerOfRow(saving[c].row)
        BY <2>1, <2>5 DEF PassedFor
      <3>3. \A q \in Row : (q # saving[c].row /\ OwnerOfRow(q) = OwnerOfRow(saving[c].row)) =>
                docs[q] # saving[c].text
        BY <1>3 DEF Duplicates
      <3>4. GuardStillTrue'
        BY <1>1, <2>2, <2>3, <3>1, <3>3 DEF GuardStillTrue
      <3>5. OneAtATime'
        BY <2>2, <2>3, <3>1, <3>2 DEF OneAtATime
      <3>6. NoDuplicatePost'
        BY <1>1, <3>1 DEF NoDuplicatePost
      <3>7. QED
        BY <3>4, <3>5, <3>6 DEF PostInv
    <2>6. QED
      BY <2>4, <2>5
  <1>4. QED
    BY <1>2, <1>3

LEMMA UpsertInv ==
  ASSUME PostInv, PostTypeOK', NEW c \in Crawl, UpsertPost(c)
  PROVE  PostInv'
  <1> DEFINE own == saving[c].row
             text == saving[c].text
  <1>1. PostTypeOK /\ saving[c] \in Saving /\ own \in Row
    BY AtPost, NoSaveStep DEF UpsertPost, PostInv, Saving
  <1>2. docs' = [docs EXCEPT ![own] = text] /\ saving' = [saving EXCEPT ![c] = NoSave] /\ raced' = raced
    BY DEF UpsertPost
  <1>3. CASE raced
    BY <1>2, <1>3 DEF PostInv
  <1>4. CASE ~raced
    <2>1. NoDuplicatePost /\ GuardStillTrue /\ OneAtATime
      BY <1>4 DEF PostInv
    <2>2. \A q \in Row : q # own /\ OwnerOfRow(q) = OwnerOfRow(own) => docs[q] # text
      BY <2>1 DEF GuardStillTrue, UpsertPost
    <2>3. \A q \in Row : docs'[q] = IF q = own THEN text ELSE docs[q]
      BY <1>1, <1>2 DEF PostTypeOK
    <2>4. \A d \in Crawl : saving'[d].step = "checked" => d # c /\ saving'[d] = saving[d]
      BY <1>1, <1>2, NoSaveStep DEF PostTypeOK
    <2>5. NoDuplicatePost'
      <3>1. ASSUME NEW r \in Row, NEW q \in Row, r # q, OwnerOfRow(r) = OwnerOfRow(q), docs'[r] # NoText
            PROVE  docs'[r] # docs'[q]
        BY <2>1, <2>2, <2>3, <3>1 DEF NoDuplicatePost
      <3>2. QED
        BY <3>1 DEF NoDuplicatePost
    <2>6. ASSUME NEW d \in Crawl, saving'[d].step = "checked",
                 NEW q \in Row, q # saving'[d].row,
                 OwnerOfRow(q) = OwnerOfRow(saving'[d].row)
          PROVE  docs'[q] # saving'[d].text
      <3>1. d # c /\ saving'[d] = saving[d] /\ saving[d].step = "checked"
        BY <2>4, <2>6
      <3>2. OwnerOfRow(saving[d].row) # OwnerOfRow(own)
        BY <2>1, <3>1 DEF OneAtATime, UpsertPost
      <3>3. docs[q] # saving[d].text
        BY <2>1, <2>6, <3>1 DEF GuardStillTrue
      <3>4. q # own
        BY <2>6, <3>1, <3>2
      <3>5. QED
        BY <2>3, <3>1, <3>3, <3>4
    <2>7. GuardStillTrue'
      BY <2>6 DEF GuardStillTrue
    <2>8. OneAtATime'
      BY <2>1, <2>4 DEF OneAtATime
    <2>9. QED
      BY <2>5, <2>7, <2>8 DEF PostInv
  <1>5. QED
    BY <1>3, <1>4

LEMMA PostNextInv == PostInv /\ [PostNext]_postVars => PostInv'
  <1> SUFFICES ASSUME PostInv, [PostNext]_postVars PROVE PostInv'
    OBVIOUS
  <1>1. PostTypeOK /\ PostTypeOK'
    BY PostNextType DEF PostInv
  <1>2. ASSUME NEW p \in Post, NEW text \in Content, EditPost(p, text) PROVE PostInv'
    BY <1>1, <1>2, RowsKept DEF EditPost
  <1>3. ASSUME NEW c \in Crawl, NEW r \in Row, FetchPost(c, r) PROVE PostInv'
    <2>1. \A d \in Crawl : saving'[d] = saving[d] \/ saving'[d].step # "checked"
      BY <1>1, <1>3 DEF FetchPost, PostTypeOK
    <2>2. QED
      BY <1>1, <1>3, <2>1, RowsKept DEF FetchPost
  <1>4. ASSUME NEW c \in Crawl, AbortPost(c) PROVE PostInv'
    <2>1. \A d \in Crawl : saving'[d] = saving[d] \/ saving'[d].step # "checked"
      BY <1>1, <1>4, NoSaveStep DEF AbortPost, PostTypeOK
    <2>2. QED
      BY <1>1, <1>4, <2>1, RowsKept DEF AbortPost
  <1>5. CASE UNCHANGED postVars
    BY <1>1, <1>5, RowsKept DEF postVars
  <1>6. QED
    BY <1>1, <1>2, <1>3, <1>4, <1>5, CheckInv, UpsertInv DEF PostNext

\* Until two saves for one owner are between guard and commit, the guard of
\* save_post does what its comment promises: no two rows of an owner have the
\* same content, however posts are edited and crawls die.
THEOREM GuardSuffices == PostSpec => []DuplicatesOnlyByRace
  <1>1. PostInv => DuplicatesOnlyByRace
    BY DEF PostInv, DuplicatesOnlyByRace
  <1>2. QED
    BY PostInitInv, PostNextInv, <1>1, PTL DEF PostSpec

(***************************************************************************)
(* The loop over the comments                                              *)
(***************************************************************************)

\* What the loop starts with, and what it makes of the first n comments.
MergeStart(c) == [rows |-> rows, claim |-> crawl[c].claim, new |-> {},
                  seen |-> {id \in Comment : crawl[c].base[id] # NoText}]
LoopIs(c, f, n) ==
    f = [i \in 0..n |-> IF i = 0 THEN MergeStart(c) ELSE One(crawl[c].base, f[i - 1], crawl[c].list[i])]

LEMMA LoopExists ==
  ASSUME NEW c
  PROVE  \A n \in Nat : \E f : LoopIs(c, f, n)
  <1> DEFINE S == {n \in Nat : \E f : LoopIs(c, f, n)}
  <1>1. 0 \in S
    <2> DEFINE f == [i \in 0..0 |-> MergeStart(c)]
    <2>1. LoopIs(c, f, 0)
      BY DEF LoopIs
    <2>2. QED
      BY <2>1
  <1>2. ASSUME NEW n \in Nat, n \in S PROVE n + 1 \in S
    <2>1. PICK f : LoopIs(c, f, n)
      BY <1>2
    <2> DEFINE last == One(crawl[c].base, f[n], crawl[c].list[n + 1])
               g == [i \in 0..(n + 1) |-> IF i = n + 1 THEN last ELSE f[i]]
               h == [i \in 0..(n + 1) |-> IF i = 0 THEN MergeStart(c) ELSE One(crawl[c].base, g[i - 1], crawl[c].list[i])]
    <2>2. ASSUME NEW i \in 0..(n + 1) PROVE g[i] = h[i]
      <3>1. CASE i = n + 1
        <4>1. g[i - 1] = f[n] /\ i # 0
          BY <3>1
        <4>2. h[i] = last
          BY <3>1, <4>1
        <4>3. QED
          BY <3>1, <4>2
      <3>2. CASE i \in 0..n
        <4>1. f[i] = IF i = 0 THEN MergeStart(c) ELSE One(crawl[c].base, f[i - 1], crawl[c].list[i])
          BY <2>1, <3>2 DEF LoopIs
        <4>2. i # 0 => g[i - 1] = f[i - 1]
          BY <3>2
        <4>3. g[i] = f[i]
          BY <3>2
        <4>4. QED
          BY <4>1, <4>2, <4>3
      <3>3. QED
        BY <3>1, <3>2
    <2>3. g = h
      BY <2>2
    <2>4. LoopIs(c, g, n + 1)
      BY <2>3 DEF LoopIs
    <2>5. QED
      BY <2>4
  <1>3. QED
    BY <1>1, <1>2, SetInduction

LEMMA LoopOf ==
  ASSUME NEW c, Len(crawl[c].list) \in Nat
  PROVE  \E f : LoopIs(c, f, Len(crawl[c].list)) /\ MergeComments(c) = f[Len(crawl[c].list)]
  <1> DEFINE f == CHOOSE f : LoopIs(c, f, Len(crawl[c].list))
  <1>1. LoopIs(c, f, Len(crawl[c].list))
    BY LoopExists
  <1>2. MergeComments(c) = f[Len(crawl[c].list)]
    BY DEF MergeComments, LoopIs, MergeStart
  <1>3. QED
    BY <1>1, <1>2

(***************************************************************************)
(* One comment of the loop                                                 *)
(***************************************************************************)

RowTexts == [Comment -> Text \union {NoText}]
Claims == [Slot -> Comment \union {NoRow}]
Merging == [rows : RowTexts, claim : Claims, new : SUBSET Comment, seen : SUBSET Comment]

LEMMA CommentParts ==
  ASSUME NEW id \in Comment
  PROVE  /\ SlotOf(id) \in Slot /\ TextOf(id) \in Text /\ TextOf(id) # NoText /\ id # NoRow
         /\ id = <<SlotOf(id), TextOf(id)>>
  BY TextAssumption, NoRowAssumption DEF Comment, SlotOf, TextOf

LEMMA OneStep ==
  ASSUME NEW base \in RowTexts, NEW m \in Merging, NEW id \in Comment
  PROVE  LET row == m.claim[SlotOf(id)]
             next == One(base, m, id)
         IN  /\ next \in Merging
             /\ \/ next = m /\ (id \in m.seen \/ (row = NoRow /\ m.rows[id] # NoText))
                \/ /\ id \notin m.seen /\ row \in Comment
                   /\ next.rows = [m.rows EXCEPT ![row] =
                                      IF base[row] # TextOf(id) THEN TextOf(id) ELSE m.rows[row]]
                   /\ next.claim = [m.claim EXCEPT ![SlotOf(id)] = NoRow]
                   /\ next.new = m.new /\ next.seen = m.seen \union {id}
                \/ /\ id \notin m.seen /\ row = NoRow /\ m.rows[id] = NoText
                   /\ next.rows = [m.rows EXCEPT ![id] = TextOf(id)]
                   /\ next.claim = m.claim
                   /\ next.new = m.new \union {id} /\ next.seen = m.seen \union {id}
  <1> DEFINE row == m.claim[SlotOf(id)]
             text == IF base[row] # TextOf(id) THEN TextOf(id) ELSE m.rows[row]
             edited == [rows |-> [m.rows EXCEPT ![row] = text], claim |-> [m.claim EXCEPT ![SlotOf(id)] = NoRow],
                        new |-> m.new, seen |-> m.seen \union {id}]
             inserted == [rows |-> [m.rows EXCEPT ![id] = TextOf(id)], claim |-> m.claim,
                          new |-> m.new \union {id}, seen |-> m.seen \union {id}]
  <1>1. /\ m.rows \in RowTexts /\ m.claim \in Claims /\ m.new \subseteq Comment /\ m.seen \subseteq Comment
        /\ m = [rows |-> m.rows, claim |-> m.claim, new |-> m.new, seen |-> m.seen]
    BY DEF Merging
  <1>2. SlotOf(id) \in Slot /\ TextOf(id) \in Text
    BY CommentParts
  <1>3. row \in Comment \union {NoRow}
    BY <1>1, <1>2 DEF Claims
  <1>4. CASE id \in m.seen \/ (row = NoRow /\ m.rows[id] # NoText)
    <2>1. One(base, m, id) = m
      BY <1>4 DEF One
    <2> HIDE DEF row, text, edited, inserted
    <2>2. One(base, m, id) \in Merging
      BY <2>1
    <2>3. QED
      BY <1>4, <2>1, <2>2 DEF row
  <1>5. CASE id \notin m.seen /\ row # NoRow
    <2>1. row \in Comment /\ text \in Text \union {NoText}
      BY <1>1, <1>2, <1>3, <1>5 DEF RowTexts
    <2>2. One(base, m, id) = [m EXCEPT !.rows[row] = text, !.claim[SlotOf(id)] = NoRow, !.seen = m.seen \union {id}]
      BY <1>5 DEF One
    <2>3. One(base, m, id) = edited
      BY <1>1, <2>2 DEF Merging
    <2>4. [m.rows EXCEPT ![row] = text] \in RowTexts
      BY <1>1, <2>1 DEF RowTexts
    <2>5. [m.claim EXCEPT ![SlotOf(id)] = NoRow] \in Claims
      BY <1>1 DEF Claims
    <2>6. edited \in Merging
      BY <1>1, <2>4, <2>5 DEF Merging
    <2>7. QED
      BY <1>5, <2>1, <2>3, <2>6
  <1>6. CASE id \notin m.seen /\ row = NoRow /\ m.rows[id] = NoText
    <2>1. One(base, m, id) = [m EXCEPT !.rows[id] = TextOf(id), !.seen = m.seen \union {id}, !.new = m.new \union {id}]
      BY <1>6 DEF One
    <2>2. One(base, m, id) = inserted
      BY <1>1, <2>1 DEF Merging
    <2>3. [m.rows EXCEPT ![id] = TextOf(id)] \in RowTexts
      BY <1>1, <1>2 DEF RowTexts
    <2>4. inserted \in Merging
      BY <1>1, <2>3 DEF Merging
    <2>5. QED
      BY <1>6, <2>2, <2>4
  <1>7. QED
    BY <1>4, <1>5, <1>6

(***************************************************************************)
(* Comments are reported once                                              *)
(***************************************************************************)

CrawlState == [phase : {"idle", "fetched", "read"}, list : Seq(Comment), base : RowTexts, claim : Claims]

CommentInv ==
    /\ habit \in Habits
    /\ live \subseteq posted /\ posted \subseteq Comment /\ IsFiniteSet(posted)
    /\ rows \in RowTexts /\ reported \in [Comment -> Nat]
    /\ crawl \in [Crawl -> CrawlState]
    /\ \A c \in Crawl :
          /\ ToSet(crawl[c].list) \subseteq posted
          /\ crawl[c].phase = "idle" => crawl[c] = NoCrawl
          /\ \A s \in Slot :
                LET row == crawl[c].claim[s]
                IN  row # NoRow => SlotOf(row) = s /\ rows[row] # NoText
    /\ ReportedOnce

\* What the loop has done to the rows so far.
LoopOK(m) ==
    /\ m \in Merging
    /\ \A id \in Comment :
          /\ m.rows[id] # NoText <=> (rows[id] # NoText \/ id \in m.new)
          /\ id \in m.new => rows[id] = NoText
    /\ \A s \in Slot : m.claim[s] # NoRow => rows[m.claim[s]] # NoText /\ SlotOf(m.claim[s]) = s

LEMMA LoopStep ==
  ASSUME NEW base \in RowTexts, NEW m, LoopOK(m), NEW id \in Comment
  PROVE  LoopOK(One(base, m, id))
  <1> DEFINE row == m.claim[SlotOf(id)]
             next == One(base, m, id)
  <1>1. m \in Merging /\ next \in Merging
    BY OneStep DEF LoopOK
  <1>2. m.rows \in RowTexts /\ m.claim \in Claims /\ next.rows \in RowTexts /\ next.claim \in Claims
    BY <1>1 DEF Merging
  <1>3. SlotOf(id) \in Slot /\ TextOf(id) # NoText
    BY CommentParts
  <1>4. CASE next = m
    BY <1>4
  <1>5. CASE /\ row \in Comment
             /\ next.rows = [m.rows EXCEPT ![row] =
                                IF base[row] # TextOf(id) THEN TextOf(id) ELSE m.rows[row]]
             /\ next.claim = [m.claim EXCEPT ![SlotOf(id)] = NoRow]
             /\ next.new = m.new
    <2>1. rows[row] # NoText
      BY <1>3, <1>5, CommentParts DEF LoopOK
    <2>2. m.rows[row] # NoText
      BY <1>5, <2>1 DEF LoopOK
    <2>3. \A x \in Comment : next.rows[x] # NoText <=> m.rows[x] # NoText
      BY <1>2, <1>3, <1>5, <2>2 DEF RowTexts
    <2>4. \A s \in Slot : next.claim[s] # NoRow => next.claim[s] = m.claim[s]
      BY <1>2, <1>5 DEF Claims
    <2> HIDE DEF next, row
    <2>5. \A x \in Comment :
             /\ next.rows[x] # NoText <=> (rows[x] # NoText \/ x \in next.new)
             /\ x \in next.new => rows[x] = NoText
      BY <1>5, <2>3 DEF LoopOK
    <2>6. \A s \in Slot : next.claim[s] # NoRow => rows[next.claim[s]] # NoText /\ SlotOf(next.claim[s]) = s
      BY <2>4 DEF LoopOK
    <2>7. LoopOK(next)
      BY <1>1, <2>5, <2>6 DEF LoopOK
    <2>8. QED
      BY <2>7 DEF next
  <1>6. CASE /\ m.rows[id] = NoText
             /\ next.rows = [m.rows EXCEPT ![id] = TextOf(id)]
             /\ next.claim = m.claim
             /\ next.new = m.new \union {id}
    <2>1. \A x \in Comment : next.rows[x] # NoText <=> (m.rows[x] # NoText \/ x = id)
      BY <1>2, <1>3, <1>6 DEF RowTexts
    <2> HIDE DEF next, row
    <2>2. \A x \in Comment :
             /\ next.rows[x] # NoText <=> (rows[x] # NoText \/ x \in next.new)
             /\ x \in next.new => rows[x] = NoText
      BY <1>6, <2>1 DEF LoopOK
    <2>3. \A s \in Slot : next.claim[s] # NoRow => rows[next.claim[s]] # NoText /\ SlotOf(next.claim[s]) = s
      BY <1>6 DEF LoopOK
    <2>4. LoopOK(next)
      BY <1>1, <2>2, <2>3 DEF LoopOK
    <2>5. QED
      BY <2>4 DEF next
  <1>7. QED
    BY <1>4, <1>5, <1>6, <1>1, OneStep DEF LoopOK

LEMMA ListOf ==
  ASSUME CommentInv, NEW c \in Crawl
  PROVE  /\ crawl[c] \in CrawlState
         /\ Len(crawl[c].list) \in Nat /\ DOMAIN crawl[c].list = 1..Len(crawl[c].list)
         /\ \A i \in 1..Len(crawl[c].list) : crawl[c].list[i] \in Comment /\ crawl[c].list[i] \in posted
         /\ \A id \in ToSet(crawl[c].list) : \E i \in 1..Len(crawl[c].list) : id = crawl[c].list[i]
  <1>1. crawl[c] \in CrawlState /\ crawl[c].list \in Seq(Comment) /\ ToSet(crawl[c].list) \subseteq posted
    BY DEF CommentInv, CrawlState
  <1>2. /\ Len(crawl[c].list) \in Nat /\ DOMAIN crawl[c].list = 1..Len(crawl[c].list)
        /\ \A i \in 1..Len(crawl[c].list) : crawl[c].list[i] \in Comment
    BY <1>1
  <1>3. QED
    BY <1>1, <1>2 DEF ToSet

\* What the loop leaves.
LEMMA LoopEnds ==
  ASSUME CommentInv, NEW c \in Crawl
  PROVE  LoopOK(MergeComments(c))
  <1> DEFINE n == Len(crawl[c].list)
  <1>1. n \in Nat /\ crawl[c] \in CrawlState /\ \A i \in 1..n : crawl[c].list[i] \in Comment
    BY ListOf
  <1>2. PICK f : LoopIs(c, f, n) /\ MergeComments(c) = f[n]
    BY <1>1, LoopOf
  <1> DEFINE Done == {i \in Nat : i \in 0..n => LoopOK(f[i])}
  <1>3. 0 \in Done
    <2>1. f[0] = MergeStart(c)
      BY <1>1, <1>2 DEF LoopIs
    <2>2. rows \in RowTexts /\ crawl[c].claim \in Claims
      BY <1>1 DEF CommentInv, CrawlState
    <2>3. MergeStart(c) \in Merging
      BY <2>2 DEF MergeStart, Merging
    <2>4. /\ MergeStart(c).rows = rows /\ MergeStart(c).new = {}
          /\ MergeStart(c).claim = crawl[c].claim
      BY DEF MergeStart
    <2>5. LoopOK(MergeStart(c))
      BY <2>3, <2>4 DEF LoopOK, CommentInv
    <2>6. QED
      BY <2>1, <2>5
  <1>4. ASSUME NEW i \in Nat, i \in Done PROVE i + 1 \in Done
    <2> SUFFICES ASSUME i + 1 \in 0..n PROVE LoopOK(f[i + 1])
      OBVIOUS
    <2>1. f[i + 1] = One(crawl[c].base, f[i], crawl[c].list[i + 1])
      <3>1. i + 1 # 0 /\ (i + 1) - 1 = i
        OBVIOUS
      <3>2. QED
        BY <1>2, <3>1 DEF LoopIs
    <2>2. LoopOK(f[i]) /\ crawl[c].list[i + 1] \in Comment /\ crawl[c].base \in RowTexts
      BY <1>1, <1>4 DEF CrawlState
    <2>3. QED
      BY <2>1, <2>2, LoopStep
  <1>5. Nat \subseteq Done
    BY <1>3, <1>4, SetInduction
  <1>6. QED
    BY <1>1, <1>2, <1>5

LEMMA NoCrawlType == NoCrawl \in CrawlState /\ NoCrawl.phase = "idle" /\ NoCrawl.list = <<>>
                     /\ \A s \in Slot : NoCrawl.claim[s] = NoRow
  <1>1. [id \in Comment |-> NoText] \in RowTexts /\ [s \in Slot |-> NoRow] \in Claims /\ <<>> \in Seq(Comment)
    BY DEF RowTexts, Claims
  <1>2. QED
    BY <1>1 DEF NoCrawl, CrawlState

LEMMA CommentInitInv == CommentInit => CommentInv
  <1> SUFFICES ASSUME CommentInit PROVE CommentInv
    OBVIOUS
  <1>1. /\ habit \in Habits /\ live = {} /\ posted = {} /\ IsFiniteSet(posted)
        /\ rows \in RowTexts /\ reported \in [Comment -> Nat] /\ ReportedOnce
    BY FS_EmptySet DEF CommentInit, RowTexts, ReportedOnce
  <1>2. \A c \in Crawl : crawl[c] = NoCrawl
    BY DEF CommentInit
  <1>3. crawl \in [Crawl -> CrawlState]
    BY NoCrawlType DEF CommentInit
  <1>4. ToSet(<<>>) = {}
    BY DEF ToSet
  <1>5. QED
    BY <1>1, <1>2, <1>3, <1>4, NoCrawlType DEF CommentInv

\* A step of Facebook.
LEMMA FacebookInv ==
  ASSUME CommentInv, live' \subseteq posted', posted \subseteq posted', posted' \subseteq Comment,
         IsFiniteSet(posted'), UNCHANGED <<habit, rows, crawl, reported>>
  PROVE  CommentInv'
  BY DEF CommentInv, ReportedOnce

\* A crawl that goes on, and takes no row that is not stored.
LEMMA CrawlInv ==
  ASSUME CommentInv, NEW c \in Crawl, NEW k \in CrawlState, crawl' = [crawl EXCEPT ![c] = k],
         UNCHANGED <<habit, live, posted, rows, reported>>,
         ToSet(k.list) \subseteq posted, k.phase = "idle" => k = NoCrawl,
         \A s \in Slot : k.claim[s] # NoRow => SlotOf(k.claim[s]) = s /\ rows[k.claim[s]] # NoText
  PROVE  CommentInv'
  <1>1. /\ crawl' \in [Crawl -> CrawlState] /\ crawl'[c] = k
        /\ \A d \in Crawl : d # c => crawl'[d] = crawl[d]
    BY DEF CommentInv
  <1>2. ASSUME NEW d \in Crawl
        PROVE  /\ ToSet(crawl'[d].list) \subseteq posted
               /\ crawl'[d].phase = "idle" => crawl'[d] = NoCrawl
               /\ \A s \in Slot : crawl'[d].claim[s] # NoRow =>
                      SlotOf(crawl'[d].claim[s]) = s /\ rows[crawl'[d].claim[s]] # NoText
    BY <1>1 DEF CommentInv
  <1>3. QED
    BY <1>1, <1>2 DEF CommentInv, ReportedOnce

LEMMA FetchCommentsInv ==
  ASSUME CommentInv, NEW c \in Crawl, FetchComments(c)
  PROVE  CommentInv'
  <1>1. PICK S \in SUBSET live \ {{}} : \E list \in SetToSeqs(S) :
            crawl' = [crawl EXCEPT ![c] = [NoCrawl EXCEPT !.phase = "fetched", !.list = list]]
    BY DEF FetchComments
  <1>2. PICK list \in SetToSeqs(S) :
            crawl' = [crawl EXCEPT ![c] = [NoCrawl EXCEPT !.phase = "fetched", !.list = list]]
    BY <1>1
  <1>3. S \subseteq Comment /\ S \subseteq posted /\ IsFiniteSet(S)
    BY <1>1, FS_Subset DEF CommentInv
  <1>4. list \in Seq(Comment) /\ ToSet(list) \subseteq posted
    BY <1>2, <1>3, ListType
  <1> DEFINE k == [NoCrawl EXCEPT !.phase = "fetched", !.list = list]
  <1>5. k \in CrawlState /\ k.phase = "fetched" /\ k.list = list /\ k.claim = NoCrawl.claim
    BY <1>4, NoCrawlType DEF CrawlState
  <1>6. crawl' = [crawl EXCEPT ![c] = k] /\ UNCHANGED <<habit, live, posted, rows, reported>>
    BY <1>2 DEF FetchComments
  <1> HIDE DEF k
  <1>7. QED
    BY <1>4, <1>5, <1>6, NoCrawlType, CrawlInv

\* What a crawl has read: the rows, and a row of every slot that has one.
LEMMA ReadStep ==
  ASSUME CommentInv, NEW c \in Crawl, ReadRows(c)
  PROVE  /\ UNCHANGED <<habit, live, posted, rows, reported>>
         /\ \E k \in CrawlState :
               /\ crawl' = [crawl EXCEPT ![c] = k]
               /\ k.phase = "read" /\ k.list = crawl[c].list /\ k.base = rows
               /\ \A s \in Slot : IF Stored(s) = {} THEN k.claim[s] = NoRow ELSE k.claim[s] \in Stored(s)
  <1>1. PICK claim \in Claims :
          /\ \A s \in Slot : IF Stored(s) = {} THEN claim[s] = NoRow ELSE claim[s] \in Stored(s)
          /\ crawl' = [crawl EXCEPT ![c] = [crawl[c] EXCEPT !.phase = "read", !.base = rows, !.claim = claim]]
    BY DEF ReadRows, Claims, CommentInv
  <1> DEFINE k == [crawl[c] EXCEPT !.phase = "read", !.base = rows, !.claim = claim]
  <1>2. crawl[c] \in CrawlState /\ rows \in RowTexts
    BY DEF CommentInv
  <1>3. k \in CrawlState /\ k.phase = "read" /\ k.list = crawl[c].list /\ k.base = rows /\ k.claim = claim
    BY <1>1, <1>2 DEF CrawlState
  <1>4. crawl' = [crawl EXCEPT ![c] = k] /\ UNCHANGED <<habit, live, posted, rows, reported>>
    BY <1>1 DEF ReadRows
  <1> HIDE DEF k
  <1>5. QED
    BY <1>1, <1>3, <1>4

LEMMA ReadInv ==
  ASSUME CommentInv, NEW c \in Crawl, ReadRows(c)
  PROVE  CommentInv'
  <1>1. PICK k \in CrawlState :
          /\ crawl' = [crawl EXCEPT ![c] = k]
          /\ k.phase = "read" /\ k.list = crawl[c].list
          /\ \A s \in Slot : IF Stored(s) = {} THEN k.claim[s] = NoRow ELSE k.claim[s] \in Stored(s)
    BY ReadStep
  <1>2. \A s \in Slot : k.claim[s] # NoRow => SlotOf(k.claim[s]) = s /\ rows[k.claim[s]] # NoText
    BY <1>1 DEF Stored
  <1>3. ToSet(k.list) \subseteq posted /\ UNCHANGED <<habit, live, posted, rows, reported>>
    BY <1>1, ReadStep DEF CommentInv
  <1>4. QED
    BY <1>1, <1>2, <1>3, CrawlInv

LEMMA CommitInv ==
  ASSUME CommentInv, NEW c \in Crawl, CommitComments(c)
  PROVE  CommentInv'
  <1> DEFINE m == MergeComments(c)
  <1>1. LoopOK(m)
    BY LoopEnds
  <1>2. /\ rows' = m.rows /\ crawl' = [crawl EXCEPT ![c] = NoCrawl] /\ UNCHANGED <<habit, live, posted>>
        /\ reported' = [id \in Comment |-> IF id \in m.new THEN reported[id] + 1 ELSE reported[id]]
    BY DEF CommitComments
  <1> HIDE DEF m
  <1>3. m.rows \in RowTexts
    BY <1>1 DEF LoopOK, Merging
  <1>4. \A id \in Comment :
          /\ rows'[id] # NoText <=> (rows[id] # NoText \/ id \in m.new)
          /\ id \in m.new => rows[id] = NoText
    BY <1>1, <1>2 DEF LoopOK
  <1>5. reported \in [Comment -> Nat] /\ \A id \in Comment : reported[id] = IF rows[id] # NoText THEN 1 ELSE 0
    BY DEF CommentInv, ReportedOnce
  <1>6. reported' \in [Comment -> Nat]
    BY <1>2, <1>5
  <1>7. ReportedOnce'
    <2>1. ASSUME NEW id \in Comment PROVE reported'[id] = IF rows'[id] # NoText THEN 1 ELSE 0
      <3>1. reported'[id] = IF id \in m.new THEN reported[id] + 1 ELSE reported[id]
        BY <1>2
      <3>2. QED
        BY <3>1, <1>4, <1>5
    <2>2. QED
      BY <2>1 DEF ReportedOnce
  <1>8. /\ crawl' \in [Crawl -> CrawlState] /\ crawl'[c] = NoCrawl
        /\ \A d \in Crawl : d # c => crawl'[d] = crawl[d]
    BY <1>2, NoCrawlType DEF CommentInv
  <1>9. ToSet(<<>>) = {}
    BY DEF ToSet
  <1>10. ASSUME NEW d \in Crawl
         PROVE  /\ ToSet(crawl'[d].list) \subseteq posted
                /\ crawl'[d].phase = "idle" => crawl'[d] = NoCrawl
                /\ \A s \in Slot : crawl'[d].claim[s] # NoRow =>
                       SlotOf(crawl'[d].claim[s]) = s /\ rows'[crawl'[d].claim[s]] # NoText
    <2>1. CASE d = c
      BY <1>8, <1>9, <2>1, NoCrawlType
    <2>2. CASE d # c
      <3>1. crawl'[d] = crawl[d] /\ crawl[d] \in CrawlState
        BY <1>8, <2>2 DEF CommentInv
      <3>2. ASSUME NEW s \in Slot, crawl[d].claim[s] # NoRow
            PROVE  SlotOf(crawl[d].claim[s]) = s /\ rows'[crawl[d].claim[s]] # NoText
        <4>1. crawl[d].claim[s] \in Comment
          BY <3>1, <3>2 DEF CrawlState, Claims
        <4>2. SlotOf(crawl[d].claim[s]) = s /\ rows[crawl[d].claim[s]] # NoText
          BY <3>2 DEF CommentInv
        <4>3. QED
          BY <1>4, <4>1, <4>2
      <3>3. QED
        BY <3>1, <3>2 DEF CommentInv
    <2>3. QED
      BY <2>1, <2>2
  <1>11. QED
    BY <1>2, <1>3, <1>6, <1>7, <1>8, <1>10 DEF CommentInv

LEMMA CommentStep == CommentInv /\ [CommentNext]_commentVars => CommentInv'
  <1> SUFFICES ASSUME CommentInv, [CommentNext]_commentVars PROVE CommentInv'
    OBVIOUS
  <1>1. ASSUME NEW id \in Comment, NEW old \in Comment,
               WriteComment(id) \/ WithdrawComment(id) \/ EditComment(old, id)
        PROVE  CommentInv'
    <2>1. /\ live' \subseteq posted' /\ posted \subseteq posted' /\ posted' \subseteq posted \union {id}
          /\ UNCHANGED <<habit, rows, crawl, reported>>
      BY <1>1 DEF WriteComment, WithdrawComment, EditComment, CommentInv
    <2>2. IsFiniteSet(posted \union {id})
      BY FS_AddElement DEF CommentInv
    <2>3. IsFiniteSet(posted') /\ posted' \subseteq Comment
      BY <2>1, <2>2, FS_Subset DEF CommentInv
    <2>4. QED
      BY <2>1, <2>3, FacebookInv
  <1>2. ASSUME NEW c \in Crawl, AbortComments(c) PROVE CommentInv'
    <2>1. ToSet(NoCrawl.list) \subseteq posted
      BY NoCrawlType DEF ToSet
    <2>2. QED
      BY <1>2, <2>1, NoCrawlType, CrawlInv DEF AbortComments
  <1>3. CASE UNCHANGED commentVars
    BY <1>3 DEF commentVars, CommentInv, ReportedOnce
  <1>4. CASE \E id \in Comment : WriteComment(id) \/ WithdrawComment(id) \/ \E old \in Comment : EditComment(old, id)
    BY <1>1, <1>4
  <1>5. QED
    BY <1>2, <1>3, <1>4, FetchCommentsInv, ReadInv, CommitInv DEF CommentNext

\* Comments, rows and crawls keep their types; what a crawl claims is a row of the slot it
\* claims it for.
THEOREM CommentTypeCorrect == CommentSpec => []CommentTypeOK
  <1>1. CommentInv => CommentTypeOK
    <2> SUFFICES ASSUME CommentInv PROVE CommentTypeOK
      OBVIOUS
    <2>1. \A c \in Crawl : crawl[c] \in CrawlState
      BY DEF CommentInv
    <2>2. ASSUME NEW c \in Crawl
          PROVE  /\ crawl[c].phase \in {"idle", "fetched", "read"}
                 /\ ToSet(crawl[c].list) \subseteq posted
                 /\ crawl[c].base \in [Comment -> Text \union {NoText}]
                 /\ \A s \in Slot : crawl[c].claim[s] = NoRow \/ SlotOf(crawl[c].claim[s]) = s
      BY <2>1 DEF CommentInv, CrawlState, RowTexts
    <2>3. QED
      BY <2>2 DEF CommentInv, CommentTypeOK, RowTexts
  <1>2. QED
    BY CommentInitInv, CommentStep, <1>1, PTL DEF CommentSpec

\* A comment is returned as new by the one crawl that inserted its row, whichever crawls
\* overlap and whatever they have read before: RETURNING of an INSERT ... ON CONFLICT DO
\* NOTHING tells the crawl that was first from the others.
THEOREM CommentsReportedOnce == CommentSpec => []ReportedOnce
  <1>1. CommentInv => ReportedOnce
    BY DEF CommentInv
  <1>2. QED
    BY CommentInitInv, CommentStep, <1>1, PTL DEF CommentSpec

(***************************************************************************)
(* Edits in place                                                          *)
(***************************************************************************)

Indices(c) == 1..Len(crawl[c].list)

\* Among the tidy: one comment in a slot of the page, of a list and of the table; one crawl
\* at a time, so what it has read is what is there; and a row that no longer has the text it
\* was stored with is nobody's any more.
Tidy ==
    /\ \A c, d \in Crawl : c # d => crawl[c].phase = "idle" \/ crawl[d].phase = "idle"
    /\ \A x, y \in live : SlotOf(x) = SlotOf(y) => x = y
    /\ \A x, y \in Comment : rows[x] # NoText /\ rows[y] # NoText /\ SlotOf(x) = SlotOf(y) => x = y
    /\ \A x \in Comment : rows[x] # NoText =>
          /\ x \in posted
          /\ rows[x] # TextOf(x) => x \notin live
    /\ \A c \in Crawl :
          /\ \A i, j \in Indices(c) : SlotOf(crawl[c].list[i]) = SlotOf(crawl[c].list[j]) => i = j
          /\ \A i \in Indices(c), x \in Comment : rows[x] # NoText =>
                IF x = crawl[c].list[i] THEN rows[x] = TextOf(x)
                ELSE SlotOf(x) = SlotOf(crawl[c].list[i]) => x \notin live
          /\ crawl[c].phase = "read" =>
                /\ crawl[c].base = rows
                /\ \A s \in Slot : IF Stored(s) = {} THEN crawl[c].claim[s] = NoRow
                                   ELSE crawl[c].claim[s] \in Stored(s)

TidyInv == CommentInv /\ (habit = "tidy" => Tidy)

\* A slot in which the crawl has left one row, with the text it saw.
SlotDone(m, id) ==
    \E row \in Comment :
        /\ SlotOf(row) = SlotOf(id) /\ m.rows[row] = TextOf(id)
        /\ \A x \in Comment : SlotOf(x) = SlotOf(id) /\ x # row => m.rows[x] = NoText
        /\ row = id \/ (rows[row] # NoText /\ rows[id] = NoText)

\* The loop has not come to the slot.
SlotUntouched(c, m, s) ==
    /\ m.claim[s] = crawl[c].claim[s]
    /\ \A x \in Comment : SlotOf(x) = s =>
          m.rows[x] = rows[x] /\ (x \in m.seen <=> rows[x] # NoText)

\* A step of the loop in a slot it has not come to.
LEMMA SlotStep ==
  ASSUME CommentInv, Tidy, NEW c \in Crawl, crawl[c].phase = "read",
         NEW i \in Indices(c), NEW m \in Merging, SlotUntouched(c, m, SlotOf(crawl[c].list[i]))
  PROVE  LET id == crawl[c].list[i]
             next == One(crawl[c].base, m, id)
         IN  /\ next \in Merging
             /\ SlotDone(next, id)
             /\ \A x \in Comment : SlotOf(x) # SlotOf(id) =>
                   next.rows[x] = m.rows[x] /\ (x \in next.seen <=> x \in m.seen)
             /\ \A s \in Slot : s # SlotOf(id) => next.claim[s] = m.claim[s]
  <1> DEFINE id == crawl[c].list[i]
             slot == SlotOf(id)
             row == crawl[c].claim[slot]
             next == One(crawl[c].base, m, id)
             Rest == /\ \A x \in Comment : SlotOf(x) # slot =>
                           next.rows[x] = m.rows[x] /\ (x \in next.seen <=> x \in m.seen)
                     /\ \A s \in Slot : s # slot => next.claim[s] = m.claim[s]
  <1>1. id \in Comment /\ slot \in Slot /\ TextOf(id) # NoText
    BY ListOf, CommentParts DEF Indices
  <1>2. crawl[c].base = rows /\ rows \in RowTexts
    BY DEF Tidy, CommentInv
  <1>3. /\ m.rows \in RowTexts /\ m.claim \in Claims /\ m.claim[slot] = row
        /\ \A x \in Comment : SlotOf(x) = slot => m.rows[x] = rows[x] /\ (x \in m.seen <=> rows[x] # NoText)
    BY DEF SlotUntouched, Merging
  <1>4. IF Stored(slot) = {} THEN row = NoRow ELSE row \in Stored(slot)
    BY <1>1 DEF Tidy
  <1>5. \A x, y \in Stored(slot) : x = y
    BY DEF Tidy, Stored
  <1>6. /\ next \in Merging
        /\ \/ next = m /\ (id \in m.seen \/ (row = NoRow /\ m.rows[id] # NoText))
           \/ /\ id \notin m.seen /\ row \in Comment
              /\ next.rows = [m.rows EXCEPT ![row] =
                                IF rows[row] # TextOf(id) THEN TextOf(id) ELSE m.rows[row]]
              /\ next.claim = [m.claim EXCEPT ![slot] = NoRow]
              /\ next.seen = m.seen \union {id}
           \/ /\ id \notin m.seen /\ row = NoRow /\ m.rows[id] = NoText
              /\ next.rows = [m.rows EXCEPT ![id] = TextOf(id)]
              /\ next.claim = m.claim
              /\ next.seen = m.seen \union {id}
    <2> DEFINE base == crawl[c].base
    <2>1. base \in RowTexts /\ base = rows
      BY <1>2
    <2>2. /\ One(base, m, id) \in Merging
          /\ \/ One(base, m, id) = m /\ (id \in m.seen \/ (m.claim[slot] = NoRow /\ m.rows[id] # NoText))
             \/ /\ id \notin m.seen /\ m.claim[slot] \in Comment
                /\ One(base, m, id).rows = [m.rows EXCEPT ![m.claim[slot]] =
                                  IF base[m.claim[slot]] # TextOf(id) THEN TextOf(id) ELSE m.rows[m.claim[slot]]]
                /\ One(base, m, id).claim = [m.claim EXCEPT ![slot] = NoRow]
                /\ One(base, m, id).seen = m.seen \union {id}
             \/ /\ id \notin m.seen /\ m.claim[slot] = NoRow /\ m.rows[id] = NoText
                /\ One(base, m, id).rows = [m.rows EXCEPT ![id] = TextOf(id)]
                /\ One(base, m, id).claim = m.claim
                /\ One(base, m, id).seen = m.seen \union {id}
      <3> HIDE DEF base, id
      <3>1. id \in Comment
        BY <1>1 DEF id
      <3>2. QED
        BY <2>1, <3>1, OneStep
    <2> HIDE DEF id, base
    <2>3. m.claim[slot] = row
      BY <1>3 DEF base
    <2>4. next = One(base, m, id)
      BY DEF base, id
    <2> HIDE DEF row, slot, next
    <2>5. QED
      BY <2>1, <2>2, <2>3, <2>4
  <1> HIDE DEF next
  <1>7. CASE next = m /\ (id \in m.seen \/ (row = NoRow /\ m.rows[id] # NoText))
    <2>1. rows[id] # NoText /\ id \in Stored(slot)
      BY <1>1, <1>3, <1>7 DEF Stored
    <2>2. rows[id] = TextOf(id)
      BY <1>1, <2>1 DEF Tidy
    <2>3. \A x \in Comment : SlotOf(x) = slot /\ x # id => m.rows[x] = NoText
      BY <1>3, <1>5, <2>1 DEF Stored
    <2>4. SlotDone(next, id)
      BY <1>1, <1>3, <1>7, <2>2, <2>3 DEF SlotDone
    <2>5. Rest
      BY <1>7
    <2>6. QED
      BY <1>6, <2>4, <2>5 DEF next
  <1>8. CASE /\ id \notin m.seen /\ row \in Comment
             /\ next.rows = [m.rows EXCEPT ![row] =
                               IF rows[row] # TextOf(id) THEN TextOf(id) ELSE m.rows[row]]
             /\ next.claim = [m.claim EXCEPT ![slot] = NoRow]
             /\ next.seen = m.seen \union {id}
    <2>1. row # NoRow /\ row \in Stored(slot) /\ rows[id] = NoText
      BY <1>1, <1>3, <1>4, <1>8, CommentParts
    <2>2. SlotOf(row) = slot /\ rows[row] # NoText /\ m.rows[row] = rows[row]
      BY <1>3, <2>1 DEF Stored
    <2>3. next.rows[row] = TextOf(id)
      BY <1>3, <1>8, <2>2 DEF RowTexts
    <2>4. \A x \in Comment : x # row => next.rows[x] = m.rows[x]
      BY <1>3, <1>8 DEF RowTexts
    <2>5. \A x \in Comment : SlotOf(x) = slot /\ x # row => next.rows[x] = NoText
      BY <1>3, <1>5, <2>1, <2>4 DEF Stored
    <2>6. SlotDone(next, id)
      BY <1>8, <2>1, <2>2, <2>3, <2>5 DEF SlotDone
    <2>7. Rest
      BY <1>3, <1>8, <2>2, <2>4 DEF Claims
    <2>8. QED
      BY <1>6, <2>6, <2>7 DEF next
  <1>9. CASE /\ id \notin m.seen /\ row = NoRow /\ m.rows[id] = NoText
             /\ next.rows = [m.rows EXCEPT ![id] = TextOf(id)]
             /\ next.claim = m.claim
             /\ next.seen = m.seen \union {id}
    <2>1. Stored(slot) = {}
      BY <1>4, <1>9, CommentParts DEF Stored
    <2>2. next.rows[id] = TextOf(id) /\ \A x \in Comment : x # id => next.rows[x] = m.rows[x]
      BY <1>1, <1>3, <1>9 DEF RowTexts
    <2>3. \A x \in Comment : SlotOf(x) = slot /\ x # id => next.rows[x] = NoText
      BY <1>3, <2>1, <2>2 DEF Stored
    <2>4. SlotDone(next, id)
      BY <1>1, <2>2, <2>3 DEF SlotDone
    <2>5. Rest
      BY <1>9, <2>2
    <2>6. QED
      BY <1>6, <2>4, <2>5 DEF next
  <1>10. QED
    BY <1>6, <1>7, <1>8, <1>9

\* How far the loop has come.
Upto(c, m, n) ==
    /\ m \in Merging
    /\ \A i \in Indices(c) : i <= n => SlotDone(m, crawl[c].list[i])
    /\ \A s \in Slot : (\A i \in Indices(c) : SlotOf(crawl[c].list[i]) = s => n < i) => SlotUntouched(c, m, s)

LEMMA TidyLoop ==
  ASSUME CommentInv, Tidy, NEW c \in Crawl, crawl[c].phase = "read"
  PROVE  Upto(c, MergeComments(c), Len(crawl[c].list))
  <1> DEFINE n == Len(crawl[c].list)
  <1>1. n \in Nat /\ crawl[c] \in CrawlState /\ \A i \in 1..n : crawl[c].list[i] \in Comment
    BY ListOf
  <1>2. PICK f : LoopIs(c, f, n) /\ MergeComments(c) = f[n]
    BY <1>1, LoopOf
  <1> DEFINE Done == {i \in Nat : i \in 0..n => Upto(c, f[i], i)}
  <1>3. 0 \in Done
    <2>1. f[0] = MergeStart(c)
      BY <1>1, <1>2 DEF LoopIs
    <2>2. rows \in RowTexts /\ crawl[c].claim \in Claims /\ crawl[c].base = rows
      BY <1>1 DEF CommentInv, CrawlState, Tidy
    <2>3. MergeStart(c) \in Merging
      BY <2>2 DEF MergeStart, Merging
    <2>4. /\ MergeStart(c).rows = rows /\ MergeStart(c).claim = crawl[c].claim
          /\ MergeStart(c).seen = {x \in Comment : rows[x] # NoText}
      BY <2>2 DEF MergeStart
    <2>5. \A s \in Slot : SlotUntouched(c, MergeStart(c), s)
      BY <2>4 DEF SlotUntouched
    <2>6. Upto(c, MergeStart(c), 0)
      BY <2>3, <2>5 DEF Upto, Indices
    <2>7. QED
      BY <2>1, <2>6
  <1>4. ASSUME NEW i \in Nat, i \in Done PROVE i + 1 \in Done
    <2> SUFFICES ASSUME i + 1 \in 0..n PROVE Upto(c, f[i + 1], i + 1)
      OBVIOUS
    <2> DEFINE id == crawl[c].list[i + 1]
               m == f[i]
               next == One(crawl[c].base, m, id)
    <2>1. f[i + 1] = next
      BY <1>1, <1>2 DEF LoopIs
    <2>2. Upto(c, m, i) /\ i + 1 \in Indices(c) /\ id \in Comment /\ SlotOf(id) \in Slot
      BY <1>1, <1>4, CommentParts DEF Indices
    <2>3. \A j \in Indices(c) : SlotOf(crawl[c].list[j]) = SlotOf(id) => j = i + 1
      BY <2>2 DEF Tidy
    <2>4. SlotUntouched(c, m, SlotOf(id))
      <3>1. \A j \in Indices(c) : SlotOf(crawl[c].list[j]) = SlotOf(id) => i < j
        BY <2>3
      <3> HIDE DEF m, id
      <3>2. QED
        BY <2>2, <3>1 DEF Upto
    <2>5. m \in Merging
      BY <2>2 DEF Upto
    <2>6. /\ next \in Merging /\ SlotDone(next, id)
          /\ \A x \in Comment : SlotOf(x) # SlotOf(id) =>
                next.rows[x] = m.rows[x] /\ (x \in next.seen <=> x \in m.seen)
          /\ \A s \in Slot : s # SlotOf(id) => next.claim[s] = m.claim[s]
      BY <2>2, <2>4, <2>5, SlotStep
    <2> HIDE DEF m, next
    <2>7. ASSUME NEW j \in Indices(c), j <= i + 1 PROVE SlotDone(next, crawl[c].list[j])
      <3>1. CASE j = i + 1
        BY <2>6, <3>1
      <3>2. CASE j <= i
        <4>1. SlotDone(m, crawl[c].list[j])
          BY <2>2, <3>2 DEF Upto
        <4>2. SlotOf(crawl[c].list[j]) # SlotOf(id)
          BY <2>3, <3>2 DEF Indices
        <4>3. QED
          BY <2>6, <4>1, <4>2 DEF SlotDone
      <3>3. QED
        BY <2>7, <3>1, <3>2 DEF Indices
    <2>8. ASSUME NEW s \in Slot, \A j \in Indices(c) : SlotOf(crawl[c].list[j]) = s => i + 1 < j
          PROVE  SlotUntouched(c, next, s)
      <3>1. s # SlotOf(id)
        BY <2>2, <2>8 DEF Indices
      <3>2. SlotUntouched(c, m, s)
        BY <2>2, <2>8 DEF Upto, Indices
      <3>3. QED
        BY <2>6, <3>1, <3>2 DEF SlotUntouched
    <2>9. QED
      BY <2>1, <2>6, <2>7, <2>8 DEF Upto
  <1>5. Nat \subseteq Done
    BY <1>3, <1>4, SetInduction
  <1>6. QED
    BY <1>1, <1>2, <1>5

\* A step of Facebook: what is new on the page never was there.
LEMMA TidyFacebook ==
  ASSUME Tidy, UNCHANGED <<rows, crawl>>, posted \subseteq posted',
         \A x \in live' : x \in live \/ x \notin posted,
         \A x, y \in live' : SlotOf(x) = SlotOf(y) => x = y
  PROVE  Tidy'
  <1>1. \A s : Stored(s)' = Stored(s)
    BY DEF Stored
  <1>2. \A c : Indices(c)' = Indices(c)
    BY DEF Indices
  <1>3. \A x \in Comment : rows[x] # NoText => x \in posted /\ (x \in live' => x \in live)
    BY DEF Tidy
  <1>4. \A x \in Comment : rows'[x] # NoText =>
          /\ x \in posted'
          /\ rows'[x] # TextOf(x) => x \notin live'
    BY <1>3 DEF Tidy
  <1>5. ASSUME NEW c \in Crawl, NEW i \in Indices(c)', NEW x \in Comment, rows'[x] # NoText
        PROVE  IF x = crawl'[c].list[i] THEN rows'[x] = TextOf(x)
               ELSE SlotOf(x) = SlotOf(crawl'[c].list[i]) => x \notin live'
    BY <1>2, <1>3, <1>5 DEF Tidy
  <1>6. QED
    BY <1>1, <1>2, <1>4, <1>5 DEF Tidy

\* What a crawl may have fetched and read.
CrawlOK(k) ==
    /\ \A i, j \in 1..Len(k.list) : SlotOf(k.list[i]) = SlotOf(k.list[j]) => i = j
    /\ \A i \in 1..Len(k.list), x \in Comment : rows[x] # NoText =>
          IF x = k.list[i] THEN rows[x] = TextOf(x)
          ELSE SlotOf(x) = SlotOf(k.list[i]) => x \notin live
    /\ k.phase = "read" =>
          /\ k.base = rows
          /\ \A s \in Slot : IF Stored(s) = {} THEN k.claim[s] = NoRow ELSE k.claim[s] \in Stored(s)

LEMMA CrawlsOK == Tidy => \A c \in Crawl : CrawlOK(crawl[c])
  BY DEF Tidy, CrawlOK, Indices

LEMMA NoCrawlOK == CrawlOK(NoCrawl)
  <1>1. NoCrawl.list = <<>> /\ Len(<<>>) = 0 /\ NoCrawl.phase = "idle"
    BY NoCrawlType
  <1>2. QED
    BY <1>1 DEF CrawlOK

LEMMA TidyCrawl ==
  ASSUME Tidy, CommentInv, NEW c \in Crawl, NEW k \in CrawlState, crawl' = [crawl EXCEPT ![c] = k],
         UNCHANGED <<live, posted, rows>>, CrawlOK(k),
         k.phase = "idle" \/ \A d \in Crawl : d # c => crawl[d].phase = "idle"
  PROVE  Tidy'
  <1>1. crawl'[c] = k /\ \A d \in Crawl : d # c => crawl'[d] = crawl[d]
    BY DEF CommentInv
  <1>2. \A s : Stored(s)' = Stored(s)
    BY DEF Stored
  <1>3. ASSUME NEW a \in Crawl, NEW b \in Crawl, a # b
        PROVE  crawl'[a].phase = "idle" \/ crawl'[b].phase = "idle"
    BY <1>1, <1>3 DEF Tidy
  <1>4. \A d \in Crawl : CrawlOK(crawl'[d])
    BY <1>1, CrawlsOK
  <1>5. /\ \A x, y \in live' : SlotOf(x) = SlotOf(y) => x = y
        /\ \A x, y \in Comment : rows'[x] # NoText /\ rows'[y] # NoText /\ SlotOf(x) = SlotOf(y) => x = y
        /\ \A x \in Comment : rows'[x] # NoText =>
              /\ x \in posted'
              /\ rows'[x] # TextOf(x) => x \notin live'
    BY DEF Tidy
  <1>6. ASSUME NEW d \in Crawl
        PROVE  /\ \A i, j \in Indices(d)' : SlotOf(crawl'[d].list[i]) = SlotOf(crawl'[d].list[j]) => i = j
               /\ \A i \in Indices(d)', x \in Comment : rows'[x] # NoText =>
                     IF x = crawl'[d].list[i] THEN rows'[x] = TextOf(x)
                     ELSE SlotOf(x) = SlotOf(crawl'[d].list[i]) => x \notin live'
               /\ crawl'[d].phase = "read" =>
                     /\ crawl'[d].base = rows'
                     /\ \A s \in Slot : IF Stored(s)' = {} THEN crawl'[d].claim[s] = NoRow
                                        ELSE crawl'[d].claim[s] \in Stored(s)'
    BY <1>2, <1>4 DEF CrawlOK, Indices
  <1>7. QED
    BY <1>3, <1>5, <1>6 DEF Tidy

LEMMA TidyFetch ==
  ASSUME Tidy, CommentInv, habit = "tidy", NEW c \in Crawl, FetchComments(c)
  PROVE  Tidy'
  <1>1. PICK S \in SUBSET live \ {{}} : \E list \in SetToSeqs(S) :
            crawl' = [crawl EXCEPT ![c] = [NoCrawl EXCEPT !.phase = "fetched", !.list = list]]
    BY DEF FetchComments
  <1>2. PICK list \in SetToSeqs(S) :
            crawl' = [crawl EXCEPT ![c] = [NoCrawl EXCEPT !.phase = "fetched", !.list = list]]
    BY <1>1
  <1>3. S \subseteq Comment /\ S \subseteq live /\ IsFiniteSet(S)
    BY <1>1, FS_Subset DEF CommentInv
  <1>4. /\ list \in Seq(Comment)
        /\ \A i, j \in 1..Len(list) : list[i] \in live /\ list[i] \in Comment /\ (i # j => list[i] # list[j])
    BY <1>2, <1>3, ListType
  <1> DEFINE k == [NoCrawl EXCEPT !.phase = "fetched", !.list = list]
  <1>5. k \in CrawlState /\ k.phase = "fetched" /\ k.list = list
    BY <1>4, NoCrawlType DEF CrawlState
  <1>6. /\ crawl' = [crawl EXCEPT ![c] = k] /\ UNCHANGED <<live, posted, rows>>
        /\ \A d \in Crawl : crawl[d].phase = "idle"
    BY <1>2 DEF FetchComments
  <1> HIDE DEF k
  <1>7. \A i, j \in 1..Len(list) : SlotOf(list[i]) = SlotOf(list[j]) => i = j
    BY <1>4 DEF Tidy
  <1>8. ASSUME NEW i \in 1..Len(list), NEW x \in Comment, rows[x] # NoText
        PROVE  IF x = list[i] THEN rows[x] = TextOf(x)
               ELSE SlotOf(x) = SlotOf(list[i]) => x \notin live
    <2>1. list[i] \in live /\ list[i] \in Comment
      BY <1>4
    <2>2. x \in live => rows[x] = TextOf(x)
      BY <1>8 DEF Tidy
    <2>3. x \in live /\ SlotOf(x) = SlotOf(list[i]) => x = list[i]
      BY <2>1 DEF Tidy
    <2>4. QED
      BY <2>1, <2>2, <2>3
  <1>9. CrawlOK(k)
    BY <1>5, <1>7, <1>8 DEF CrawlOK
  <1>10. QED
    BY <1>5, <1>6, <1>9, TidyCrawl

LEMMA TidyRead ==
  ASSUME Tidy, CommentInv, NEW c \in Crawl, ReadRows(c)
  PROVE  Tidy'
  <1>1. UNCHANGED <<habit, live, posted, rows, reported>>
    BY ReadStep
  <1>2. PICK k \in CrawlState :
          /\ crawl' = [crawl EXCEPT ![c] = k]
          /\ k.phase = "read" /\ k.list = crawl[c].list /\ k.base = rows
          /\ \A s \in Slot : IF Stored(s) = {} THEN k.claim[s] = NoRow ELSE k.claim[s] \in Stored(s)
    BY ReadStep
  <1>3. CrawlOK(crawl[c])
    BY CrawlsOK
  <1>4. CrawlOK(k)
    BY <1>2, <1>3 DEF CrawlOK
  <1>5. crawl[c].phase = "fetched"
    BY DEF ReadRows
  <1>6. \A d \in Crawl : d # c => crawl[d].phase = "idle"
    BY <1>5 DEF Tidy
  <1>7. QED
    BY <1>1, <1>2, <1>4, <1>6, TidyCrawl

\* What a commit does to the slots: those of its comments have one row with the text that was
\* seen, the others are as they were.
LEMMA TidyCommit ==
  ASSUME Tidy, CommentInv, NEW c \in Crawl, CommitComments(c)
  PROVE  /\ \A i \in Indices(c) : LET id == crawl[c].list[i]
                               IN  id \in Comment /\ id \in posted /\ \E row \in Comment :
                /\ SlotOf(row) = SlotOf(id) /\ rows'[row] = TextOf(id)
                /\ \A x \in Comment : SlotOf(x) = SlotOf(id) /\ x # row => rows'[x] = NoText
                /\ row = id \/ (rows[row] # NoText /\ rows[id] = NoText)
         /\ \A x \in Comment : (\A i \in Indices(c) : SlotOf(crawl[c].list[i]) # SlotOf(x)) => rows'[x] = rows[x]
  <1>1. Upto(c, MergeComments(c), Len(crawl[c].list))
    BY TidyLoop DEF CommitComments
  <1>2. rows' = MergeComments(c).rows
    BY DEF CommitComments
  <1>3. /\ Len(crawl[c].list) \in Nat
        /\ \A i \in Indices(c) : crawl[c].list[i] \in Comment /\ crawl[c].list[i] \in posted /\ i <= Len(crawl[c].list)
    BY ListOf DEF Indices
  <1>4. \A i \in Indices(c) : SlotDone(MergeComments(c), crawl[c].list[i])
    BY <1>1, <1>3 DEF Upto
  <1>5. ASSUME NEW x \in Comment, \A i \in Indices(c) : SlotOf(crawl[c].list[i]) # SlotOf(x)
        PROVE  rows'[x] = rows[x]
    <2>1. SlotUntouched(c, MergeComments(c), SlotOf(x))
      BY <1>1, <1>5, CommentParts DEF Upto
    <2>2. QED
      BY <1>2, <2>1 DEF SlotUntouched
  <1>6. QED
    BY <1>2, <1>3, <1>4, <1>5 DEF SlotDone

LEMMA TidyCommitInv ==
  ASSUME Tidy, CommentInv, NEW c \in Crawl, CommitComments(c)
  PROVE  Tidy'
  <1> DEFINE id(i) == crawl[c].list[i]
             In(x) == \E i \in Indices(c) : SlotOf(id(i)) = SlotOf(x)
  <1>1. /\ crawl' = [crawl EXCEPT ![c] = NoCrawl] /\ UNCHANGED <<live, posted>>
        /\ crawl[c].phase # "idle"
    BY DEF CommitComments
  <1>2. /\ crawl'[c] = NoCrawl
        /\ \A d \in Crawl : d # c => crawl'[d] = crawl[d] /\ crawl[d].phase = "idle"
    BY <1>1 DEF CommentInv, Tidy
  <1>3. \A d \in Crawl : crawl'[d] = NoCrawl
    BY <1>2 DEF CommentInv
  <1>4. ASSUME NEW x \in Comment, In(x), rows'[x] # NoText
        PROVE  /\ x \in posted
               /\ rows'[x] # TextOf(x) => x \notin live
               /\ \A y \in Comment : rows'[y] # NoText /\ SlotOf(x) = SlotOf(y) => x = y
    <2>1. PICK i \in Indices(c) : SlotOf(id(i)) = SlotOf(x)
      BY <1>4
    <2>2. id(i) \in Comment /\ id(i) \in posted
      BY TidyCommit
    <2>3. PICK row \in Comment :
            /\ SlotOf(row) = SlotOf(id(i)) /\ rows'[row] = TextOf(id(i))
            /\ \A y \in Comment : SlotOf(y) = SlotOf(id(i)) /\ y # row => rows'[y] = NoText
            /\ row = id(i) \/ (rows[row] # NoText /\ rows[id(i)] = NoText)
      BY TidyCommit
    <2>4. x = row /\ \A y \in Comment : rows'[y] # NoText /\ SlotOf(x) = SlotOf(y) => x = y
      BY <1>4, <2>1, <2>3
    <2>5. CASE row = id(i)
      BY <2>2, <2>3, <2>4, <2>5
    <2>6. CASE row # id(i)
      <3>1. rows[x] # NoText /\ x # id(i)
        BY <2>3, <2>4, <2>6
      <3>2. x \in posted /\ x \notin live
        BY <2>1, <3>1 DEF Tidy
      <3>3. QED
        BY <2>4, <3>2
    <2>7. QED
      BY <2>5, <2>6
  <1>5. ASSUME NEW x \in Comment, ~In(x), rows'[x] # NoText
        PROVE  /\ x \in posted
               /\ rows'[x] # TextOf(x) => x \notin live
               /\ \A y \in Comment : rows'[y] # NoText /\ SlotOf(x) = SlotOf(y) => x = y
    <2>1. \A y \in Comment : SlotOf(y) = SlotOf(x) => rows'[y] = rows[y]
      BY <1>5, TidyCommit
    <2>2. QED
      BY <1>5, <2>1 DEF Tidy
  <1>6. \A d \in Crawl : Indices(d)' = {} /\ crawl'[d].phase = "idle"
    <2>1. Len(<<>>) = 0
      OBVIOUS
    <2>2. QED
      BY <1>3, <2>1, NoCrawlType DEF Indices
  <1>7. \A x, y \in live' : SlotOf(x) = SlotOf(y) => x = y
    BY <1>1 DEF Tidy
  <1> HIDE DEF In
  <1>8. QED
    BY <1>1, <1>4, <1>5, <1>6, <1>7 DEF Tidy

LEMMA TidyStep == TidyInv /\ [CommentNext]_commentVars => TidyInv'
  <1> SUFFICES ASSUME TidyInv, [CommentNext]_commentVars PROVE TidyInv'
    OBVIOUS
  <1>1. CommentInv /\ CommentInv'
    BY CommentStep DEF TidyInv
  <1>2. habit' = habit
    BY DEF CommentNext, WriteComment, WithdrawComment, EditComment, FetchComments, ReadRows, CommitComments,
           AbortComments, commentVars
  <1>3. CASE habit # "tidy"
    BY <1>1, <1>2, <1>3 DEF TidyInv
  <1>4. CASE habit = "tidy"
    <2> SUFFICES Tidy'
      BY <1>1 DEF TidyInv
    <2>1. Tidy
      BY <1>4 DEF TidyInv
    <2>2. ASSUME NEW id \in Comment, NEW others, others \subseteq live, Writable(id, others),
                 live' = others \union {id}, posted' = posted \union {id}, UNCHANGED <<rows, crawl>>
          PROVE  Tidy'
      <3>1. id \notin posted /\ \A o \in others : SlotOf(o) # SlotOf(id)
        BY <1>4, <2>2 DEF Writable
      <3>2. \A x \in live' : x \in live \/ x \notin posted
        BY <2>2, <3>1
      <3>3. \A x, y \in live' : SlotOf(x) = SlotOf(y) => x = y
        BY <2>1, <2>2, <3>1 DEF Tidy
      <3>4. QED
        BY <2>1, <2>2, <3>2, <3>3, TidyFacebook
    <2>3. ASSUME NEW id \in Comment, WriteComment(id) PROVE Tidy'
      BY <2>2, <2>3 DEF WriteComment
    <2>4. ASSUME NEW id \in Comment, NEW old \in Comment, EditComment(old, id) PROVE Tidy'
      <3>1. live \ {old} \subseteq live
        OBVIOUS
      <3>2. QED
        BY <2>2, <2>4, <3>1 DEF EditComment
    <2>5. ASSUME NEW id \in Comment, WithdrawComment(id) PROVE Tidy'
      <3>1. live' \subseteq live /\ UNCHANGED <<rows, crawl, posted>>
        BY <2>5 DEF WithdrawComment
      <3>2. \A x, y \in live' : SlotOf(x) = SlotOf(y) => x = y
        BY <2>1, <3>1 DEF Tidy
      <3>3. QED
        BY <2>1, <3>1, <3>2, TidyFacebook
    <2>6. ASSUME NEW c \in Crawl, AbortComments(c) PROVE Tidy'
      BY <1>1, <2>1, <2>6, NoCrawlType, NoCrawlOK, TidyCrawl DEF AbortComments
    <2>7. CASE UNCHANGED commentVars
      <3>1. UNCHANGED <<rows, crawl, live, posted>>
        BY <2>7 DEF commentVars
      <3>2. \A x, y \in live' : SlotOf(x) = SlotOf(y) => x = y
        BY <2>1, <3>1 DEF Tidy
      <3>3. posted \subseteq posted' /\ \A x \in live' : x \in live
        BY <3>1
      <3>4. QED
        BY <2>1, <3>1, <3>2, <3>3, TidyFacebook
    <2>8. ASSUME NEW c \in Crawl, FetchComments(c) \/ ReadRows(c) \/ CommitComments(c) PROVE Tidy'
      BY <1>1, <1>4, <2>1, <2>8, TidyFetch, TidyRead, TidyCommitInv
    <2>9. CASE \E id \in Comment : WriteComment(id) \/ WithdrawComment(id) \/ \E old \in Comment : EditComment(old, id)
      BY <2>3, <2>4, <2>5, <2>9
    <2>10. QED
      BY <2>6, <2>7, <2>8, <2>9 DEF CommentNext
  <1>5. QED
    BY <1>3, <1>4

LEMMA TidyInit == CommentInit => TidyInv
  <1> SUFFICES ASSUME CommentInit PROVE TidyInv
    OBVIOUS
  <1>1. CommentInv /\ live = {} /\ \A x \in Comment : rows[x] = NoText
    BY CommentInitInv DEF CommentInit
  <1>2. \A c \in Crawl : crawl[c] = NoCrawl
    BY DEF CommentInit
  <1>3. \A c \in Crawl : Indices(c) = {} /\ crawl[c].phase = "idle"
    <2>1. Len(<<>>) = 0
      OBVIOUS
    <2>2. QED
      BY <1>2, <2>1, NoCrawlType DEF Indices
  <1>4. QED
    BY <1>1, <1>3 DEF Tidy, TidyInv

\* When people have one comment in a slot and never return to an old text, and no two crawls
\* of the post overlap, a crawl leaves one row in the slot of each comment it saw, with the
\* text it saw: an edit changes the row in place, for any number of slots, texts and edits, in
\* whatever order the page shows the comments.
THEOREM EditsAreInPlace == CommentSpec => EditsInPlace
  <1>1. ASSUME TidyInv, NEW c \in Crawl, habit = "tidy", CommitComments(c),
               NEW id \in ToSet(crawl[c].list)
        PROVE  \E row \in Comment : Stored(SlotOf(id))' = {row} /\ rows'[row] = TextOf(id)
    <2>1. CommentInv /\ Tidy
      BY <1>1 DEF TidyInv
    <2>2. PICK i \in Indices(c) : id = crawl[c].list[i]
      BY <1>1, <2>1, ListOf DEF Indices
    <2>3. id \in Comment /\ TextOf(id) # NoText
      BY <1>1, <2>1, <2>2, TidyCommit, CommentParts
    <2>4. PICK row \in Comment :
            /\ SlotOf(row) = SlotOf(id) /\ rows'[row] = TextOf(id)
            /\ \A x \in Comment : SlotOf(x) = SlotOf(id) /\ x # row => rows'[x] = NoText
      BY <1>1, <2>1, <2>2, TidyCommit
    <2>5. Stored(SlotOf(id))' = {row}
      BY <2>3, <2>4 DEF Stored
    <2>6. QED
      BY <2>4, <2>5
  <1>2. TidyInv => \A c \in Crawl : habit = "tidy" /\ CommitComments(c) =>
            \A id \in ToSet(crawl[c].list) :
                \E row \in Comment : Stored(SlotOf(id))' = {row} /\ rows'[row] = TextOf(id)
    BY <1>1
  <1>3. QED
    BY TidyInit, TidyStep, <1>2, PTL DEF CommentSpec, EditsInPlace

(***************************************************************************)
(* The proxies take turns                                                  *)
(***************************************************************************)

LEMMA Around ==
  /\ \A a \in 0..(2 * ProxyCount - 1) :
        a % ProxyCount = IF a < ProxyCount THEN a ELSE a - ProxyCount
  /\ \A a \in 0..(2 * ProxyCount - 1) : a % ProxyCount \in Proxy
  <1>1. \A a \in 0..(ProxyCount - 1) : a % ProxyCount = a
    BY ProxyCountAssumption
  <1>2. \A a \in ProxyCount..(2 * ProxyCount - 1) : a % ProxyCount = a - ProxyCount
    BY ProxyCountAssumption
  <1>3. QED
    BY <1>1, <1>2, ProxyCountAssumption DEF Proxy

\* How many proxies the cycle has to pass before it comes to q.
Place(c, q) == IF q >= pool[c].next THEN q - pool[c].next ELSE q + ProxyCount - pool[c].next

LEMMA UpcomingPlace ==
  ASSUME ProxyTypeOK, NEW c \in Child
  PROVE  /\ pool[c].next \in Proxy
         /\ \A k \in Proxy : Upcoming(c, k) \in Proxy /\ Place(c, Upcoming(c, k)) = k
         /\ \A q \in Proxy : Place(c, q) \in Proxy /\ Upcoming(c, Place(c, q)) = q
  <1>1. pool[c].next \in Proxy
    BY DEF ProxyTypeOK
  <1>2. ASSUME NEW k \in Proxy
        PROVE  Upcoming(c, k) = IF pool[c].next + k < ProxyCount THEN pool[c].next + k
                                ELSE pool[c].next + k - ProxyCount
    <2>1. pool[c].next + k \in 0..(2 * ProxyCount - 1)
      BY <1>1, ProxyCountAssumption DEF Proxy
    <2> DEFINE a == pool[c].next + k
    <2>2. a % ProxyCount = IF a < ProxyCount THEN a ELSE a - ProxyCount
      BY <2>1, Around
    <2>3. QED
      BY <1>1, <1>2, <2>2, ProxyCountAssumption DEF Upcoming, Proxy
  <1>3. QED
    BY <1>1, <1>2, ProxyCountAssumption DEF Proxy, Place

\* A set of places that is not empty has a first one.
LEMMA FirstPlace ==
  ASSUME NEW S \in SUBSET Proxy, S # {}
  PROVE  \E k \in S : \A j \in S : k <= j
  <1>1. S \subseteq Nat
    BY ProxyCountAssumption DEF Proxy
  <1>2. PICK k \in S : \A j \in S : ~(<<j, k>> \in OpToRel(<, Nat))
    BY <1>1, NatLessThanWellFounded, WFMin
  <1>3. \A j \in S : ~(j < k)
    BY <1>1, <1>2 DEF OpToRel
  <1>4. QED
    BY <1>1, <1>3

\* acquire() passes only proxies that are cooling down; when they all are, it
\* passes none.
LEMMA ChosenFirst ==
  ASSUME ProxyTypeOK, NEW c \in Child
  PROVE  /\ Chosen(c) \in Proxy
         /\ \A q \in Proxy : q # Chosen(c) /\ ~Cooling(c, q) => Place(c, Chosen(c)) < Place(c, q)
  <1> DEFINE healthy == {k \in Proxy : ~Cooling(c, Upcoming(c, k))}
  <1>1. CASE healthy = {}
    <2>1. Chosen(c) = pool[c].next
      BY <1>1 DEF Chosen
    <2>2. \A q \in Proxy : Cooling(c, q)
      BY <1>1, UpcomingPlace
    <2>3. QED
      BY <2>1, <2>2, UpcomingPlace
  <1>2. CASE healthy # {}
    <2> DEFINE k == CHOOSE k \in healthy : \A j \in healthy : k <= j
    <2>1. k \in healthy /\ \A j \in healthy : k <= j
      BY <1>2, FirstPlace
    <2>2. Chosen(c) = Upcoming(c, k)
      BY <1>2 DEF Chosen
    <2>3. k \in Proxy /\ Chosen(c) \in Proxy /\ Place(c, Chosen(c)) = k
      BY <2>1, <2>2, UpcomingPlace
    <2>4. ASSUME NEW q \in Proxy, q # Chosen(c), ~Cooling(c, q) PROVE k < Place(c, q)
      <3>1. Place(c, q) \in healthy
        BY <2>4, UpcomingPlace
      <3>2. Place(c, q) # k
        BY <2>2, <2>4, UpcomingPlace
      <3>3. QED
        BY <2>1, <3>1, <3>2, ProxyCountAssumption DEF Proxy
    <2>5. QED
      BY <2>3, <2>4
  <1>3. QED
    BY <1>1, <1>2

LEMMA ProxyInitType == ProxyInit => ProxyTypeOK
  <1> SUFFICES ASSUME ProxyInit PROVE ProxyTypeOK
    OBVIOUS
  <1>1. boot \in [Proxy -> 0..ProxyCooldown]
    BY ProxyCooldownAssumption DEF ProxyInit
  <1>2. 0 \in Proxy
    BY ProxyCountAssumption DEF Proxy
  <1>3. QED
    BY <1>1, <1>2 DEF ProxyInit, ProxyTypeOK, Fork, NoBatch, NothingPassed

Cooldowns == [Proxy -> 0..ProxyCooldown]
Copy == [next : Proxy, cooldown : Cooldowns]

LEMMA CoolDown ==
  ASSUME NEW cooldown \in Cooldowns
  PROVE  [p \in Proxy |-> OneLess(cooldown[p])] \in Cooldowns
  <1>1. \A n \in 0..ProxyCooldown : OneLess(n) \in 0..ProxyCooldown
    BY ProxyCooldownAssumption DEF OneLess
  <1>2. QED
    BY <1>1 DEF Cooldowns

LEMMA AcquireType ==
  ASSUME ProxyTypeOK, NEW c \in Child, AcquireProxy(c)
  PROVE  /\ ProxyTypeOK'
         /\ Chosen(c) \in Proxy
         /\ pool'[c].next = (Chosen(c) + 1) % ProxyCount
         /\ \A d \in Child : d # c => pool'[d] = pool[d] /\ passed'[d] = passed[d]
         /\ \A q \in Proxy : passed'[c][q] =
               IF q = Chosen(c) \/ Cooling(c, q) THEN {} ELSE passed[c][q] \union {Chosen(c)}
  <1> DEFINE next == (Chosen(c) + 1) % ProxyCount
             turn == [q \in Proxy |->
                        IF q = Chosen(c) \/ Cooling(c, q) THEN {} ELSE passed[c][q] \union {Chosen(c)}]
             copy == [pool[c] EXCEPT !.next = next]
  <1>1. Chosen(c) \in Proxy
    BY ChosenFirst
  <1>2. next \in Proxy
    <2>1. Chosen(c) + 1 \in 0..(2 * ProxyCount - 1)
      BY <1>1, ProxyCountAssumption DEF Proxy
    <2>2. QED
      BY <2>1, Around
  <1>3. pool \in [Child -> Copy] /\ passed \in [Child -> [Proxy -> SUBSET Proxy]]
    BY DEF ProxyTypeOK, Copy, Cooldowns
  <1>4. copy \in Copy /\ copy.next = next
    BY <1>2, <1>3 DEF Copy
  <1>5. turn \in [Proxy -> SUBSET Proxy]
    BY <1>1, <1>3
  <1>6. pool' = [pool EXCEPT ![c] = copy] /\ passed' = [passed EXCEPT ![c] = turn]
    BY <1>3 DEF AcquireProxy
  <1> HIDE DEF next, turn, copy
  <1>7. pool' \in [Child -> Copy] /\ passed' \in [Child -> [Proxy -> SUBSET Proxy]]
    BY <1>3, <1>4, <1>5, <1>6
  <1>8. task' \in [Child -> [proxy : Proxy \union {None}, reset : BOOLEAN]] /\ UNCHANGED <<boot, moved>>
    BY <1>1 DEF AcquireProxy, ProxyTypeOK
  <1>9. ProxyTypeOK'
    BY <1>7, <1>8 DEF ProxyTypeOK, Copy, Cooldowns
  <1>10. /\ pool'[c] = copy /\ passed'[c] = turn
         /\ \A d \in Child : d # c => pool'[d] = pool[d] /\ passed'[d] = passed[d]
    BY <1>3, <1>6
  <1>11. QED
    BY <1>1, <1>4, <1>9, <1>10 DEF next, turn

\* In the steps that are not acquire(), no copy is turned but a new child's, of
\* which nothing has been given out.
LEMMA OtherProxySteps ==
  ASSUME ProxyTypeOK, [ProxyNext]_proxyVars, \A c \in Child : ~AcquireProxy(c)
  PROVE  /\ ProxyTypeOK'
         /\ \A c \in Child : \/ pool'[c].next = pool[c].next /\ passed'[c] = passed[c]
                            \/ passed'[c] = NothingPassed
  <1> DEFINE Goal == /\ ProxyTypeOK'
                     /\ \A c \in Child : \/ pool'[c].next = pool[c].next /\ passed'[c] = passed[c]
                                        \/ passed'[c] = NothingPassed
  <1>1. /\ pool \in [Child -> Copy] /\ passed \in [Child -> [Proxy -> SUBSET Proxy]]
        /\ task \in [Child -> [proxy : Proxy \union {None}, reset : BOOLEAN]]
        /\ boot \in Cooldowns /\ moved \subseteq Child
    BY DEF ProxyTypeOK, Copy, Cooldowns
  <1>2. ASSUME NEW c \in Child, ResetProxy(c) PROVE Goal
    <2> DEFINE hot == [pool[c].cooldown EXCEPT ![task[c].proxy] = ProxyCooldown]
               copy == [pool[c] EXCEPT !.cooldown = hot]
    <2>1. hot \in Cooldowns
      <3>1. pool[c].cooldown \in [Proxy -> 0..ProxyCooldown] /\ ProxyCooldown \in 0..ProxyCooldown
        BY <1>1, ProxyCooldownAssumption DEF Copy, Cooldowns
      <3>2. QED
        BY <3>1 DEF Cooldowns
    <2>2. copy \in Copy /\ copy.next = pool[c].next
      BY <1>1, <2>1 DEF Copy
    <2>3. pool' = [pool EXCEPT ![c] = copy]
      BY <1>1, <1>2 DEF ResetProxy, Copy
    <2> HIDE DEF hot, copy
    <2>4. pool' \in [Child -> Copy] /\ \A d \in Child : pool'[d].next = pool[d].next
      BY <1>1, <2>2, <2>3
    <2>5. task' \in [Child -> [proxy : Proxy \union {None}, reset : BOOLEAN]] /\ moved' \subseteq Child
      BY <1>1, <1>2 DEF ResetProxy
    <2>6. UNCHANGED <<boot, passed>>
      BY <1>2 DEF ResetProxy
    <2>7. QED
      BY <1>1, <2>4, <2>5, <2>6 DEF ProxyTypeOK, Copy, Cooldowns
  <1>3. ASSUME NEW c \in Child, EndBatch(c) PROVE Goal
    <2>1. UNCHANGED <<boot, pool, passed>> /\ moved' \subseteq Child
      BY <1>1, <1>3 DEF EndBatch
    <2>2. task' \in [Child -> [proxy : Proxy \union {None}, reset : BOOLEAN]]
      BY <1>1, <1>3 DEF EndBatch, NoBatch
    <2>3. QED
      BY <1>1, <2>1, <2>2 DEF ProxyTypeOK, Copy, Cooldowns
  <1>4. ASSUME NEW c \in Child, Respawn(c) PROVE Goal
    <2>1. Fork(boot) \in Copy
      BY <1>1, ProxyCountAssumption DEF Fork, Copy, Proxy
    <2>2. NothingPassed \in [Proxy -> SUBSET Proxy]
      BY DEF NothingPassed
    <2>3. /\ pool' = [pool EXCEPT ![c] = Fork(boot)] /\ passed' = [passed EXCEPT ![c] = NothingPassed]
          /\ boot' = boot /\ moved' \subseteq Child
      BY <1>1, <1>4 DEF Respawn
    <2>4. task' \in [Child -> [proxy : Proxy \union {None}, reset : BOOLEAN]]
      BY <1>1, <1>4 DEF Respawn, NoBatch
    <2>5. QED
      BY <1>1, <2>1, <2>2, <2>3, <2>4 DEF ProxyTypeOK, Copy, Cooldowns
  <1>5. CASE ProxyTick
    <2> DEFINE copy(c) == [pool[c] EXCEPT !.cooldown = [p \in Proxy |-> OneLess(@[p])]]
    <2>1. boot' \in Cooldowns /\ UNCHANGED <<task, moved, passed>>
      BY <1>1, <1>5, CoolDown DEF ProxyTick
    <2>2. ASSUME NEW c \in Child PROVE copy(c) \in Copy /\ copy(c).next = pool[c].next
      <3>1. pool[c].cooldown \in Cooldowns
        BY <1>1 DEF Copy
      <3>2. [p \in Proxy |-> OneLess(pool[c].cooldown[p])] \in Cooldowns
        BY <3>1, CoolDown
      <3>3. QED
        BY <1>1, <3>2 DEF Copy
    <2>3. pool' = [c \in Child |-> copy(c)]
      BY <1>5 DEF ProxyTick
    <2> HIDE DEF copy
    <2>4. pool' \in [Child -> Copy] /\ \A c \in Child : pool'[c].next = pool[c].next
      BY <2>2, <2>3
    <2>5. QED
      BY <1>1, <2>1, <2>4 DEF ProxyTypeOK, Copy, Cooldowns
  <1>6. CASE UNCHANGED proxyVars
    BY <1>6 DEF proxyVars, ProxyTypeOK
  <1>7. QED
    BY <1>2, <1>3, <1>4, <1>5, <1>6 DEF ProxyNext

\* Who was given out while q waited comes after q.
TurnInv ==
    /\ ProxyTypeOK
    /\ \A c \in Child, q \in Proxy : \A p \in passed[c][q] : Place(c, q) < Place(c, p)

LEMMA ProxyInitInv == ProxyInit => TurnInv
  BY ProxyInitType DEF TurnInv, ProxyInit, NothingPassed

LEMMA AcquireTurn ==
  ASSUME TurnInv, NEW c \in Child, AcquireProxy(c)
  PROVE  TurnInv'
  <1> DEFINE n == pool[c].next
             k == Place(c, Chosen(c))
  <1>1. ProxyTypeOK /\ ProxyTypeOK' /\ Chosen(c) \in Proxy
    BY AcquireType DEF TurnInv
  <1>2. \A d \in Child : d # c => pool'[d] = pool[d] /\ passed'[d] = passed[d]
    BY <1>1, AcquireType
  <1>3. pool'[c].next = IF Chosen(c) + 1 < ProxyCount THEN Chosen(c) + 1 ELSE 0
    <2>1. Chosen(c) + 1 \in 0..(2 * ProxyCount - 1)
      BY <1>1, ProxyCountAssumption DEF Proxy
    <2>2. (Chosen(c) + 1) % ProxyCount = IF Chosen(c) + 1 < ProxyCount THEN Chosen(c) + 1 ELSE 0
      BY <1>1, <2>1, Around, ProxyCountAssumption DEF Proxy
    <2>3. QED
      BY <1>1, <2>2, AcquireType
  <1>4. pool[c].next \in Proxy
    BY <1>1, UpcomingPlace
  <1>5. ASSUME NEW q \in Proxy
        PROVE  Place(c, q)' = IF Place(c, q) > k THEN Place(c, q) - k - 1
                              ELSE Place(c, q) - k - 1 + ProxyCount
    BY <1>1, <1>3, <1>4, ProxyCountAssumption DEF Proxy, Place
  <1>6. ASSUME NEW q \in Proxy, NEW p \in passed'[c][q]
        PROVE  Place(c, q)' < Place(c, p)'
    <2>1. /\ q # Chosen(c) /\ ~Cooling(c, q) /\ p \in passed[c][q] \union {Chosen(c)}
      BY <1>1, <1>6, AcquireType
    <2>2. p \in Proxy /\ Place(c, p) \in Proxy /\ Place(c, q) \in Proxy /\ k \in Proxy
      BY <1>1, <2>1, UpcomingPlace DEF ProxyTypeOK
    <2>3. k < Place(c, q)
      BY <1>1, <2>1, ChosenFirst
    <2>4. p = Chosen(c) \/ Place(c, q) < Place(c, p)
      BY <2>1 DEF TurnInv
    <2> HIDE DEF k
    <2>5. CASE p = Chosen(c)
      <3>1. Place(c, p) = k
        BY <2>5 DEF k
      <3>2. QED
        BY <1>5, <2>2, <2>3, <3>1, ProxyCountAssumption DEF Proxy
    <2>6. CASE Place(c, q) < Place(c, p)
      BY <1>5, <2>2, <2>3, <2>6, ProxyCountAssumption DEF Proxy
    <2>7. QED
      BY <2>4, <2>5, <2>6
  <1>7. ASSUME NEW d \in Child, NEW q \in Proxy, NEW p \in passed'[d][q]
        PROVE  Place(d, q)' < Place(d, p)'
    <2>1. CASE d = c
      BY <1>6, <1>7, <2>1
    <2>2. CASE d # c
      BY <1>2, <1>7, <2>2 DEF TurnInv, Place
    <2>3. QED
      BY <2>1, <2>2
  <1>8. QED
    BY <1>1, <1>7 DEF TurnInv

LEMMA TurnStep == TurnInv /\ [ProxyNext]_proxyVars => TurnInv'
  <1> SUFFICES ASSUME TurnInv, [ProxyNext]_proxyVars PROVE TurnInv'
    OBVIOUS
  <1>1. CASE \E c \in Child : AcquireProxy(c)
    BY <1>1, AcquireTurn
  <1>2. CASE \A c \in Child : ~AcquireProxy(c)
    <2>1. /\ ProxyTypeOK'
          /\ \A c \in Child : \/ pool'[c].next = pool[c].next /\ passed'[c] = passed[c]
                             \/ passed'[c] = NothingPassed
      BY <1>2, OtherProxySteps DEF TurnInv
    <2>2. ASSUME NEW c \in Child, NEW q \in Proxy, NEW p \in passed'[c][q]
          PROVE  Place(c, q)' < Place(c, p)'
      <3>1. pool'[c].next = pool[c].next /\ p \in passed[c][q]
        BY <2>1, <2>2 DEF NothingPassed
      <3>2. QED
        BY <3>1 DEF TurnInv, Place
    <2>3. QED
      BY <2>1, <2>2 DEF TurnInv
  <1>3. QED
    BY <1>1, <1>2

\* Only acquire() gives a child that has none a proxy.
LEMMA ProxyGives ==
  ASSUME ProxyTypeOK, [ProxyNext]_proxyVars, NEW c \in Child, NEW p \in Proxy, GivenOut(c, p)
  PROVE  AcquireProxy(c)
  <1>1. task[c].proxy = None /\ task'[c].proxy = p /\ p # None
    BY ProxyCountAssumption DEF GivenOut, Working, Proxy, None
  <1>2. ASSUME NEW d \in Child, AcquireProxy(d) PROVE c = d
    BY <1>1, <1>2 DEF AcquireProxy, ProxyTypeOK
  <1>3. ASSUME NEW d \in Child, ResetProxy(d) PROVE FALSE
    BY <1>1, <1>3 DEF ResetProxy, ProxyTypeOK
  <1>4. ASSUME NEW d \in Child, EndBatch(d) \/ Respawn(d) PROVE FALSE
    BY <1>1, <1>4 DEF EndBatch, Respawn, NoBatch, ProxyTypeOK
  <1>5. CASE ProxyTick \/ UNCHANGED proxyVars
    BY <1>1, <1>5 DEF ProxyTick, proxyVars
  <1>6. QED
    BY <1>2, <1>3, <1>4, <1>5 DEF ProxyNext

\* The pools keep their types: the cycle stands at a proxy, and a cooldown is
\* never longer than it was set.
THEOREM ProxyTypeCorrect == ProxySpec => []ProxyTypeOK
  <1>1. TurnInv => ProxyTypeOK
    BY DEF TurnInv
  <1>2. QED
    BY ProxyInitInv, TurnStep, <1>1, PTL DEF ProxySpec

\* acquire() gives out no proxy a second time while another one, fit for use
\* whenever it came up, waits: for any number of proxies and children, whatever
\* cools down, and although every child has a cycle of its own.
THEOREM ProxiesTakeTurns == ProxySpec => TakesTurns
  <1>1. ASSUME TurnInv, [ProxyNext]_proxyVars, NEW c \in Child, NEW p \in Proxy, NEW q \in Proxy,
               GivenOut(c, p), q # p, ~Cooling(c, q)
        PROVE  p \notin passed[c][q]
    <2>1. ProxyTypeOK
      BY <1>1 DEF TurnInv
    <2>2. AcquireProxy(c)
      BY <1>1, <2>1, ProxyGives
    <2>3. p = Chosen(c)
      BY <1>1, <2>1, <2>2 DEF AcquireProxy, GivenOut, ProxyTypeOK
    <2>4. Place(c, p) < Place(c, q)
      BY <1>1, <2>1, <2>3, ChosenFirst
    <2>5. Place(c, p) \in Proxy /\ Place(c, q) \in Proxy
      BY <2>1, UpcomingPlace
    <2>6. p \in passed[c][q] => Place(c, q) < Place(c, p)
      BY <1>1 DEF TurnInv
    <2>7. QED
      BY <2>4, <2>5, <2>6 DEF Proxy
  <1>2. TurnInv /\ [ProxyNext]_proxyVars =>
            \A c \in Child, p, q \in Proxy :
                GivenOut(c, p) /\ q # p /\ ~Cooling(c, q) => p \notin passed[c][q]
    BY <1>1
  <1>3. QED
    BY ProxyInitInv, TurnStep, <1>2, PTL DEF ProxySpec, TakesTurns

(***************************************************************************)
(* The parts together                                                      *)
(***************************************************************************)

LEMMA RestingParts ==
  UNCHANGED storageVars => UNCHANGED postVars /\ UNCHANGED commentVars /\ UNCHANGED proxyVars
  BY DEF storageVars

LEMMA SavingParts ==
  ASSUME [SavingNext]_<<part, storageVars, selectionVars, browserVars>>
  PROVE  /\ [PostNext]_postVars /\ [CommentNext]_commentVars /\ [ProxyNext]_proxyVars
         /\ [SelectionNext]_selectionVars /\ [BrowserNext]_browserVars
  <1>1. CASE StorageNext /\ UNCHANGED <<selectionVars, browserVars>>
    BY <1>1 DEF StorageNext
  <1>2. CASE SelectionNext /\ UNCHANGED <<part, storageVars, browserVars>>
    BY <1>2, RestingParts
  <1>3. CASE BrowserNext /\ UNCHANGED <<part, storageVars, selectionVars>>
    BY <1>3, RestingParts
  <1>4. CASE UNCHANGED <<part, storageVars, selectionVars, browserVars>>
    BY <1>4, RestingParts
  <1>5. QED
    BY <1>1, <1>2, <1>3, <1>4 DEF SavingNext

\* What MCSaving puts side by side are the parts as they are: a behaviour of it is one of
\* every part, and what is proved of a part holds there.
THEOREM SavingIsItsParts ==
  SavingSpec => PostSpec /\ CommentSpec /\ ProxySpec /\ SelectionSpec /\ BrowserSpec
  <1>1. SavingInit => PostInit /\ CommentInit /\ ProxyInit /\ SelectionInit /\ BrowserInit
    BY DEF SavingInit
  <1>2. QED
    BY <1>1, SavingParts, PTL DEF SavingSpec, PostSpec, CommentSpec, ProxySpec, SelectionSpec, BrowserSpec

\* Saving posts and comments, choosing them, fetching them and taking turns at the proxies,
\* every part keeps its types.
THEOREM SavingTypeCorrect == SavingSpec => []SavingTypeOK
  <1>1. /\ SavingSpec => []PostTypeOK
        /\ SavingSpec => []CommentTypeOK
        /\ SavingSpec => []ProxyTypeOK
        /\ SavingSpec => []SelectionTypeOK
        /\ SavingSpec => []BrowserTypeOK
    BY SavingIsItsParts, PostTypeCorrect, CommentTypeCorrect, ProxyTypeCorrect, SelectionTypeCorrect, BrowserTypeCorrect
  <1>2. PostTypeOK /\ CommentTypeOK /\ ProxyTypeOK /\ SelectionTypeOK /\ BrowserTypeOK => SavingTypeOK
    BY DEF SavingTypeOK
  <1>3. QED
    BY <1>1, <1>2, PTL
=============================================================================
