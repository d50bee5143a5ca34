------------------------------ MODULE OrgPortalProofs ------------------------------
(***************************************************************************)
(* Theorems about OrgPortal, for every set of users, sources, spellings    *)
(* and requests: whatever requests overlap, the grants of a sub-account    *)
(* are sources of its own organization.                                    *)
(***************************************************************************)
EXTENDS OrgPortal, SequenceTheorems, TLAPS

(***************************************************************************)
(* Type correctness                                                        *)
(***************************************************************************)

RequestRecord == [
    step : {"idle", "check", "insert", "write", "replace"},
    user : User \union {NoUser}, act : {"", "create", "import", "rename", "delete", "add", "edit"},
    able : BOOLEAN, reach : SUBSET Source, entitled : SUBSET Source, source : Source \union {NoSource},
    rows : Seq(Url), fresh : SUBSET Url, member : Sub \union {NoUser}, list : SUBSET Source,
    old : SUBSET Source]

\* A request that gives a sub-account sources.
Edits(q) == q.step = "replace" \/ (q.step = "write" /\ q.act = "edit")

\* What its own steps say of a request, whatever others have done since.
RequestOK(q) ==
    /\ q \in RequestRecord
    /\ q.step # "idle" => q.user \in User /\ (q.able => q.reach \subseteq q.entitled)
    /\ q.step = "check" => q.rows = <<>>
    /\ q.step = "insert" => q.act \in {"create", "import"}
    /\ q.rows # <<>> => q.act \in {"create", "import"}
    /\ q.step = "write" /\ q.act \in {"rename", "delete"} => q.able /\ q.source \in q.reach
    /\ Edits(q) => q.act \in {"add", "edit"} /\ q.member \in Sub /\ OrgOfUser[q.member] = OrgOfUser[q.user]

RequestsOK == requests \in [Request -> RequestRecord] /\ \A r \in Request : RequestOK(requests[r])

SourcesOK ==
    /\ sources \in [Source -> SourceRow \union {NoRow}]
    /\ used \subseteq Source /\ Live \subseteq used /\ crawled \subseteq Live

\* The inductive invariant behind type correctness.
TypeInv ==
    /\ SourcesOK
    /\ RequestsOK
    /\ accounts \in [User -> [state : {"none", "active", "locked", "deleted"}, role : Roles]]
    /\ grants \subseteq Sub \X Source /\ tokens \subseteq User
    /\ asked \in [Sub -> SUBSET Source]
    /\ since \in [Request -> SUBSET Source]
    /\ count \in 0..MaxRequests

LEMMA TypeInvImplies == TypeInv => OrgTypeOK
  BY DEF TypeInv, SourcesOK, RequestsOK, RequestRecord, OrgTypeOK, Live

LEMMA RowOfSource == \A row \in SourceRow : row # NoRow
  <1> SUFFICES ASSUME NEW row \in SourceRow, row = NoRow PROVE FALSE
    OBVIOUS
  <1>1. "org" \in DOMAIN row
    BY DEF SourceRow
  <1>2. DOMAIN NoRow = {"gone"}
    BY DEF NoRow
  <1>3. QED
    BY <1>1, <1>2

LEMMA IdleOK == RequestOK(Idle)
  BY DEF RequestOK, RequestRecord, Idle, Edits

\* A step that gives one request a new record.
LEMMA OneRequest ==
  ASSUME RequestsOK, NEW r \in Request, NEW q, RequestOK(q), requests' = [requests EXCEPT ![r] = q]
  PROVE  RequestsOK'
  <1>1. q \in RequestRecord
    BY DEF RequestOK
  <1>2. requests' \in [Request -> RequestRecord]
    BY <1>1 DEF RequestsOK
  <1>3. ASSUME NEW p \in Request PROVE RequestOK(requests'[p])
    <2>1. requests'[p] = IF p = r THEN q ELSE requests[p]
      BY DEF RequestsOK
    <2>2. QED
      BY <2>1 DEF RequestsOK
  <1>4. QED
    BY <1>2, <1>3 DEF RequestsOK, RequestOK, Edits

LEMMA InitType == OrgInit => TypeInv
  <1> SUFFICES ASSUME OrgInit PROVE TypeInv
    OBVIOUS
  <1>1. SourcesOK
    BY GivenAssumption, RowOfSource DEF OrgInit, SourcesOK, Live
  <1>2. RequestsOK
    BY IdleOK DEF OrgInit, RequestsOK, RequestOK
  <1>3. accounts \in [User -> [state : {"none", "active", "locked", "deleted"}, role : Roles]]
    BY DEF OrgInit, Roles
  <1>4. QED
    BY <1>1, <1>2, <1>3, BoundAssumption DEF OrgInit, TypeInv

\* Who the request is and what it was told at its start stays.
LEMMA StartType ==
  ASSUME TypeInv, NEW r \in Request, NEW u \in User, Start(r, u)
  PROVE  RequestsOK'
  <1> DEFINE q == [Idle EXCEPT !.step = "check", !.user = u,
                     !.able = Configurator(u), !.reach = Reach(u), !.entitled = Entitled(u)]
  <1>1. Configurator(u) \in BOOLEAN
    BY DEF Configurator
  <1>2. Reach(u) \subseteq Source /\ Entitled(u) \subseteq Source
    BY DEF Reach, Entitled, Live
  <1>3. Configurator(u) => Reach(u) \subseteq Entitled(u)
    BY DEF Start, Known, Reach, Entitled, Granted
  <1>4. /\ q \in RequestRecord /\ q.step = "check" /\ q.user = u /\ q.able = Configurator(u)
        /\ q.reach = Reach(u) /\ q.entitled = Entitled(u) /\ q.rows = <<>> /\ q.act = ""
    <2>1. Idle \in RequestRecord /\ Idle.rows = <<>> /\ Idle.act = ""
      BY IdleOK DEF RequestOK, Idle
    <2>2. QED
      BY <1>1, <1>2, <2>1 DEF RequestRecord
  <1>5. RequestOK(q)
    BY <1>3, <1>4 DEF RequestOK, Edits
  <1>6. requests' = [requests EXCEPT ![r] = q]
    BY DEF Start
  <1>7. QED
    BY <1>5, <1>6, OneRequest DEF TypeInv

\* The steps that end the request.
Ends(r) ==
    \/ Abandon(r) \/ CommitRows(r) \/ RenameSource(r) \/ DeleteSource(r)
    \/ \E role \in Roles : SetGrants(r, role)
    \/ \E u \in Sub : PatchMember(r, u) \/ DeleteMember(r, u)

LEMMA EndsType ==
  ASSUME TypeInv, NEW r \in Request, Ends(r)
  PROVE  RequestsOK'
  <1>1. requests' = [requests EXCEPT ![r] = Idle]
    BY DEF Ends, Abandon, CommitRows, RenameSource, DeleteSource, SetGrants, PatchMember, DeleteMember
  <1>2. QED
    BY <1>1, IdleOK, OneRequest DEF TypeInv

LEMMA SendType ==
  ASSUME TypeInv, NEW r \in Request, NEW act \in {"create", "import"}, NEW rows \in Files,
         SendRows(r, act, rows)
  PROVE  RequestsOK'
  <1> DEFINE p == requests[r]
             q == [p EXCEPT !.step = "insert", !.act = act, !.rows = rows]
  <1>1. RequestOK(p) /\ p.step = "check"
    BY DEF TypeInv, RequestsOK, SendRows
  <1>2. rows \in Seq(Url)
    BY FileAssumption
  <1>3. /\ q \in RequestRecord /\ q.step = "insert" /\ q.act = act /\ q.rows = rows
        /\ q.user = p.user /\ q.able = p.able /\ q.reach = p.reach /\ q.entitled = p.entitled
    BY <1>1, <1>2 DEF RequestOK, RequestRecord
  <1>4. RequestOK(q)
    BY <1>1, <1>3 DEF RequestOK, Edits
  <1>5. requests' = [requests EXCEPT ![r] = q]
    BY DEF SendRows, TypeInv, RequestsOK
  <1>6. QED
    BY <1>4, <1>5, OneRequest DEF TypeInv

LEMMA NextRowType ==
  ASSUME TypeInv, NEW r \in Request, requests[r].rows # <<>>, requests[r].step \in {"insert", "write"}
  PROVE  /\ NextRow(r) = [requests EXCEPT ![r] = NextRow(r)[r]]
         /\ RequestOK(NextRow(r)[r])
         /\ \A row \in Url :
               RequestOK([NextRow(r)[r] EXCEPT !.fresh = NextRow(r)[r].fresh \union {row}])
  <1> DEFINE p == requests[r]
             q == [p EXCEPT !.rows = Tail(p.rows), !.step = "insert"]
  <1>1. RequestOK(p)
    BY DEF TypeInv, RequestsOK
  <1>2. Tail(p.rows) \in Seq(Url) /\ p.act \in {"create", "import"}
    <2>1. p.rows \in Seq(Url) /\ p.rows # <<>>
      BY <1>1 DEF RequestOK, RequestRecord
    <2>2. QED
      BY <1>1, <2>1, HeadTailProperties DEF RequestOK
  <1>3. /\ q \in RequestRecord /\ q.step = "insert" /\ q.act = p.act
        /\ q.user = p.user /\ q.able = p.able /\ q.reach = p.reach /\ q.entitled = p.entitled
    BY <1>1, <1>2 DEF RequestOK, RequestRecord
  <1>4. RequestOK(q)
    BY <1>1, <1>2, <1>3 DEF RequestOK, Edits
  <1>5. NextRow(r)[r] = q /\ NextRow(r) = [requests EXCEPT ![r] = q]
    BY DEF NextRow, TypeInv, RequestsOK
  <1>6. ASSUME NEW row \in Url
        PROVE  RequestOK([q EXCEPT !.fresh = q.fresh \union {row}])
    <2> DEFINE s == [q EXCEPT !.fresh = q.fresh \union {row}]
    <2>1. /\ s \in RequestRecord /\ s.step = "insert" /\ s.act = p.act
          /\ s.user = p.user /\ s.able = p.able /\ s.reach = p.reach /\ s.entitled = p.entitled
      BY <1>3 DEF RequestRecord
    <2>2. QED
      BY <1>1, <1>2, <2>1 DEF RequestOK, Edits
  <1>7. QED
    BY <1>4, <1>5, <1>6

LEMMA RowsType ==
  ASSUME TypeInv, NEW r \in Request, FindDuplicate(r) \/ InsertRow(r)
  PROVE  RequestsOK'
  <1> DEFINE p == requests[r]
  <1>1. RequestOK(p) /\ p.rows # <<>> /\ p.step \in {"insert", "write"}
    BY DEF TypeInv, RequestsOK, FindDuplicate, InsertRow
  <1>2. Head(p.rows) \in Url
    BY <1>1, HeadTailProperties DEF RequestOK, RequestRecord
  <1>3. CASE requests' = [requests EXCEPT ![r] = Idle]
    BY <1>3, IdleOK, OneRequest DEF TypeInv
  <1>4. CASE requests' = NextRow(r)
    BY <1>1, <1>4, NextRowType, OneRequest DEF TypeInv
  <1>5. CASE FindDuplicate(r) /\ requests' = [requests EXCEPT ![r].step = "write"]
    <2> DEFINE q == [p EXCEPT !.step = "write"]
    <2>1. /\ q \in RequestRecord /\ q.step = "write" /\ q.act = p.act /\ q.rows = p.rows
          /\ q.user = p.user /\ q.able = p.able /\ q.reach = p.reach /\ q.entitled = p.entitled
      BY <1>1 DEF RequestOK, RequestRecord
    <2>2. p.step = "insert"
      BY <1>5 DEF FindDuplicate
    <2>3. RequestOK(q)
      BY <1>1, <2>1, <2>2 DEF RequestOK, Edits
    <2>4. requests' = [requests EXCEPT ![r] = q]
      BY <1>5 DEF TypeInv, RequestsOK
    <2>5. QED
      BY <2>3, <2>4, OneRequest DEF TypeInv
  <1>6. CASE InsertRow(r) /\ requests' = [NextRow(r) EXCEPT ![r].fresh = @ \union {AsStored(r, Head(p.rows))}]
    <2> DEFINE row == AsStored(r, Head(p.rows))
               q == [NextRow(r)[r] EXCEPT !.fresh = NextRow(r)[r].fresh \union {row}]
    <2>1. row \in Url
      BY <1>2, UrlAssumption DEF AsStored
    <2>2. RequestOK(q) /\ NextRow(r) = [requests EXCEPT ![r] = NextRow(r)[r]]
      BY <1>1, <2>1, NextRowType
    <2>3. requests' = [requests EXCEPT ![r] = q]
      BY <1>6, <2>2 DEF TypeInv, RequestsOK
    <2>4. QED
      BY <2>2, <2>3, OneRequest DEF TypeInv
  <1>7. QED
    BY <1>3, <1>4, <1>5, <1>6 DEF FindDuplicate, InsertRow

LEMMA CheckSourceType ==
  ASSUME TypeInv, NEW r \in Request, NEW act \in {"rename", "delete"}, NEW s \in Source,
         CheckSource(r, act, s)
  PROVE  RequestsOK'
  <1> DEFINE p == requests[r]
             q == [p EXCEPT !.step = "write", !.act = act, !.source = s]
  <1>1. RequestOK(p) /\ p.step = "check" /\ p.able /\ s \in p.reach
    BY DEF TypeInv, RequestsOK, CheckSource, Owns
  <1>2. /\ q \in RequestRecord /\ q.step = "write" /\ q.act = act /\ q.source = s /\ q.rows = p.rows
        /\ q.user = p.user /\ q.able = p.able /\ q.reach = p.reach /\ q.entitled = p.entitled
    BY <1>1 DEF RequestOK, RequestRecord
  <1>3. RequestOK(q)
    BY <1>1, <1>2 DEF RequestOK, Edits
  <1>4. requests' = [requests EXCEPT ![r] = q]
    BY DEF CheckSource, TypeInv, RequestsOK
  <1>5. QED
    BY <1>3, <1>4, OneRequest DEF TypeInv

LEMMA CheckMemberType ==
  ASSUME TypeInv, NEW r \in Request, NEW u \in Sub, NEW list \in SUBSET Source, CheckMember(r, u, list)
  PROVE  RequestsOK'
  <1> DEFINE p == requests[r]
  <1>1. RequestOK(p) /\ p.step = "check" /\ OrgOfUser[u] = OrgOfUser[p.user]
    BY DEF TypeInv, RequestsOK, CheckMember, OrgOfRequest
  <1>2. ASSUME NEW step \in {"write", "replace"}, NEW act \in {"add", "edit"},
               step = "write" => act = "edit",
               requests' = [requests EXCEPT ![r].step = step, ![r].act = act, ![r].member = u, ![r].list = list]
        PROVE  RequestsOK'
    <2> DEFINE q == [p EXCEPT !.step = step, !.act = act, !.member = u, !.list = list]
    <2>1. /\ q \in RequestRecord /\ q.step = step /\ q.act = act /\ q.member = u /\ q.rows = p.rows
          /\ q.user = p.user /\ q.able = p.able /\ q.reach = p.reach /\ q.entitled = p.entitled
      BY <1>1 DEF RequestOK, RequestRecord
    <2>2. RequestOK(q)
      BY <1>1, <2>1 DEF RequestOK, Edits
    <2>3. requests' = [requests EXCEPT ![r] = q]
      BY <1>2 DEF TypeInv, RequestsOK
    <2>4. QED
      BY <2>2, <2>3, OneRequest DEF TypeInv
  <1>3. QED
    BY <1>2 DEF CheckMember

LEMMA ClearType ==
  ASSUME TypeInv, NEW r \in Request, ClearGrants(r)
  PROVE  RequestsOK'
  <1> DEFINE p == requests[r]
             old == Old(p.member)
             q == [p EXCEPT !.step = "replace", !.old = old]
  <1>1. RequestOK(p) /\ p.step = "write" /\ p.act = "edit"
    BY DEF TypeInv, RequestsOK, ClearGrants
  <1>2. old \subseteq Source
    BY DEF Old
  <1>3. /\ q \in RequestRecord /\ q.step = "replace" /\ q.act = "edit" /\ q.rows = p.rows
        /\ q.member = p.member
        /\ q.user = p.user /\ q.able = p.able /\ q.reach = p.reach /\ q.entitled = p.entitled
    BY <1>1, <1>2 DEF RequestOK, RequestRecord
  <1>4. RequestOK(q)
    BY <1>1, <1>3 DEF RequestOK, Edits
  <1>5. requests' = [requests EXCEPT ![r] = q]
    BY DEF ClearGrants, TypeInv, RequestsOK
  <1>6. QED
    BY <1>4, <1>5, OneRequest DEF TypeInv

\* The steps of a request, without its start.
Works(r) ==
    \/ Ends(r)
    \/ \E act \in {"create", "import"}, rows \in Files : SendRows(r, act, rows)
    \/ FindDuplicate(r) \/ InsertRow(r)
    \/ \E act \in {"rename", "delete"}, s \in Source : CheckSource(r, act, s)
    \/ \E u \in Sub, list \in SUBSET Source : CheckMember(r, u, list)
    \/ ClearGrants(r)

LEMMA NextSplits ==
  OrgNext <=> \/ \E u \in User : Register(u) \/ Login(u) \/ Expire(u)
              \/ \E r \in Request : Works(r) \/ \E u \in User : Start(r, u)
  BY DEF OrgNext, Works, Ends

LEMMA RequestsType == TypeInv /\ [OrgNext]_orgVars => RequestsOK'
  <1> SUFFICES ASSUME TypeInv, [OrgNext]_orgVars PROVE RequestsOK'
    OBVIOUS
  <1>1. ASSUME UNCHANGED requests PROVE RequestsOK'
    BY <1>1 DEF TypeInv, RequestsOK, RequestOK, Edits
  <1>2. ASSUME NEW u \in User, Register(u) \/ Login(u) \/ Expire(u) PROVE RequestsOK'
    BY <1>1, <1>2 DEF Register, Login, Expire
  <1>3. ASSUME NEW r \in Request, Works(r) PROVE RequestsOK'
    BY <1>3, EndsType, SendType, RowsType, CheckSourceType, CheckMemberType, ClearType DEF Works
  <1>4. CASE UNCHANGED orgVars
    BY <1>1, <1>4 DEF orgVars
  <1>5. QED
    BY <1>2, <1>3, <1>4, NextSplits, StartType

\* An id is given out once, and a source stays with its organization.
SourcesKept ==
    /\ used \subseteq used'
    /\ \A s \in used : s \in Live' => s \in Live /\ sources'[s].org = sources[s].org

LEMMA CommitKeeps ==
  ASSUME TypeInv, NEW r \in Request, CommitRows(r)
  PROVE  SourcesOK' /\ SourcesKept /\ \A s \in Live : sources'[s] = sources[s]
  <1>1. RequestOK(requests[r]) /\ requests[r].step = "insert"
    BY DEF TypeInv, RequestsOK, CommitRows
  <1>0. PICK ids \in SUBSET (Source \ used) :
            /\ \E url \in [ids -> requests[r].fresh] :
                  sources' = [s \in Source |-> IF s \in ids
                     THEN [org |-> OrgOfRequest(r), url |-> url[s], by |-> requests[r].user] ELSE sources[s]]
            /\ used' = used \union ids
    BY DEF CommitRows
  <1>2. PICK url \in [ids -> requests[r].fresh] :
            /\ sources' = [s \in Source |-> IF s \in ids
                  THEN [org |-> OrgOfRequest(r), url |-> url[s], by |-> requests[r].user] ELSE sources[s]]
            /\ used' = used \union ids
    BY <1>0
  <1>3. \A s \in ids : [org |-> OrgOfRequest(r), url |-> url[s], by |-> requests[r].user] \in SourceRow
    BY <1>1 DEF RequestOK, RequestRecord, SourceRow, OrgOfRequest
  <1>4. \A s \in Source : s \in Live' <=> s \in ids \/ s \in Live
    BY <1>2, <1>3, RowOfSource DEF Live
  <1>5. sources' \in [Source -> SourceRow \union {NoRow}]
    BY <1>2, <1>3 DEF TypeInv, SourcesOK
  <1>6. SourcesOK'
    BY <1>2, <1>4, <1>5 DEF TypeInv, SourcesOK, CommitRows, Live
  <1>7. \A s \in used : sources'[s] = sources[s]
    BY <1>2 DEF TypeInv, SourcesOK
  <1>8. QED
    BY <1>2, <1>6, <1>7 DEF SourcesKept, Live, TypeInv, SourcesOK

LEMMA RenameKeeps ==
  ASSUME TypeInv, NEW r \in Request, RenameSource(r)
  PROVE  SourcesOK' /\ SourcesKept /\ Live' = Live
         /\ \A s \in Source : s # requests[r].source => sources'[s] = sources[s]
  <1> DEFINE x == requests[r].source
             row == [sources[x] EXCEPT !.by = requests[r].user]
  <1>1. requests[r].user \in User
    BY DEF TypeInv, RequestsOK, RequestOK, RenameSource
  <1>2. x \in Live /\ sources[x] \in SourceRow /\ x \in Source
    BY DEF RenameSource, TypeInv, SourcesOK, Live
  <1>3. row \in SourceRow /\ row.org = sources[x].org
    BY <1>1, <1>2 DEF SourceRow
  <1>4. sources' = [s \in Source |-> IF s = x THEN row ELSE sources[s]]
    BY DEF RenameSource, TypeInv, SourcesOK
  <1>5. Live' = Live
    BY <1>2, <1>3, <1>4, RowOfSource DEF Live
  <1>6. QED
    BY <1>2, <1>3, <1>4, <1>5 DEF SourcesKept, TypeInv, SourcesOK, RenameSource

LEMMA DeleteKeeps ==
  ASSUME TypeInv, NEW r \in Request, DeleteSource(r)
  PROVE  /\ SourcesOK' /\ SourcesKept /\ Live' = Live \ {requests[r].source}
         /\ \A s \in Source : s # requests[r].source => sources'[s] = sources[s]
  <1> DEFINE x == requests[r].source
  <1>1. x \in Live \ crawled /\ x \in Source
    BY DEF DeleteSource, Live
  <1>2. sources' = [s \in Source |-> IF s = x THEN NoRow ELSE sources[s]]
    BY DEF DeleteSource, TypeInv, SourcesOK
  <1>3. Live' = Live \ {x}
    BY <1>1, <1>2 DEF Live
  <1>4. QED
    BY <1>1, <1>2, <1>3 DEF SourcesKept, TypeInv, SourcesOK, DeleteSource

LEMMA QuietKeeps ==
  ASSUME TypeInv, UNCHANGED <<sources, used, crawled>>
  PROVE  SourcesOK' /\ SourcesKept
  BY DEF TypeInv, SourcesOK, SourcesKept, Live

\* The three steps that write sources.
Writes(r) == CommitRows(r) \/ RenameSource(r) \/ DeleteSource(r)

LEMMA OthersQuiet ==
  ASSUME [OrgNext]_orgVars
  PROVE  (UNCHANGED <<sources, used, crawled>>) \/ \E r \in Request : Writes(r)
  <1>1. ASSUME NEW u \in User, Register(u) \/ Login(u) \/ Expire(u)
        PROVE  UNCHANGED <<sources, used, crawled>>
    BY <1>1 DEF Register, Login, Expire
  <1>2. ASSUME NEW r \in Request, NEW u \in User, Start(r, u)
        PROVE  UNCHANGED <<sources, used, crawled>>
    BY <1>2 DEF Start
  <1>3. ASSUME NEW r \in Request, Works(r), ~Writes(r)
        PROVE  UNCHANGED <<sources, used, crawled>>
    BY <1>3 DEF Writes, Works, Ends, Abandon, SetGrants, PatchMember, DeleteMember, SendRows,
                FindDuplicate, InsertRow, CheckSource, CheckMember, ClearGrants
  <1>4. CASE UNCHANGED orgVars
    BY <1>4 DEF orgVars
  <1>5. QED
    BY <1>1, <1>2, <1>3, <1>4, NextSplits

LEMMA SourcesType ==
  ASSUME TypeInv, [OrgNext]_orgVars
  PROVE  SourcesOK' /\ SourcesKept
  BY OthersQuiet, QuietKeeps, CommitKeeps, RenameKeeps, DeleteKeeps DEF Writes

AccountsOK ==
    /\ accounts \in [User -> [state : {"none", "active", "locked", "deleted"}, role : Roles]]
    /\ grants \subseteq Sub \X Source /\ tokens \subseteq User
    /\ asked \in [Sub -> SUBSET Source]

LEMMA SetGrantsType ==
  ASSUME TypeInv, NEW r \in Request, NEW role \in Roles, SetGrants(r, role)
  PROVE  AccountsOK'
  <1>1. RequestOK(requests[r]) /\ requests[r].step = "replace"
    BY DEF TypeInv, RequestsOK, SetGrants
  <1>2. requests[r].member \in Sub /\ requests[r].member \in User /\ requests[r].list \in SUBSET Source
    BY <1>1 DEF RequestOK, RequestRecord, Edits, User
  <1>3. grants' \subseteq grants \union ({requests[r].member} \X requests[r].list)
    BY DEF SetGrants
  <1>4. grants' \subseteq Sub \X Source
    BY <1>2, <1>3 DEF TypeInv
  <1>5. asked' \in [Sub -> SUBSET Source]
    <2>1. since[r] \subseteq Source
      BY DEF TypeInv
    <2>2. QED
      BY <1>2, <2>1 DEF TypeInv, SetGrants
  <1>6. accounts' \in [User -> [state : {"none", "active", "locked", "deleted"}, role : Roles]]
    BY <1>2 DEF TypeInv, SetGrants
  <1>7. QED
    BY <1>4, <1>5, <1>6 DEF TypeInv, AccountsOK, SetGrants

LEMMA AccountsType ==
  ASSUME TypeInv, [OrgNext]_orgVars
  PROVE  AccountsOK' /\ count' \in 0..MaxRequests
  <1>1. ASSUME UNCHANGED <<accounts, grants, tokens, asked, count>>
        PROVE  AccountsOK' /\ count' \in 0..MaxRequests
    BY <1>1 DEF TypeInv, AccountsOK
  <1>2. ASSUME NEW u \in User, Register(u) \/ Login(u) \/ Expire(u)
        PROVE  AccountsOK' /\ count' \in 0..MaxRequests
    <2>1. tokens' \subseteq User /\ UNCHANGED <<grants, asked, count>>
      BY <1>2 DEF TypeInv, Register, Login, Expire
    <2>2. accounts' \in [User -> [state : {"none", "active", "locked", "deleted"}, role : Roles]]
      BY <1>2 DEF TypeInv, Register, Login, Expire
    <2>3. QED
      BY <2>1, <2>2 DEF TypeInv, AccountsOK
  <1>3. ASSUME NEW r \in Request, NEW u \in User, Start(r, u)
        PROVE  AccountsOK' /\ count' \in 0..MaxRequests
    BY <1>3, BoundAssumption DEF TypeInv, AccountsOK, Start
  <1>4. ASSUME NEW r \in Request, DeleteSource(r)
        PROVE  AccountsOK' /\ count' \in 0..MaxRequests
    BY <1>4 DEF TypeInv, AccountsOK, DeleteSource
  <1>5. ASSUME NEW r \in Request, NEW role \in Roles, SetGrants(r, role)
        PROVE  AccountsOK' /\ count' \in 0..MaxRequests
    BY <1>5, SetGrantsType DEF TypeInv, SetGrants
  <1>6. ASSUME NEW r \in Request, NEW u \in Sub, PatchMember(r, u) \/ DeleteMember(r, u)
        PROVE  AccountsOK' /\ count' \in 0..MaxRequests
    <2>1. accounts' \in [User -> [state : {"none", "active", "locked", "deleted"}, role : Roles]]
      BY <1>6 DEF TypeInv, PatchMember, DeleteMember, User
    <2>2. grants' \subseteq grants /\ asked' \in [Sub -> SUBSET Source] /\ UNCHANGED <<tokens, count>>
      BY <1>6 DEF TypeInv, PatchMember, DeleteMember
    <2>3. QED
      BY <2>1, <2>2 DEF TypeInv, AccountsOK
  <1>7. ASSUME NEW r \in Request, Works(r), ~DeleteSource(r), ~\E role \in Roles : SetGrants(r, role),
               ~\E u \in Sub : PatchMember(r, u) \/ DeleteMember(r, u)
        PROVE  UNCHANGED <<accounts, grants, tokens, asked, count>>
    BY <1>7 DEF Works, Ends, Abandon, CommitRows, RenameSource, SendRows, FindDuplicate, InsertRow,
                CheckSource, CheckMember, ClearGrants
  <1>8. CASE UNCHANGED orgVars
    BY <1>1, <1>8 DEF orgVars
  <1>9. QED
    BY <1>1, <1>2, <1>3, <1>4, <1>5, <1>6, <1>7, <1>8, NextSplits

\* The steps that write since: a request of its own, until an edit is committed.
Looks(r) == ClearGrants(r) \/ \E u \in Sub, list \in SUBSET Source : CheckMember(r, u, list)

LEMMA SinceBy ==
  ASSUME TypeInv, [OrgNext]_orgVars
  PROVE  \/ UNCHANGED since
         \/ \E r \in Request : Looks(r) /\ since' = [since EXCEPT ![r] = {}]
         \/ \E r \in Request, role \in Roles : SetGrants(r, role)
  <1>1. ASSUME NEW u \in User, Register(u) \/ Login(u) \/ Expire(u) PROVE UNCHANGED since
    BY <1>1 DEF Register, Login, Expire
  <1>2. ASSUME NEW r \in Request, NEW u \in User, Start(r, u) PROVE UNCHANGED since
    BY <1>2 DEF Start
  <1>3. ASSUME NEW r \in Request, Works(r), ~Looks(r), ~\E role \in Roles : SetGrants(r, role)
        PROVE  UNCHANGED since
    BY <1>3 DEF Looks, Works, Ends, Abandon, CommitRows, RenameSource, DeleteSource, PatchMember, DeleteMember,
                SendRows, FindDuplicate, InsertRow, CheckSource
  <1>4. ASSUME NEW r \in Request, Looks(r) PROVE since' = [since EXCEPT ![r] = {}]
    BY <1>4 DEF Looks, ClearGrants, CheckMember
  <1>5. QED
    BY <1>1, <1>2, <1>3, <1>4, NextSplits DEF orgVars

LEMMA SinceType ==
  ASSUME TypeInv, [OrgNext]_orgVars
  PROVE  since' \in [Request -> SUBSET Source]
  <1>1. ASSUME NEW r \in Request, NEW role \in Roles, SetGrants(r, role)
        PROVE  since' \in [Request -> SUBSET Source]
    <2>1. requests[r].list \subseteq Source /\ since \in [Request -> SUBSET Source]
      BY DEF TypeInv, RequestsOK, RequestRecord
    <2>2. QED
      BY <1>1, <2>1 DEF SetGrants
  <1>2. ASSUME NEW r \in Request, since' = [since EXCEPT ![r] = {}]
        PROVE  since' \in [Request -> SUBSET Source]
    BY <1>2 DEF TypeInv
  <1>3. QED
    BY <1>1, <1>2, SinceBy DEF TypeInv

LEMMA TypeStep == TypeInv /\ [OrgNext]_orgVars => TypeInv'
  BY RequestsType, SourcesType, AccountsType, SinceType DEF TypeInv, AccountsOK

\* Every variable keeps its type.
THEOREM PortalTypeCorrect == OrgSpec => []OrgTypeOK
  <1>1. OrgInit => TypeInv
    BY InitType
  <1>2. TypeInv /\ [OrgNext]_orgVars => TypeInv'
    BY TypeStep
  <1>3. TypeInv => OrgTypeOK
    BY TypeInvImplies
  <1>4. QED
    BY <1>1, <1>2, <1>3, PTL DEF OrgSpec

(***************************************************************************)
(* Who writes sources                                                      *)
(***************************************************************************)

Entitles ==
    \A s \in Live : sources'[s] # sources[s] =>
        \E r \in Request : requests[r].source = s /\ s \in requests[r].entitled

LEMMA WritesEntitled ==
  ASSUME TypeInv, NEW r \in Request, RenameSource(r) \/ DeleteSource(r)
  PROVE  requests[r].source \in requests[r].entitled
  BY DEF TypeInv, RequestsOK, RequestOK, RenameSource, DeleteSource

LEMMA StepEntitled ==
  ASSUME TypeInv, [OrgNext]_orgVars
  PROVE  Entitles
  <1>1. CASE UNCHANGED <<sources, used, crawled>>
    BY <1>1 DEF Entitles
  <1>2. ASSUME NEW r \in Request, CommitRows(r) PROVE Entitles
    BY <1>2, CommitKeeps DEF Entitles
  <1>3. ASSUME NEW r \in Request, RenameSource(r) \/ DeleteSource(r) PROVE Entitles
    <2>1. \A s \in Source : s # requests[r].source => sources'[s] = sources[s]
      BY <1>3, RenameKeeps, DeleteKeeps
    <2>2. QED
      BY <1>3, <2>1, WritesEntitled DEF Entitles, Live
  <1>4. QED
    BY <1>1, <1>2, <1>3, OthersQuiet DEF Writes

\* A source changes or goes only for an account that might do that when its request
\* started.
THEOREM SourcesByEntitled == OrgSpec => WrittenByEntitled
  <1>1. OrgInit => TypeInv
    BY InitType
  <1>2. TypeInv /\ [OrgNext]_orgVars => TypeInv'
    BY TypeStep
  <1>3. TypeInv /\ [OrgNext]_orgVars => [Entitles]_orgVars
    BY StepEntitled
  <1>4. QED
    BY <1>1, <1>2, <1>3, PTL DEF OrgSpec, WrittenByEntitled, Entitles

(***************************************************************************)
(* Grants                                                                  *)
(*                                                                         *)
(* The sources a request is about to grant were of the organization when   *)
(* the request looked; their ids are never given to another one.           *)
(***************************************************************************)

ListsOK ==
    \A r \in Request : Edits(requests[r]) =>
        \A s \in requests[r].list : s \in used /\ (s \in Live => sources[s].org = OrgOfRequest(r))

GrantInv == ListsOK /\ GrantsOwnOrg

LEMMA OnlyOne ==
  ASSUME TypeInv, NEW p \in Request, Works(p) \/ \E u \in User : Start(p, u)
  PROVE  \A r \in Request \ {p} : requests'[r] = requests[r]
  <1>1. CASE \E u \in User : Start(p, u)
    BY <1>1 DEF Start, TypeInv, RequestsOK
  <1>2. CASE Ends(p)
    BY <1>2 DEF Ends, Abandon, CommitRows, RenameSource, DeleteSource, SetGrants, PatchMember,
                DeleteMember, TypeInv, RequestsOK
  <1>3. CASE FindDuplicate(p) \/ InsertRow(p)
    BY <1>3 DEF FindDuplicate, InsertRow, NextRow, TypeInv, RequestsOK
  <1>4. CASE ~Ends(p) /\ ~FindDuplicate(p) /\ ~InsertRow(p) /\ Works(p)
    BY <1>4 DEF Works, SendRows, CheckSource, CheckMember, ClearGrants, TypeInv, RequestsOK
  <1>5. QED
    BY <1>1, <1>2, <1>3, <1>4

LEMMA NoEdits == \A q : q.step \in {"idle", "check", "insert"} => ~Edits(q)
  BY DEF Edits

LEMMA IdleStep == Idle.step = "idle"
  BY DEF Idle

\* A request that edits has edited before, with the same list, or has just been checked.
Proceeds(r) ==
    /\ Edits(requests[r])
    /\ requests'[r].user = requests[r].user /\ requests'[r].member = requests[r].member
    /\ requests'[r].list = requests[r].list
    /\ requests'[r] = requests[r] \/ ClearGrants(r)

LEMMA EditsBefore ==
  ASSUME TypeInv, [OrgNext]_orgVars, NEW r \in Request, Edits(requests'[r])
  PROVE  Proceeds(r) \/ \E u \in Sub, list \in SUBSET Source : CheckMember(r, u, list)
  <1>1. CASE requests'[r] = requests[r]
    BY <1>1 DEF Proceeds
  <1>2. CASE Ends(r) \/ \E u \in User : Start(r, u)
    <2>1. CASE Ends(r)
      <3>1. requests'[r] = Idle
        BY <2>1 DEF Ends, Abandon, CommitRows, RenameSource, DeleteSource, SetGrants, PatchMember,
                    DeleteMember, TypeInv, RequestsOK
      <3>2. QED
        BY <3>1, IdleStep, NoEdits
    <2>2. ASSUME NEW u \in User, Start(r, u) PROVE requests'[r].step = "check"
      BY <2>2 DEF Start, Idle, TypeInv, RequestsOK
    <2>3. QED
      BY <1>2, <2>1, <2>2 DEF Edits
  <1>3. CASE FindDuplicate(r) \/ InsertRow(r)
    <2>1. requests[r].act \in {"create", "import"}
      BY <1>3 DEF FindDuplicate, InsertRow, TypeInv, RequestsOK, RequestOK
    <2>2. requests[r] \in RequestRecord /\ requests \in [Request -> RequestRecord]
      BY DEF TypeInv, RequestsOK
    <2>3. NextRow(r)[r].act = requests[r].act /\ NextRow(r)[r].step = "insert"
          /\ NextRow(r) \in [Request -> RequestRecord]
      <3>1. requests[r].rows # <<>> /\ requests[r].step \in {"insert", "write"}
        BY <1>3 DEF FindDuplicate, InsertRow
      <3>2. NextRow(r) = [requests EXCEPT ![r] = NextRow(r)[r]] /\ NextRow(r)[r] \in RequestRecord
        BY <3>1, NextRowType DEF RequestOK
      <3>3. NextRow(r) \in [Request -> RequestRecord]
        BY <2>2, <3>2
      <3>4. NextRow(r)[r] = [requests[r] EXCEPT !.rows = Tail(@), !.step = "insert"]
        BY <2>2 DEF NextRow
      <3>5. QED
        BY <2>2, <3>3, <3>4 DEF RequestRecord
    <2>4. ASSUME requests'[r].act = requests[r].act \/ requests'[r] \in {Idle, NextRow(r)[r]}
          PROVE  FALSE
      <3>1. ~Edits(requests'[r]) \/ requests'[r].act = requests[r].act
        BY <2>3, <2>4, IdleStep, NoEdits
      <3>2. QED
        BY <2>1, <2>2, <3>1, TypeStep DEF TypeInv, RequestsOK, RequestOK
    <2>5. CASE FindDuplicate(r)
      <3>1. CASE requests' = [requests EXCEPT ![r].step = "write"]
        BY <2>2, <2>4, <3>1 DEF RequestRecord
      <3>2. CASE requests' = [requests EXCEPT ![r] = Idle] \/ requests' = NextRow(r)
        BY <2>2, <2>4, <3>2
      <3>3. QED
        BY <2>5, <3>1, <3>2 DEF FindDuplicate
    <2>6. CASE InsertRow(r)
      <3>1. CASE requests' = [NextRow(r) EXCEPT ![r].fresh = @ \union {AsStored(r, Head(requests[r].rows))}]
        BY <2>3, <2>4, <3>1 DEF RequestRecord
      <3>2. CASE requests' = [requests EXCEPT ![r] = Idle] \/ requests' = NextRow(r)
        BY <2>2, <2>4, <3>2
      <3>3. QED
        BY <2>6, <3>1, <3>2 DEF InsertRow
    <2>7. QED
      BY <1>3, <2>5, <2>6
  <1>4. CASE \/ \E act \in {"create", "import"}, rows \in Files : SendRows(r, act, rows)
             \/ \E act \in {"rename", "delete"}, s \in Source : CheckSource(r, act, s)
    <2>1. requests[r] \in RequestRecord /\ requests \in [Request -> RequestRecord]
      BY DEF TypeInv, RequestsOK
    <2>2. ASSUME NEW act \in {"create", "import"}, NEW rows \in Files, SendRows(r, act, rows)
          PROVE  requests'[r].step = "insert"
      BY <2>1, <2>2 DEF SendRows, RequestRecord
    <2>3. ASSUME NEW act \in {"rename", "delete"}, NEW s \in Source, CheckSource(r, act, s)
          PROVE  requests'[r].step = "write" /\ requests'[r].act = act
      BY <2>1, <2>3 DEF CheckSource, RequestRecord
    <2>4. QED
      BY <1>4, <2>2, <2>3, NoEdits DEF Edits
  <1>5. CASE ClearGrants(r)
    BY <1>5 DEF ClearGrants, TypeInv, RequestsOK, RequestRecord, Edits, Proceeds
  <1>6. CASE UNCHANGED requests
    BY <1>1, <1>6
  <1>7. ASSUME NEW u \in User, Register(u) \/ Login(u) \/ Expire(u) PROVE UNCHANGED requests
    BY <1>7 DEF Register, Login, Expire
  <1>8. ASSUME NEW p \in Request, p # r, Works(p) \/ \E u \in User : Start(p, u)
        PROVE  requests'[r] = requests[r]
    BY <1>8, OnlyOne
  <1>9. QED
    BY <1>1, <1>2, <1>3, <1>4, <1>5, <1>6, <1>7, <1>8, NextSplits DEF Works, orgVars

LEMMA ListsStep ==
  ASSUME TypeInv, ListsOK, [OrgNext]_orgVars
  PROVE  ListsOK'
  <1> SUFFICES ASSUME NEW r \in Request, Edits(requests'[r]), NEW s \in requests'[r].list
               PROVE  s \in used' /\ (s \in Live' => sources'[s].org = OrgOfUser[requests'[r].user])
    BY DEF ListsOK, OrgOfRequest, Edits
  <1>1. SourcesKept
    BY SourcesType
  <1>2. CASE Proceeds(r)
    <2>1. s \in used /\ (s \in Live => sources[s].org = OrgOfUser[requests[r].user])
      BY <1>2 DEF Proceeds, ListsOK, OrgOfRequest
    <2>2. QED
      BY <1>1, <1>2, <2>1 DEF Proceeds, SourcesKept
  <1>3. ASSUME NEW u \in Sub, NEW list \in SUBSET Source, CheckMember(r, u, list)
        PROVE  s \in used' /\ (s \in Live' => sources'[s].org = OrgOfUser[requests'[r].user])
    <2>1. requests'[r].list = list /\ requests'[r].user = requests[r].user
      <3>1. requests \in [Request -> RequestRecord] /\ requests[r] \in RequestRecord
        BY DEF TypeInv, RequestsOK
      <3>2. CASE requests' = [requests EXCEPT ![r].step = "replace", ![r].act = "add", ![r].member = u, ![r].list = list]
        BY <3>1, <3>2 DEF RequestRecord
      <3>3. CASE requests' = [requests EXCEPT ![r].step = "write", ![r].act = "edit", ![r].member = u, ![r].list = list]
        BY <3>1, <3>3 DEF RequestRecord
      <3>4. QED
        BY <1>3, <3>2, <3>3 DEF CheckMember
    <2>2. s \in Live /\ sources[s].org = OrgOfUser[requests[r].user] /\ UNCHANGED <<sources, used>>
      BY <1>3, <2>1 DEF CheckMember, Valid, OrgOfRequest
    <2>3. QED
      BY <2>1, <2>2 DEF TypeInv, SourcesOK
  <1>4. QED
    BY <1>2, <1>3, EditsBefore

\* What a request may add to the grants.
LEMMA GrantsFrom ==
  ASSUME TypeInv, [OrgNext]_orgVars
  PROVE  \/ grants' \subseteq grants
         \/ \E r \in Request, role \in Roles : SetGrants(r, role)
  <1>1. ASSUME NEW u \in User, Register(u) \/ Login(u) \/ Expire(u) PROVE UNCHANGED grants
    BY <1>1 DEF Register, Login, Expire
  <1>2. ASSUME NEW r \in Request, NEW u \in User, Start(r, u) PROVE UNCHANGED grants
    BY <1>2 DEF Start
  <1>3. ASSUME NEW r \in Request, Works(r), ~\E role \in Roles : SetGrants(r, role)
        PROVE  grants' \subseteq grants
    BY <1>3 DEF Works, Ends, Abandon, CommitRows, RenameSource, DeleteSource, PatchMember, DeleteMember,
                SendRows, FindDuplicate, InsertRow, CheckSource, CheckMember, ClearGrants
  <1>4. QED
    BY <1>1, <1>2, <1>3, NextSplits DEF orgVars

LEMMA GrantsStep ==
  ASSUME TypeInv, GrantInv, [OrgNext]_orgVars
  PROVE  GrantsOwnOrg'
  <1>1. ASSUME NEW r \in Request, DeleteSource(r) PROVE GrantsOwnOrg'
    <2>1. grants' = {g \in grants : g[2] # requests[r].source} /\ Live' = Live \ {requests[r].source}
      BY <1>1, DeleteKeeps DEF DeleteSource
    <2>2. \A s \in Source : s # requests[r].source => sources'[s] = sources[s]
      BY <1>1, DeleteKeeps
    <2>3. QED
      BY <2>1, <2>2 DEF GrantInv, GrantsOwnOrg, Live
  <1>2. ASSUME Live \subseteq Live', grants' \subseteq grants PROVE GrantsOwnOrg'
    <2>1. ASSUME NEW g \in grants' PROVE g[2] \in Live' /\ sources'[g[2]].org = OrgOfUser[g[1]]
      <3>1. g[2] \in Live /\ sources[g[2]].org = OrgOfUser[g[1]] /\ g[2] \in used
        BY <1>2 DEF GrantInv, GrantsOwnOrg, TypeInv, SourcesOK
      <3>2. QED
        BY <1>2, <3>1, SourcesType DEF SourcesKept
    <2>2. QED
      BY <2>1 DEF GrantsOwnOrg
  <1>3. ASSUME NEW r \in Request, NEW role \in Roles, SetGrants(r, role) PROVE GrantsOwnOrg'
    <2>1. /\ UNCHANGED sources /\ requests[r].list \subseteq Live
          /\ grants' \subseteq grants \union ({requests[r].member} \X requests[r].list)
          /\ requests[r].step = "replace"
      BY <1>3 DEF SetGrants
    <2>2. OrgOfUser[requests[r].member] = OrgOfUser[requests[r].user] /\ Edits(requests[r])
      BY <2>1 DEF TypeInv, RequestsOK, RequestOK, Edits
    <2>3. \A s \in requests[r].list : s \in Live /\ sources[s].org = OrgOfUser[requests[r].user]
      BY <2>1, <2>2 DEF GrantInv, ListsOK, OrgOfRequest
    <2>4. Live' = Live
      BY <2>1 DEF Live
    <2>5. QED
      BY <2>1, <2>2, <2>3, <2>4 DEF GrantInv, GrantsOwnOrg
  <1>4. (\E r \in Request : DeleteSource(r)) \/ Live \subseteq Live'
    <2>1. ASSUME NEW r \in Request, CommitRows(r) PROVE Live \subseteq Live'
      BY <2>1, CommitKeeps DEF Live
    <2>2. ASSUME NEW r \in Request, RenameSource(r) PROVE Live \subseteq Live'
      BY <2>2, RenameKeeps
    <2>3. CASE UNCHANGED <<sources, used, crawled>>
      BY <2>3 DEF Live
    <2>4. QED
      BY <2>1, <2>2, <2>3, OthersQuiet DEF Writes
  <1>5. QED
    BY <1>1, <1>2, <1>3, <1>4, GrantsFrom

LEMMA InitGrants == OrgInit => GrantInv
  <1> SUFFICES ASSUME OrgInit PROVE GrantInv
    OBVIOUS
  <1>1. ASSUME NEW r \in Request PROVE ~Edits(requests[r])
    <2>1. requests[r].step = "idle"
      BY DEF OrgInit, Idle
    <2>2. QED
      BY <2>1 DEF Edits
  <1>2. QED
    BY <1>1 DEF OrgInit, GrantInv, ListsOK, GrantsOwnOrg

LEMMA GrantStep == TypeInv /\ GrantInv /\ [OrgNext]_orgVars => GrantInv'
  BY ListsStep, GrantsStep DEF GrantInv

\* A sub-account is granted sources of its own organization only, whatever happens to
\* sources and requests between the check of a list and its insertion.
THEOREM GrantsOwn == OrgSpec => []GrantsOwnOrg
  <1>1. OrgInit => TypeInv /\ GrantInv
    BY InitType, InitGrants
  <1>2. TypeInv /\ GrantInv /\ [OrgNext]_orgVars => (TypeInv /\ GrantInv)'
    BY TypeStep, GrantStep
  <1>3. GrantInv => GrantsOwnOrg
    BY DEF GrantInv
  <1>4. QED
    BY <1>1, <1>2, <1>3, PTL DEF OrgSpec

(***************************************************************************)
(* What was asked for                                                      *)
(*                                                                         *)
(* An edit deletes the grants it saw and inserts its list.  What is left   *)
(* beyond the list was granted by others since the edit looked, and all    *)
(* that was granted since is left: that is what an edit under way has to   *)
(* know (Pending).  A new sub-account has no grant.                        *)
(***************************************************************************)

\* A request between its DELETE and its commit: others may have granted the sub-account
\* sources since, and nobody has taken these back except with the account.
Pending ==
    \A r \in Request, u \in Sub : requests[r].step = "replace" /\ requests[r].member = u =>
        /\ since[r] \subseteq used
        /\ requests[r].act = "edit" =>
              /\ Old(u) \subseteq requests[r].old \union since[r]
              /\ accounts[u].state # "deleted" => since[r] \intersect Live \subseteq Old(u)
        /\ requests[r].act = "add" /\ accounts[u].state = "none" => since[r] = {}

AskedInv ==
    /\ \A u \in Sub : asked[u] \subseteq used
    /\ \A u \in Sub : accounts[u].state = "none" => Old(u) = {}
    /\ Pending
    /\ GrantsAsAsked

LEMMA AskedIsOld == GrantsAsAsked <=> \A u \in Sub : Old(u) = asked[u] \intersect Live
  BY DEF GrantsAsAsked, Old, Live

\* What a commit leaves: its list, and what others have granted since its DELETE.
LEMMA SetsList ==
  ASSUME TypeInv, AskedInv, NEW r \in Request, NEW role \in Roles, SetGrants(r, role),
         NEW u \in Sub, u = requests[r].member,
         NEW gone, gone = requests[r].old \ since[r]
  PROVE  /\ Old(u)' = (Old(u) \ gone) \union requests[r].list
         /\ Old(u) \ gone = since[r] \intersect Live
         /\ \A v \in Sub \ {u} : Old(v)' = Old(v)
         /\ accounts[u].state # "deleted" /\ accounts'[u].state # "none"
         /\ \A v \in Sub \ {u} : accounts'[v] = accounts[v]
  <1>1. /\ requests[r].step = "replace" /\ accounts[u].state # "deleted"
        /\ (requests[r].act = "add") <=> (accounts[u].state = "none")
        /\ grants' = {g \in grants : g[1] = u => g[2] \notin gone} \union ({u} \X requests[r].list)
    BY DEF SetGrants
  <1>2. requests[r].act \in {"add", "edit"} /\ requests[r].list \subseteq Source
    BY <1>1 DEF TypeInv, RequestsOK, RequestOK, RequestRecord, Edits
  <1>3. \A v \in Sub, s \in Source :
            <<v, s>> \in grants' <=> IF v = u THEN (<<u, s>> \in grants /\ s \notin gone) \/ s \in requests[r].list
                                     ELSE <<v, s>> \in grants
    BY <1>1
  <1>4. Old(u)' = (Old(u) \ gone) \union requests[r].list
    BY <1>2, <1>3 DEF Old
  <1>5. \A v \in Sub \ {u} : Old(v)' = Old(v)
    BY <1>3 DEF Old
  <1>6. Old(u) \ gone = since[r] \intersect Live
    <2>1. CASE requests[r].act = "edit"
      <3>1. Old(u) \subseteq requests[r].old \union since[r] /\ since[r] \intersect Live \subseteq Old(u)
        BY <1>1, <2>1 DEF AskedInv, Pending
      <3>2. Old(u) \subseteq Live
        BY AskedIsOld DEF AskedInv
      <3>3. QED
        BY <3>1, <3>2
    <2>2. CASE requests[r].act = "add"
      <3>1. Old(u) = {} /\ since[r] = {}
        BY <1>1, <2>2 DEF AskedInv, Pending
      <3>2. QED
        BY <3>1
    <2>3. QED
      BY <1>2, <2>1, <2>2
  <1>7. accounts'[u].state # "none" /\ \A v \in Sub \ {u} : accounts'[v] = accounts[v]
    <2>1. PICK state \in {"active", "locked"} : accounts' = [accounts EXCEPT ![u] = [state |-> state, role |-> role]]
      BY DEF SetGrants
    <2>2. QED
      BY <2>1 DEF TypeInv, User
  <1>8. QED
    BY <1>1, <1>4, <1>5, <1>6, <1>7

LEMMA SetPending ==
  ASSUME TypeInv, AskedInv, NEW r \in Request, NEW role \in Roles, SetGrants(r, role)
  PROVE  Pending'
  <1>a. PICK u \in Sub : u = requests[r].member
    BY DEF SetGrants, TypeInv, RequestsOK, RequestOK, Edits
  <1>b. PICK gone : gone = requests[r].old \ since[r]
    OBVIOUS
  <1>c. PICK list : list = requests[r].list
    OBVIOUS
  <1>1. /\ requests' = [requests EXCEPT ![r] = Idle] /\ UNCHANGED <<sources, used>>
        /\ list \subseteq Live /\ requests[r].step = "replace"
        /\ since' = [q \in Request |->
              IF q \in {p \in Request \ {r} : requests[p].step = "replace" /\ requests[p].member = u}
              THEN (since[q] \ gone) \union list ELSE since[q]]
    BY <1>a, <1>b, <1>c DEF SetGrants
  <1>2. list \subseteq used /\ Live' = Live
    BY <1>1 DEF TypeInv, SourcesOK, Live
  <1>3. /\ Old(u)' = (Old(u) \ gone) \union list /\ \A v \in Sub \ {u} : Old(v)' = Old(v)
        /\ accounts[u].state # "deleted" /\ accounts'[u].state # "none"
        /\ \A v \in Sub \ {u} : accounts'[v] = accounts[v]
    <2>1. /\ Old(u)' = (Old(u) \ gone) \union requests[r].list /\ \A v \in Sub \ {u} : Old(v)' = Old(v)
          /\ accounts[u].state # "deleted" /\ accounts'[u].state # "none"
          /\ \A v \in Sub \ {u} : accounts'[v] = accounts[v]
      BY <1>a, <1>b, SetsList
    <2>2. QED
      BY <1>c, <2>1
  <1>4. SUFFICES ASSUME NEW q \in Request, NEW v \in Sub, requests'[q].step = "replace", requests'[q].member = v
                 PROVE  /\ since'[q] \subseteq used
                        /\ requests'[q].act = "edit" =>
                              /\ Old(v)' \subseteq requests'[q].old \union since'[q]
                              /\ accounts'[v].state # "deleted" => since'[q] \intersect Live \subseteq Old(v)'
                        /\ requests'[q].act = "add" /\ accounts'[v].state = "none" => since'[q] = {}
    BY <1>1, <1>2 DEF Pending
  <1>5. q # r
    BY <1>1, <1>4, IdleStep DEF TypeInv, RequestsOK
  <1>6. requests'[q] = requests[q]
    BY <1>1, <1>5 DEF TypeInv, RequestsOK
  <1>7. /\ since[q] \subseteq used
        /\ requests[q].act = "edit" =>
              /\ Old(v) \subseteq requests[q].old \union since[q]
              /\ accounts[v].state # "deleted" => since[q] \intersect Live \subseteq Old(v)
        /\ requests[q].act = "add" /\ accounts[v].state = "none" => since[q] = {}
    BY <1>4, <1>6 DEF AskedInv, Pending
  <1>8. CASE v = u
    <2>1. since'[q] = (since[q] \ gone) \union list
      BY <1>1, <1>4, <1>5, <1>6, <1>8
    <2>2. Old(v)' = (Old(v) \ gone) \union list
      BY <1>3, <1>8 DEF Old
    <2>3. QED
      BY <1>1, <1>2, <1>3, <1>6, <1>7, <1>8, <2>1, <2>2
  <1>9. CASE v # u
    <2>1. since'[q] = since[q]
      BY <1>1, <1>4, <1>5, <1>6, <1>9
    <2>2. Old(v)' = Old(v) /\ accounts'[v] = accounts[v]
      BY <1>3, <1>9
    <2>3. QED
      BY <1>6, <1>7, <2>1, <2>2
  <1>10. QED
    BY <1>8, <1>9

LEMMA SetAsked ==
  ASSUME TypeInv, AskedInv, NEW r \in Request, NEW role \in Roles, SetGrants(r, role)
  PROVE  AskedInv'
  <1>1. PICK u \in Sub : u = requests[r].member
    BY DEF SetGrants, TypeInv, RequestsOK, RequestOK, Edits
  <1>2. PICK gone : gone = requests[r].old \ since[r]
    OBVIOUS
  <1>3. /\ Old(u)' = (since[r] \intersect Live) \union requests[r].list
        /\ \A v \in Sub \ {u} : Old(v)' = Old(v)
        /\ accounts'[u].state # "none" /\ \A v \in Sub \ {u} : accounts'[v] = accounts[v]
    BY <1>1, <1>2, SetsList
  <1>4. UNCHANGED <<sources, used>> /\ Live' = Live /\ requests[r].list \subseteq Live /\ requests[r].step = "replace"
    BY DEF SetGrants, Live
  <1>5. \A v \in Sub : asked'[v] = IF v = u THEN requests[r].list \union since[r] ELSE asked[v]
    BY <1>1 DEF SetGrants, TypeInv
  <1>6. since[r] \subseteq used
    BY <1>1, <1>4 DEF AskedInv, Pending
  <1>7. \A v \in Sub : asked'[v] \subseteq used'
    BY <1>4, <1>5, <1>6 DEF AskedInv, TypeInv, SourcesOK
  <1>8. \A v \in Sub : accounts'[v].state = "none" => Old(v)' = {}
    BY <1>3 DEF AskedInv
  <1>9. \A v \in Sub : Old(v)' = asked'[v] \intersect Live'
    <2>1. \A v \in Sub : Old(v) = asked[v] \intersect Live
      BY AskedIsOld DEF AskedInv
    <2>2. QED
      BY <1>3, <1>4, <1>5, <2>1
  <1>10. GrantsAsAsked'
    BY <1>9 DEF GrantsAsAsked, Old, Live
  <1>11. QED
    BY <1>7, <1>8, <1>10, SetPending DEF AskedInv

\* A sub-account keeps what was asked for it, or loses all with its account.
Keeps(u) ==
    /\ Old(u)' = Old(u) \intersect Live' /\ asked'[u] = asked[u]
    /\ accounts[u].state = "deleted" => accounts'[u].state = "deleted"
    /\ accounts'[u].state = "none" => accounts[u].state = "none"

Loses(u) == Old(u)' = {} /\ asked'[u] = {} /\ accounts'[u].state = "deleted"

LEMMA LivesOn ==
  ASSUME TypeInv, AskedInv, UNCHANGED <<grants, asked>>, Live \subseteq Live', NEW u \in Sub,
         accounts'[u].state = accounts[u].state
         \/ (accounts[u].state # "deleted" /\ accounts'[u].state # "none")
  PROVE  Keeps(u)
  <1>1. Old(u)' = Old(u) /\ Old(u) \subseteq Live
    BY AskedIsOld DEF Old, AskedInv
  <1>2. QED
    BY <1>1 DEF Keeps

\* What the steps do that commit no edit.
LEMMA QuietGrants ==
  ASSUME TypeInv, AskedInv, [OrgNext]_orgVars,
         ~\E r \in Request, role \in Roles : SetGrants(r, role),
         NEW u \in Sub
  PROVE  Keeps(u) \/ Loses(u)
  <1>0. u \in User /\ UNCHANGED sources => Live' = Live
    BY DEF User, Live
  <1>1. ASSUME NEW v \in User, Register(v) \/ Login(v) \/ Expire(v) PROVE Keeps(u)
    <2>1. /\ UNCHANGED <<grants, asked, sources>>
          /\ accounts' = accounts \/ (accounts[v].state = "none" /\ accounts' = [accounts EXCEPT ![v].state = "active"])
      BY <1>1 DEF Register, Login, Expire
    <2>2. accounts'[u].state = accounts[u].state \/ (accounts[u].state # "deleted" /\ accounts'[u].state # "none")
      BY <1>0, <2>1 DEF TypeInv, User
    <2>3. Live' = Live
      BY <2>1 DEF Live
    <2>4. QED
      BY <2>1, <2>2, <2>3, LivesOn
  <1>2. ASSUME UNCHANGED <<grants, asked, sources, accounts>> PROVE Keeps(u)
    <2>1. Live' = Live
      BY <1>2 DEF Live
    <2>2. QED
      BY <1>2, <2>1, LivesOn
  <1>3. ASSUME NEW r \in Request, NEW v \in User, Start(r, v) PROVE UNCHANGED <<grants, asked, sources, accounts>>
    BY <1>3 DEF Start
  <1>4. ASSUME NEW r \in Request, CommitRows(r) PROVE Keeps(u)
    <2>1. UNCHANGED <<grants, asked, accounts>> /\ Live \subseteq Live'
      BY <1>4, CommitKeeps DEF CommitRows, Live
    <2>2. QED
      BY <2>1, LivesOn
  <1>5. ASSUME NEW r \in Request, RenameSource(r) PROVE Keeps(u)
    <2>1. UNCHANGED <<grants, asked, accounts>> /\ Live' = Live
      BY <1>5, RenameKeeps DEF RenameSource
    <2>2. QED
      BY <2>1, LivesOn
  <1>6. ASSUME NEW r \in Request, DeleteSource(r) PROVE Keeps(u)
    <2>1. /\ grants' = {g \in grants : g[2] # requests[r].source} /\ UNCHANGED <<accounts, asked>>
          /\ Live' = Live \ {requests[r].source}
      BY <1>6, DeleteKeeps DEF DeleteSource
    <2>2. Old(u)' = Old(u) \ {requests[r].source} /\ Old(u) \subseteq Live
      BY <2>1, AskedIsOld DEF Old, AskedInv
    <2>3. QED
      BY <2>1, <2>2 DEF Keeps
  <1>7. ASSUME NEW r \in Request, NEW v \in Sub, PatchMember(r, v) PROVE Keeps(u)
    <2>1. UNCHANGED <<grants, asked, sources>> /\ accounts[v].state \in {"active", "locked"}
      BY <1>7 DEF PatchMember
    <2>2. PICK state \in {"active", "locked"}, role \in Roles :
              accounts' = [accounts EXCEPT ![v] = [state |-> state, role |-> role]]
      BY <1>7 DEF PatchMember
    <2>3. accounts'[u].state = accounts[u].state \/ (accounts[u].state # "deleted" /\ accounts'[u].state # "none")
      BY <2>1, <2>2 DEF TypeInv, User
    <2>4. Live' = Live
      BY <2>1 DEF Live
    <2>5. QED
      BY <2>1, <2>3, <2>4, LivesOn
  <1>8. ASSUME NEW r \in Request, NEW v \in Sub, DeleteMember(r, v) PROVE Keeps(u) \/ Loses(u)
    <2>1. /\ grants' = {g \in grants : g[1] # v} /\ UNCHANGED sources
          /\ asked' = [asked EXCEPT ![v] = {}] /\ accounts' = [accounts EXCEPT ![v].state = "deleted"]
      BY <1>8 DEF DeleteMember
    <2>2. Live' = Live /\ Old(u) \subseteq Live
      BY <2>1, AskedIsOld DEF Live, AskedInv
    <2>3. Old(u)' = IF u = v THEN {} ELSE Old(u)
      BY <2>1 DEF Old
    <2>4. asked'[u] = IF u = v THEN {} ELSE asked[u]
      BY <2>1 DEF TypeInv
    <2>5. accounts'[u].state = IF u = v THEN "deleted" ELSE accounts[u].state
      BY <2>1 DEF TypeInv, User
    <2>6. QED
      BY <2>2, <2>3, <2>4, <2>5 DEF Keeps, Loses
  <1>9. ASSUME NEW r \in Request, Works(r), ~CommitRows(r), ~RenameSource(r), ~DeleteSource(r),
               ~\E v \in Sub : PatchMember(r, v) \/ DeleteMember(r, v)
        PROVE  UNCHANGED <<grants, asked, sources, accounts>>
    BY <1>9 DEF Works, Ends, Abandon, SendRows, FindDuplicate, InsertRow, CheckSource, CheckMember, ClearGrants
  <1>10. QED
    BY <1>1, <1>2, <1>3, <1>4, <1>5, <1>6, <1>7, <1>8, <1>9, NextSplits DEF orgVars

\* A request that is about to commit was so before, or has looked just now.
LEMMA PendingBefore ==
  ASSUME TypeInv, [OrgNext]_orgVars, ~\E r \in Request, role \in Roles : SetGrants(r, role),
         NEW r \in Request, requests'[r].step = "replace"
  PROVE  \/ requests'[r] = requests[r] /\ since'[r] = since[r]
         \/ /\ since'[r] = {} /\ UNCHANGED <<grants, used, accounts>>
            /\ requests'[r].act = "edit" => requests'[r].old = Old(requests'[r].member)
  <1>1. requests \in [Request -> RequestRecord] /\ requests[r] \in RequestRecord /\ Edits(requests'[r])
    BY DEF TypeInv, RequestsOK, Edits
  <1>2. CASE ClearGrants(r)
    <2>1. requests'[r].old = Old(requests[r].member) /\ requests'[r].member = requests[r].member
      BY <1>1, <1>2 DEF ClearGrants, RequestRecord
    <2>2. QED
      BY <1>2, <2>1 DEF ClearGrants, TypeInv
  <1>3. ASSUME NEW u \in Sub, NEW list \in SUBSET Source, CheckMember(r, u, list)
        PROVE  requests'[r].act = "add" /\ since'[r] = {} /\ UNCHANGED <<grants, used, accounts>>
    <2>1. CASE requests' = [requests EXCEPT ![r].step = "replace", ![r].act = "add", ![r].member = u, ![r].list = list]
      <3>1. requests'[r].act = "add"
        BY <1>1, <2>1 DEF RequestRecord
      <3>2. QED
        BY <1>3, <3>1 DEF CheckMember, TypeInv
    <2>2. CASE requests' = [requests EXCEPT ![r].step = "write", ![r].act = "edit", ![r].member = u, ![r].list = list]
      <3>1. requests'[r].step = "write"
        BY <1>1, <2>2 DEF RequestRecord
      <3>2. QED
        BY <3>1
    <2>3. QED
      BY <1>3, <2>1, <2>2 DEF CheckMember
  <1>4. CASE ~Looks(r)
    <2>1. requests'[r] = requests[r]
      BY <1>1, <1>4, EditsBefore DEF Proceeds, Looks
    <2>2. since'[r] = since[r]
      <3>1. CASE UNCHANGED since
        BY <3>1
      <3>2. ASSUME NEW p \in Request, Looks(p), since' = [since EXCEPT ![p] = {}]
            PROVE  since'[r] = since[r]
        BY <1>4, <3>2 DEF TypeInv
      <3>3. QED
        BY <3>1, <3>2, SinceBy
    <2>3. QED
      BY <2>1, <2>2
  <1>5. QED
    BY <1>2, <1>3, <1>4 DEF Looks

LEMMA QuietPending ==
  ASSUME TypeInv, AskedInv, [OrgNext]_orgVars, ~\E r \in Request, role \in Roles : SetGrants(r, role)
  PROVE  Pending'
  <1> SUFFICES ASSUME NEW r \in Request, NEW u \in Sub, requests'[r].step = "replace", requests'[r].member = u
               PROVE  /\ since'[r] \subseteq used'
                      /\ requests'[r].act = "edit" =>
                            /\ Old(u)' \subseteq requests'[r].old \union since'[r]
                            /\ accounts'[u].state # "deleted" => since'[r] \intersect Live' \subseteq Old(u)'
                      /\ requests'[r].act = "add" /\ accounts'[u].state = "none" => since'[r] = {}
    BY DEF Pending
  <1>1. CASE requests'[r] = requests[r] /\ since'[r] = since[r]
    <2>1. /\ since[r] \subseteq used
          /\ requests[r].act = "edit" =>
                /\ Old(u) \subseteq requests[r].old \union since[r]
                /\ accounts[u].state # "deleted" => since[r] \intersect Live \subseteq Old(u)
          /\ requests[r].act = "add" /\ accounts[u].state = "none" => since[r] = {}
      BY <1>1 DEF AskedInv, Pending
    <2>2. used \subseteq used' /\ used \intersect Live' \subseteq Live
      BY SourcesType DEF SourcesKept
    <2>3. Keeps(u) \/ Loses(u)
      BY QuietGrants
    <2>4. CASE Keeps(u)
      BY <1>1, <2>1, <2>2, <2>4 DEF Keeps
    <2>5. CASE Loses(u)
      BY <1>1, <2>1, <2>2, <2>5 DEF Loses
    <2>6. QED
      BY <2>3, <2>4, <2>5
  <1>2. CASE /\ since'[r] = {} /\ UNCHANGED <<grants, used, accounts>>
             /\ requests'[r].act = "edit" => requests'[r].old = Old(requests'[r].member)
    <2>1. Old(u)' = Old(u)
      BY <1>2 DEF Old
    <2>2. QED
      BY <1>2, <2>1
  <1>3. QED
    BY <1>1, <1>2, PendingBefore

LEMMA AskedStep == TypeInv /\ AskedInv /\ [OrgNext]_orgVars => AskedInv'
  <1> SUFFICES ASSUME TypeInv, AskedInv, [OrgNext]_orgVars PROVE AskedInv'
    OBVIOUS
  <1>1. CASE \E r \in Request, role \in Roles : SetGrants(r, role)
    BY <1>1, SetAsked
  <1>2. CASE ~\E r \in Request, role \in Roles : SetGrants(r, role)
    <2>1. \A u \in Sub : Keeps(u) \/ Loses(u)
      BY <1>2, QuietGrants
    <2>2. used \subseteq used' /\ used \intersect Live' \subseteq Live
      BY SourcesType DEF SourcesKept
    <2>3. \A u \in Sub : Old(u) = asked[u] \intersect Live
      BY AskedIsOld DEF AskedInv
    <2>4. \A u \in Sub : asked'[u] \subseteq used'
      BY <2>1, <2>2 DEF AskedInv, Keeps, Loses
    <2>5. \A u \in Sub : accounts'[u].state = "none" => Old(u)' = {}
      BY <2>1 DEF AskedInv, Keeps, Loses
    <2>6. \A u \in Sub : Old(u)' = asked'[u] \intersect Live'
      BY <2>1, <2>2, <2>3 DEF AskedInv, Keeps, Loses
    <2>7. GrantsAsAsked'
      BY <2>6 DEF GrantsAsAsked, Old, Live
    <2>8. QED
      BY <1>2, <2>4, <2>5, <2>7, QuietPending DEF AskedInv
  <1>3. QED
    BY <1>1, <1>2

LEMMA InitAsked == OrgInit => AskedInv
  <1> SUFFICES ASSUME OrgInit PROVE AskedInv
    OBVIOUS
  <1>1. \A u : Old(u) = {}
    BY DEF OrgInit, Old
  <1>2. Pending
    BY IdleStep DEF OrgInit, Pending
  <1>3. QED
    BY <1>1, <1>2, AskedIsOld DEF OrgInit, AskedInv

\* A sub-account may see the list of the edit that was committed last and what overlapping
\* edits have granted since that edit looked, of the sources that still exist: no less, as
\* no row is lost, and no more.
THEOREM GrantedAsAsked == OrgSpec => []GrantsAsAsked
  <1>1. OrgInit => TypeInv /\ AskedInv
    BY InitType, InitAsked
  <1>2. TypeInv /\ AskedInv /\ [OrgNext]_orgVars => (TypeInv /\ AskedInv)'
    BY TypeStep, AskedStep
  <1>3. AskedInv => GrantsAsAsked
    BY DEF AskedInv
  <1>4. QED
    BY <1>1, <1>2, <1>3, PTL DEF OrgSpec
=============================================================================
