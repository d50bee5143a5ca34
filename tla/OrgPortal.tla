--------------------------------- MODULE OrgPortal ---------------------------------
(***************************************************************************)
(* Who may do what in the customer portal: registration and login          *)
(* (routers/auth.py), get_current_user (deps.py), the sub-accounts of an   *)
(* organization (routers/members.py) and its sources (the first part of    *)
(* routers/org.py).                                                        *)
(*                                                                         *)
(* A request first reads who its caller is, in a transaction of its own,   *)
(* and then works in a second one, statement by statement.  Requests       *)
(* overlap; what a transaction has written is seen by others when it       *)
(* commits.                                                                *)
(***************************************************************************)
EXTENDS Naturals, FiniteSets, Sequences, SequencesExt

CONSTANTS
    Main,        \* org_main users
    Sub,         \* org_sub users
    OrgOfUser,   \* the organization of a user
    Source,      \* ids of crawl_targets
    Url,         \* spellings of URLs: [page, scheme, slashes, padded]
    Request,     \* requests that may be under way at the same time
    Files,       \* the CSV files that are imported: sequences of spellings
    Given,       \* rows of crawl_targets at the start, by id
    Crawled,     \* those of them with documents
    MaxRequests  \* bound: requests

User == Main \union Sub
NoUser == "nobody"
NoSource == "none"
NoRow == [gone |-> TRUE]
Roles == {"report_viewer", "configurator"}

ASSUME UserAssumption == Main \intersect Sub = {} /\ NoUser \notin User
ASSUME UrlAssumption ==
    /\ Url \subseteq [page : STRING, scheme : {"", "https://", "HTTPS://"}, slashes : 0..2, padded : BOOLEAN]
    /\ \A url \in Url : [url EXCEPT !.padded = FALSE] \in Url
ASSUME FileAssumption == Files \subseteq Seq(Url)

SourceRow == [org : {OrgOfUser[u] : u \in User}, url : Url, by : User]

ASSUME GivenAssumption ==
    /\ DOMAIN Given \subseteq Source /\ Crawled \subseteq DOMAIN Given
    /\ \A s \in DOMAIN Given : Given[s] \in SourceRow
ASSUME BoundAssumption == MaxRequests \in Nat

VARIABLES
    sources,   \* crawl_targets: [org, url, by], by being who wrote the row last
    used,      \* ids the sequence has given out
    crawled,   \* sources with documents
    accounts,  \* users: [state, role], role being the functional_role
    grants,    \* user_target_access
    tokens,    \* users with a valid access token
    requests,  \* what every request is doing
    since,     \* what others have granted a request's sub-account since its DELETE
    asked,     \* history: the sources asked for a sub-account
    count

orgVars == <<sources, used, crawled, accounts, grants, tokens, requests, since, asked, count>>

Live == {s \in Source : sources[s] # NoRow}
Granted(u) == {s \in Live : <<u, s>> \in grants}
Active(u) == accounts[u].state = "active"

Idle == [step |-> "idle", user |-> NoUser, act |-> "", able |-> FALSE, reach |-> {}, entitled |-> {},
         source |-> NoSource, rows |-> <<>>, fresh |-> {}, member |-> NoUser, list |-> {}, old |-> {}]

OrgTypeOK ==
    /\ used \subseteq Source /\ Live \subseteq used /\ crawled \subseteq Live
    /\ \A s \in Live : sources[s] \in SourceRow
    /\ accounts \in [User -> [state : {"none", "active", "locked", "deleted"},
                              role : Roles]]
    /\ grants \subseteq Sub \X Source /\ tokens \subseteq User /\ since \in [Request -> SUBSET Source]
    /\ \A r \in Request : /\ requests[r].step \in {"idle", "check", "insert", "write", "replace"}
                          /\ requests[r].rows \in Seq(Url) /\ requests[r].fresh \subseteq Url
    /\ count \in 0..MaxRequests

OrgInit ==
    /\ sources = [s \in Source |-> IF s \in DOMAIN Given THEN Given[s] ELSE NoRow]
    /\ accounts = [u \in User |->
          [state |-> IF u \in Main /\ \E s \in Live : sources[s].org = OrgOfUser[u] THEN "active" ELSE "none",
           role |-> "report_viewer"]]
    /\ used = DOMAIN Given /\ crawled = Crawled
    /\ grants = {} /\ tokens = {}
    /\ requests = [r \in Request |-> Idle]
    /\ asked = [u \in Sub |-> {}] /\ since = [r \in Request |-> {}]
    /\ count = 0

-----------------------------------------------------------------------------
(* Accounts and tokens *)

\* A main account comes with an organization of its own.
Register(u) ==
    /\ u \in Main /\ accounts[u].state = "none"
    /\ accounts' = [accounts EXCEPT ![u].state = "active"]
    /\ tokens' = tokens \union {u}
    /\ UNCHANGED <<sources, used, crawled, grants, requests, since, asked, count>>

Login(u) ==
    /\ Active(u) /\ u \notin tokens
    /\ tokens' = tokens \union {u}
    /\ UNCHANGED <<sources, used, crawled, accounts, grants, requests, since, asked, count>>

\* Twelve hours later.  Nothing else ends a token.
Expire(u) ==
    /\ u \in tokens
    /\ tokens' = tokens \ {u}
    /\ UNCHANGED <<sources, used, crawled, accounts, grants, requests, since, asked, count>>

\* get_current_user reads the account again for every request.
Known(u) == u \in tokens /\ Active(u)

\* _require_configurator.
Configurator(u) == u \in Main \/ accounts[u].role = "configurator"

\* What _owns_target lets a caller write, at this moment.
Reach(u) == {s \in Live : sources[s].org = OrgOfUser[u] /\ (u \in Sub => <<u, s>> \in grants)}

\* What the account may write at this moment; the history of the request keeps it.
Entitled(u) == {s \in Live : Active(u) /\ Configurator(u) /\ sources[s].org = OrgOfUser[u] /\ (u \in Sub => s \in Granted(u))}

Start(r, u) ==
    /\ requests[r].step = "idle" /\ count < MaxRequests /\ Known(u)
    /\ count' = count + 1
    /\ requests' = [requests EXCEPT ![r] = [Idle EXCEPT !.step = "check", !.user = u,
          !.able = Configurator(u), !.reach = Reach(u), !.entitled = Entitled(u)]]
    /\ UNCHANGED <<sources, used, crawled, accounts, grants, tokens, since, asked>>

\* The request ends, and with it all it has not committed: refused (403, 404,
\* 409), or by a constraint, a deadlock between two imports or a lost connection.
Abandon(r) ==
    /\ requests[r].step # "idle"
    /\ requests' = [requests EXCEPT ![r] = Idle]
    /\ UNCHANGED <<sources, used, crawled, accounts, grants, tokens, since, asked, count>>

-----------------------------------------------------------------------------
(* Sources *)

\* _normalize_url: the scheme is looked for before the text is lowered; blanks
\* and all slashes at the end are gone.
PyKey(u) == [page |-> u.page, scheme |-> IF u.scheme = "HTTPS://" THEN "https://" ELSE "",
             slashes |-> 0, padded |-> FALSE]

\* The expression over a stored url: lowered first, one slash less, blanks kept.
SqlKey(u) == [page |-> u.page, scheme |-> IF u.padded /\ u.scheme # "" THEN "https://" ELSE "",
              slashes |-> IF u.padded \/ u.slashes = 0 THEN u.slashes ELSE u.slashes - 1, padded |-> u.padded]

\* import_sources strips a cell before it stores it, create_source does not.
AsStored(r, u) == IF requests[r].act = "import" THEN [u EXCEPT !.padded = FALSE] ELSE u

OrgOfRequest(r) == OrgOfUser[requests[r].user]
UrlsOf(o) == {sources[s].url : s \in {t \in Live : sources[t].org = o}}

\* create_source has one row, import_sources those of its file.
SendRows(r, act, rows) ==
    /\ requests[r].step = "check" /\ requests[r].able
    /\ act \in {"create", "import"} /\ (act = "create" => Len(rows) = 1)
    /\ requests' = [requests EXCEPT ![r].step = "insert", ![r].act = act, ![r].rows = rows]
    /\ UNCHANGED <<sources, used, crawled, accounts, grants, tokens, since, asked, count>>

NextRow(r) == [requests EXCEPT ![r].rows = Tail(@), ![r].step = "insert"]

Known409(r, u) == \E v \in UrlsOf(OrgOfRequest(r)) \union requests[r].fresh : SqlKey(v) = PyKey(u)

\* The search for a duplicate: a row that is there is skipped, or refused.
FindDuplicate(r) ==
    /\ requests[r].step = "insert" /\ requests[r].rows # <<>>
    /\ LET row == Head(requests[r].rows)
       IN  requests' = IF ~Known409(r, row) THEN [requests EXCEPT ![r].step = "write"]
                       ELSE IF requests[r].act = "create" THEN [requests EXCEPT ![r] = Idle]
                       ELSE NextRow(r)
    /\ UNCHANGED <<sources, used, crawled, accounts, grants, tokens, since, asked, count>>

\* The unique index over the stored text: an insert waits for another one of the
\* same text that is not committed, skips a text that is there (import), or fails.
InsertRow(r) ==
    LET row == AsStored(r, Head(requests[r].rows))
        taken == row \in UrlsOf(OrgOfRequest(r)) \union requests[r].fresh
    IN  /\ requests[r].step = "write" /\ requests[r].rows # <<>>
        /\ \A q \in Request \ {r} :
              requests[q].step # "idle" /\ OrgOfRequest(q) = OrgOfRequest(r) => row \notin requests[q].fresh
        /\ requests' = IF ~taken THEN [NextRow(r) EXCEPT ![r].fresh = @ \union {row}]
                       ELSE IF requests[r].act = "create" THEN [requests EXCEPT ![r] = Idle]
                       ELSE NextRow(r)
        /\ UNCHANGED <<sources, used, crawled, accounts, grants, tokens, since, asked, count>>

\* Nobody is granted a source by its creation, the sub-account that created it
\* included.
CommitRows(r) ==
    /\ requests[r].step = "insert" /\ requests[r].rows = <<>>
    /\ \E ids \in SUBSET (Source \ used) :
          /\ Cardinality(ids) = Cardinality(requests[r].fresh)
          /\ \E url \in [ids -> requests[r].fresh] :
                /\ \A i, j \in ids : i # j => url[i] # url[j]
                /\ sources' = [s \in Source |-> IF s \in ids
                      THEN [org |-> OrgOfRequest(r), url |-> url[s], by |-> requests[r].user] ELSE sources[s]]
          /\ used' = used \union ids
    /\ requests' = [requests EXCEPT ![r] = Idle]
    /\ UNCHANGED <<crawled, accounts, grants, tokens, since, asked, count>>

\* (mutant) The role is not asked.
OwnsAny(r, s) == s \in requests[r].reach /\ s \in Live

\* _require_configurator, then _owns_target with the grants read at the start.
Owns(r, s) == requests[r].able /\ s \in requests[r].reach /\ s \in Live

CheckSource(r, act, s) ==
    /\ requests[r].step = "check" /\ act \in {"rename", "delete"} /\ Owns(r, s)
    /\ requests' = [requests EXCEPT ![r].step = "write", ![r].act = act, ![r].source = s]
    /\ UNCHANGED <<sources, used, crawled, accounts, grants, tokens, since, asked, count>>

\* The row may be gone by now; the update of nothing is an error of its own.
RenameSource(r) ==
    /\ requests[r].step = "write" /\ requests[r].act = "rename" /\ requests[r].source \in Live
    /\ sources' = [sources EXCEPT ![requests[r].source].by = requests[r].user]
    /\ requests' = [requests EXCEPT ![r] = Idle]
    /\ UNCHANGED <<used, crawled, accounts, grants, tokens, since, asked, count>>

\* (mutant) The documents of a source do not keep it.
DeleteCrawled(r) ==
    /\ requests[r].step = "write" /\ requests[r].act = "delete" /\ requests[r].source \in Live
    /\ sources' = [sources EXCEPT ![requests[r].source] = NoRow]
    /\ grants' = {g \in grants : g[2] # requests[r].source}
    /\ requests' = [requests EXCEPT ![r] = Idle]
    /\ UNCHANGED <<used, crawled, accounts, tokens, since, asked, count>>

\* The grants go with the row; documents keep it, as the request fails.
DeleteSource(r) ==
    /\ requests[r].step = "write" /\ requests[r].act = "delete" /\ requests[r].source \in Live \ crawled
    /\ sources' = [sources EXCEPT ![requests[r].source] = NoRow]
    /\ grants' = {g \in grants : g[2] # requests[r].source}
    /\ requests' = [requests EXCEPT ![r] = Idle]
    /\ UNCHANGED <<used, crawled, accounts, tokens, since, asked, count>>

-----------------------------------------------------------------------------
(* Sub-accounts: for the main account of the organization only *)

\* (mutant) Any source that exists.
ValidAny(r, list) == list \subseteq Live

\* _validate_target_ids.
Valid(r, list) == \A s \in list : s \in Live /\ sources[s].org = OrgOfRequest(r)

CheckMember(r, u, list) ==
    /\ requests[r].step = "check"
    /\ requests[r].user \in Main /\ OrgOfUser[u] = OrgOfRequest(r)
    /\ accounts[u].state # "deleted" /\ Valid(r, list)
    /\ requests' = IF accounts[u].state = "none"
          THEN [requests EXCEPT ![r].step = "replace", ![r].act = "add", ![r].member = u, ![r].list = list]
          ELSE [requests EXCEPT ![r].step = "write", ![r].act = "edit", ![r].member = u, ![r].list = list]
    /\ since' = [since EXCEPT ![r] = {}]
    /\ UNCHANGED <<sources, used, crawled, accounts, grants, tokens, asked, count>>

Old(u) == {s \in Source : <<u, s>> \in grants}

\* (mutant) update_member inserts only.
ClearNothing(r) ==
    /\ requests[r].step = "write" /\ requests[r].act = "edit"
    /\ requests' = [requests EXCEPT ![r].step = "replace"]
    /\ since' = [since EXCEPT ![r] = {}]
    /\ UNCHANGED <<sources, used, crawled, accounts, grants, tokens, asked, count>>

\* The DELETE of update_member: the rows that are committed as it starts.
ClearGrants(r) ==
    /\ requests[r].step = "write" /\ requests[r].act = "edit"
    /\ requests' = [requests EXCEPT ![r].step = "replace", ![r].old = Old(requests[r].member)]
    /\ since' = [since EXCEPT ![r] = {}]
    /\ UNCHANGED <<sources, used, crawled, accounts, grants, tokens, asked, count>>

\* The INSERTs and the commit: a source that is gone, or a grant that another request has
\* inserted since the DELETE, fails the whole request.  One that another request has
\* deleted and inserted again is a new row, which this DELETE does not reach.  The rest of
\* the request may change state and role.
SetGrants(r, role) ==
    LET u == requests[r].member
        list == requests[r].list
        gone == requests[r].old \ since[r]
        others == {q \in Request \ {r} : requests[q].step = "replace" /\ requests[q].member = u}
    IN  /\ requests[r].step = "replace"
        /\ list \subseteq Live /\ accounts[u].state # "deleted"
        /\ (requests[r].act = "add") <=> (accounts[u].state = "none")
        /\ list \intersect (Old(u) \ gone) = {}
        /\ grants' = {g \in grants : g[1] = u => g[2] \notin gone} \union ({u} \X list)
        /\ \E state \in {"active", "locked"} :
              /\ requests[r].act = "add" => state = "active"
              /\ accounts' = [accounts EXCEPT ![u] = [state |-> state, role |-> role]]
        /\ since' = [q \in Request |-> IF q \in others THEN (since[q] \ gone) \union list ELSE since[q]]
        /\ asked' = [asked EXCEPT ![u] = list \union since[r]]
        /\ requests' = [requests EXCEPT ![r] = Idle]
        /\ UNCHANGED <<sources, used, crawled, tokens, count>>

\* update_member with is_active or functional_role, and without target_ids.
PatchMember(r, u) ==
    /\ requests[r].step = "check"
    /\ requests[r].user \in Main /\ OrgOfUser[u] = OrgOfRequest(r)
    /\ accounts[u].state \in {"active", "locked"}
    /\ \E state \in {"active", "locked"}, role \in Roles : accounts' = [accounts EXCEPT ![u] = [state |-> state, role |-> role]]
    /\ requests' = [requests EXCEPT ![r] = Idle]
    /\ UNCHANGED <<sources, used, crawled, grants, tokens, since, asked, count>>

DeleteMember(r, u) ==
    /\ requests[r].step = "check"
    /\ requests[r].user \in Main /\ OrgOfUser[u] = OrgOfRequest(r)
    /\ accounts[u].state \in {"active", "locked"}
    /\ accounts' = [accounts EXCEPT ![u].state = "deleted"]
    /\ grants' = {g \in grants : g[1] # u}
    /\ asked' = [asked EXCEPT ![u] = {}]
    /\ requests' = [requests EXCEPT ![r] = Idle]
    /\ UNCHANGED <<sources, used, crawled, tokens, since, count>>

OrgNext ==
    \/ \E u \in User : Register(u) \/ Login(u) \/ Expire(u)
    \/ \E r \in Request :
          \/ \E u \in User : Start(r, u)
          \/ Abandon(r)
          \/ \E act \in {"create", "import"}, rows \in Files : SendRows(r, act, rows)
          \/ FindDuplicate(r) \/ InsertRow(r) \/ CommitRows(r)
          \/ \E act \in {"rename", "delete"}, s \in Source : CheckSource(r, act, s)
          \/ RenameSource(r) \/ DeleteSource(r)
          \/ \E u \in Sub, list \in SUBSET Source : CheckMember(r, u, list)
          \/ ClearGrants(r) \/ \E role \in Roles : SetGrants(r, role)
          \/ \E u \in Sub : PatchMember(r, u) \/ DeleteMember(r, u)

OrgSpec == OrgInit /\ [][OrgNext]_orgVars

-----------------------------------------------------------------------------
\* "A sub-account can only be granted access to targets that belong to its own
\* organization": also when sources come and go between the check and the insert.
GrantsOwnOrg == \A g \in grants : g[2] \in Live /\ sources[g[2]].org = OrgOfUser[g[1]]

\* A source changes or goes only on behalf of somebody who was entitled to that
\* when the request started: an account that was locked, deleted, demoted or
\* deprived of the source before, and whose token is still good, writes nothing.
WrittenByEntitled ==
    [][\A s \in Live : sources'[s] # sources[s] =>
          \E r \in Request : requests[r].source = s /\ s \in requests[r].entitled]_orgVars

\* What a sub-account may see is the list of the edit that was committed last, as far as
\* the sources still exist.  Edits that overlap add up, which neither asked for, but no
\* further: what an edit leaves beyond its list others have committed since its DELETE,
\* and none of their rows is lost.
GrantsAsAsked == \A u \in Sub, s \in Source : <<u, s>> \in grants <=> s \in asked[u] \intersect Live

\* "Duplicate-detection catches the same page imported under different forms":
\* an organization has no page twice.
OneSourcePerPage ==
    \A s, t \in Live : s # t /\ sources[s].org = sources[t].org => sources[s].url.page # sources[t].url.page
=============================================================================
