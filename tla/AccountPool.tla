------------------------------- MODULE AccountPool -------------------------------
(***************************************************************************)
(* The fb_accounts table and the statements of                             *)
(* platform_app/crawlers/account_pool.py, plus the session import script.  *)
(*                                                                         *)
(* `last_used` is Never for NULL, else the ticks since last_used_at,       *)
(* saturating at Cooldown.  fail_count is not modelled: it is only         *)
(* written.  session_data is a Boolean: whether the account has any.       *)
(* Each statement is one UPDATE of one row, so each is one atomic step.    *)
(***************************************************************************)
EXTENDS Naturals

CONSTANTS
    Account,   \* ids of the fb_accounts rows
    Cooldown,  \* FB_ACCOUNT_COOLDOWN_MINUTES, in ticks
    Never,     \* last_used_at IS NULL
    NoKey      \* session_key None: the batch takes any account

ASSUME CooldownAssumption == Cooldown \in Nat \ {0}
ASSUME NeverAssumption == Never \notin Nat
ASSUME NoKeyAssumption == NoKey \notin Account

VARIABLE fb_accounts

AccountRow ==
    [status: {"LIVE", "CHECKPOINT"}, session: BOOLEAN, last_used: (0..Cooldown) \union {Never}]

AccountTypeOK == fb_accounts \in [Account -> AccountRow]

AccountInit ==
    \E imported \in SUBSET Account :
        fb_accounts = [a \in Account |->
            [status |-> "LIVE", session |-> a \in imported, last_used |-> Never]]

OffCooldown(a) == fb_accounts[a].last_used \in {Never, Cooldown}

\* (mutant) No cooldown in the WHERE clause.
AvailableAnyTime(a) == fb_accounts[a].status = "LIVE" /\ fb_accounts[a].session

\* The WHERE clause of both branches of _acquire.
Available(a) ==
    /\ fb_accounts[a].status = "LIVE"
    /\ fb_accounts[a].session
    /\ OffCooldown(a)

Unused(S) == {a \in S : fb_accounts[a].last_used = Never}

\* acquire_specific accepts the pinned account only.  acquire takes the least
\* recently used, NULLS FIRST, among the rows SKIP LOCKED does not skip: an
\* account never used comes first, and the others have saturated last_used, so
\* the choice among them is free.
Candidates(key, skipped) ==
    LET free == {a \in Account : Available(a)}
        open == free \ skipped
    IN  IF key # NoKey THEN free \intersect {key}
        ELSE IF Unused(open) # {} THEN Unused(open) ELSE open

Acquire(a) == fb_accounts' = [fb_accounts EXCEPT ![a].last_used = 0]

Release(a, success) ==
    fb_accounts' = IF success THEN fb_accounts
                   ELSE [fb_accounts EXCEPT ![a].status = "CHECKPOINT"]

\* The operator's command, after verifying the account in a real browser.
ReleaseCheckpoint(a) ==
    fb_accounts' = [fb_accounts EXCEPT ![a].status = "LIVE", ![a].last_used = Never]

UpdateSession(a) ==
    fb_accounts' = [fb_accounts EXCEPT ![a].status = "LIVE", ![a].session = TRUE]

\* scripts/import_fb_sessions_to_db.py: new cookies, same status.
ImportSession(a) == fb_accounts' = [fb_accounts EXCEPT ![a].session = TRUE]

AccountTick ==
    fb_accounts' = [a \in Account |->
        [fb_accounts[a] EXCEPT !.last_used = IF @ \in 0..(Cooldown - 1) THEN @ + 1 ELSE @]]
=============================================================================
