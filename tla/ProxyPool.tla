-------------------------------- MODULE ProxyPool --------------------------------
(***************************************************************************)
(* The pools of proxies (crawlers/proxy_pool.py) of the worker children.   *)
(* The module-level ProxyPool() of batch_tasks.py is built, and every      *)
(* proxy probed, in the parent process of the Celery worker; every child   *)
(* forked from it has a copy of its own, at the same place of the cycle.   *)
(* A child that replaces a dead one is forked from the same parent.        *)
(*                                                                         *)
(* Proxies are numbered from 0 in the order of the cycle.  A pool with no  *)
(* proxy configured (one direct connection, never cooling down) is not     *)
(* modelled.                                                               *)
(***************************************************************************)
EXTENDS Naturals

CONSTANTS
    Child,          \* processes of the worker pool
    ProxyCount,     \* number of proxies configured
    ProxyCooldown   \* _UNHEALTHY_COOLDOWN_SECONDS, in ticks

ASSUME ProxyCountAssumption == ProxyCount \in Nat \ {0}
ASSUME ProxyCooldownAssumption == ProxyCooldown \in Nat \ {0}

Proxy == 0 .. ProxyCount - 1
None == ProxyCount

VARIABLES
    boot,    \* the parent's cooldowns: ticks left for every proxy, 0 when healthy
    pool,    \* every child's copy: where its cycle stands, and its cooldowns
    task,    \* the batch every child runs: its proxy, and proxy_reset_attempted
    moved,   \* history: children whose proxy was given a new IP by another child
    passed   \* history: for child c and proxy q, the proxies given out by c since
             \* c gave out q or skipped it for its cooldown

proxyVars == <<boot, pool, task, moved, passed>>

NoBatch == [proxy |-> None, reset |-> FALSE]

ProxyTypeOK ==
    /\ boot \in [Proxy -> 0..ProxyCooldown]
    /\ pool \in [Child -> [next: Proxy, cooldown: [Proxy -> 0..ProxyCooldown]]]
    /\ task \in [Child -> [proxy: Proxy \union {None}, reset: BOOLEAN]]
    /\ moved \subseteq Child
    /\ passed \in [Child -> [Proxy -> SUBSET Proxy]]

Fork(cooldown) == [next |-> 0, cooldown |-> cooldown]
NothingPassed == [q \in Proxy |-> {}]

\* _health_check_all puts the proxies that fail their probe in cooldown.
ProxyInit ==
    /\ \E failing \in SUBSET Proxy :
          boot = [p \in Proxy |-> IF p \in failing THEN ProxyCooldown ELSE 0]
    /\ pool = [c \in Child |-> Fork(boot)]
    /\ task = [c \in Child |-> NoBatch]
    /\ moved = {}
    /\ passed = [c \in Child |-> NothingPassed]

Cooling(c, p) == pool[c].cooldown[p] > 0
Working(c) == task[c].proxy # None

\* The k-th proxy the cycle would yield.
Upcoming(c, k) == (pool[c].next + k) % ProxyCount

\* (mutant) The rotation starts over with every call.
ChosenFromStart(c) ==
    LET healthy == {k \in Proxy : ~Cooling(c, k)}
    IN  IF healthy = {} THEN pool[c].next
        ELSE CHOOSE k \in healthy : \A j \in healthy : k <= j

\* acquire(): the first proxy of the cycle that is not cooling down; if they all
\* are, the cycle has come round, and its next one is returned all the same.
Chosen(c) ==
    LET healthy == {k \in Proxy : ~Cooling(c, Upcoming(c, k))}
    IN  IF healthy = {} THEN pool[c].next
        ELSE Upcoming(c, CHOOSE k \in healthy : \A j \in healthy : k <= j)

AcquireProxy(c) ==
    /\ ~Working(c)
    /\ task' = [task EXCEPT ![c] = [proxy |-> Chosen(c), reset |-> FALSE]]
    /\ pool' = [pool EXCEPT ![c].next = (Chosen(c) + 1) % ProxyCount]
    /\ passed' = [passed EXCEPT ![c] = [q \in Proxy |->
                    IF q = Chosen(c) \/ Cooling(c, q) THEN {} ELSE @[q] \union {Chosen(c)}]]
    /\ UNCHANGED <<boot, moved>>

\* A target fails with a network error: once per batch, the proxy is put in
\* cooldown and its provider asked for a new IP, which it may refuse.
ResetProxy(c) ==
    /\ Working(c) /\ ~task[c].reset
    /\ task' = [task EXCEPT ![c].reset = TRUE]
    /\ pool' = [pool EXCEPT ![c].cooldown[task[c].proxy] = ProxyCooldown]
    /\ moved' \in {moved, moved \union {d \in Child \ {c} : task[d].proxy = task[c].proxy}}
    /\ UNCHANGED <<boot, passed>>

EndBatch(c) ==
    /\ Working(c)
    /\ task' = [task EXCEPT ![c] = NoBatch]
    /\ moved' = moved \ {c}
    /\ UNCHANGED <<boot, pool, passed>>

\* time_limit, or a crash: the parent forks a new child.
Respawn(c) ==
    /\ task' = [task EXCEPT ![c] = NoBatch]
    /\ pool' = [pool EXCEPT ![c] = Fork(boot)]
    /\ moved' = moved \ {c}
    /\ passed' = [passed EXCEPT ![c] = NothingPassed]
    /\ UNCHANGED boot

OneLess(n) == IF n > 0 THEN n - 1 ELSE 0

ProxyTick ==
    /\ boot' = [p \in Proxy |-> OneLess(boot[p])]
    /\ pool' = [c \in Child |-> [pool[c] EXCEPT !.cooldown = [p \in Proxy |-> OneLess(@[p])]]]
    /\ UNCHANGED <<task, moved, passed>>

ProxyNext ==
    \/ \E c \in Child : AcquireProxy(c) \/ ResetProxy(c) \/ EndBatch(c) \/ Respawn(c)
    \/ ProxyTick

ProxySpec == ProxyInit /\ [][ProxyNext]_proxyVars

-----------------------------------------------------------------------------
GivenOut(c, p) == ~Working(c) /\ task'[c].proxy = p

\* A child spreads its batches over its proxies: it gives out no proxy a second
\* time while another one, fit for use whenever it came up, waits for its turn.
TakesTurns ==
    [][\A c \in Child, p, q \in Proxy :
          GivenOut(c, p) /\ q # p /\ ~Cooling(c, q) => p \notin passed[c][q]]_proxyVars
=============================================================================
