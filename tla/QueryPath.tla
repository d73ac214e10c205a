------------------------------ MODULE QueryPath ------------------------------
(***************************************************************************)
(* A DNS query's way through brdns while its policy is being edited:       *)
(*                                                                         *)
(*   - InMemControlPlane (controlplane/storage/inmem.rs): accounts, their  *)
(*     rule lists and upstreams, and the quota counters, behind one mutex; *)
(*   - PolicyCache (policy.rs): the snapshot queries are answered from,    *)
(*     refreshed by the poll task (bin/s.rs);                              *)
(*   - QueryPipeline::handle_query (pipeline.rs): any number of queries at *)
(*     once, each giving up the processor wherever the code locks or       *)
(*     awaits;                                                             *)
(*   - management calls (controlplane/http): any number at once.           *)
(*                                                                         *)
(* One step is one critical section of the mutex, or one stretch of a      *)
(* task between two awaits.  What a rule's target covers is a set of query *)
(* names here (module RuleEngine models how that is found out), an         *)
(* upstream is an opaque value, and each member of Queries is one query    *)
(* that is asked at most once.                                             *)
(***************************************************************************)
EXTENDS Rules, QuotaWindows, FiniteSets

CONSTANTS
    Accounts,       \* account numbers
    Names,          \* query names
    Upstreams,      \* upstream resolvers an account may configure
    Fallback,       \* the pipeline's default transport
    NewRuleLists,   \* bodies of PUT /accounts/{n}/rules
    NewUpstreamLists, \* bodies of PUT /accounts/{n}/upstreams
    Queries,        \* the queries clients send
    Editors,        \* management requests in flight
    Instants,       \* what now() may read, by clock ticks
    MaxVersions,    \* bound: changes to the stored policies
    MaxClock        \* bound: clock ticks

NewRule == [action : Actions, covers : SUBSET Names,
            limit_count : Int \cup {None}, limit_window : Windows \cup {None},
            enabled : BOOLEAN]

ASSUME ConstantsAssumption ==
    /\ NewRuleLists \subseteq Seq(NewRule)
    /\ NewUpstreamLists \subseteq Seq(Upstreams)
    /\ IsFiniteSet(Queries)
    /\ MaxVersions \in Nat /\ MaxClock \in Nat
    /\ Instants \in [0..MaxClock -> Nat]
    /\ None \notin Upstreams /\ Fallback # None

VARIABLES
    \* InMemControlPlane.inner
    accounts,       \* account number |-> its rules and upstreams, None if absent
    next_rule_id,
    quota,          \* <<rule id, window start>> |-> count
    clock,          \* now() is Instants[clock]
    \* the management API
    edit,           \* per request: what it still has to store, or None
    \* PolicyCache and the poll task
    cache,          \* account number |-> AccountPolicy, None if absent
    snap,           \* the snapshot refresh holds and has yet to install, or None
    \* handle_inner, per query
    pc,
    cached,         \* the Arc<AccountPolicy> it holds, None if there was none
    decision,
    slot,           \* the quota counter it is about to charge, or charged
    paid,           \* the queries that were charged
    via,            \* the transport it was forwarded on, or None
    outcome,
    \* history
    log,            \* every value snapshot() could have returned, oldest first
    snap_at,        \* which of them snap and cache are
    cache_at,
    asked,          \* per query: the account and name
    born            \* per query: the version of the cache and the time it met

store    == <<accounts, next_rule_id, log>>
poller   == <<cache, snap, snap_at, cache_at>>
progress == <<pc, cached, decision, slot, paid, via, outcome, asked, born>>
vars     == <<store, quota, clock, edit, poller, progress>>

-----------------------------------------------------------------------------
(* The control plane.                                                      *)

Rule == [id : Nat, action : Actions, covers : SUBSET Names,
         limit_count : Int \cup {None}, limit_window : Windows \cup {None},
         enabled : BOOLEAN]

AccountRecord == [rules : Seq(Rule), upstreams : Seq(Upstreams)]
Records == [Accounts -> AccountRecord \cup {None}]

Policy == [rules : Seq(Rule), upstream : Upstreams \cup {None}]
Policies == [Accounts -> Policy \cup {None}]

\* What clients may learn of a query: how it was decided and where it went.
AnswerRecord == [account : Accounts, name : Names, version : Nat, decision : Decisions,
            via : Upstreams \cup {Fallback, None}]

\* observability::Outcome
Outcomes == {"allow", "deny", "limit_ok", "limit_exceeded", "error"}

ASSUME NoneIsDistinct ==
    /\ None \notin Outcomes
    /\ None \notin AccountRecord \cup Policy \cup Policies
    /\ None \notin (Nat \X Int) \cup (Accounts \X Names) \cup AnswerRecord

\* A request's rule under the id the store gives it.
Stored(new, id) ==
    [id |-> id, action |-> new.action, covers |-> new.covers,
     limit_count |-> new.limit_count, limit_window |-> new.limit_window,
     enabled |-> new.enabled]

\* Mutant: ids are positions in the list.
StoredListByPosition(new, next) == [i \in DOMAIN new |-> Stored(new[i], i)]

\* Every rule of a replaced list gets a fresh id.
StoredList(new, next) == [i \in DOMAIN new |-> Stored(new[i], next + i)]

NewRecord == [rules |-> << >>, upstreams |-> << >>]

\* Mutant: the account is looked up and not created.
get_only(accts, a) == accts

get_or_create(accts, a) ==
    IF accts[a] = None THEN [accts EXCEPT ![a] = NewRecord] ELSE accts

\* The active upstream is the first one.
First(list) == IF list = << >> THEN None ELSE list[1]

snapshot(accts) ==
    [a \in Accounts |->
        IF accts[a] = None THEN None
        ELSE [rules |-> accts[a].rules, upstream |-> First(accts[a].upstreams)]]

\* The window of a charge made at clock t.
WindowAt(t, window) == window_start(Instants[t], window)

\* Mutant: every limit is counted by the month.
CounterOfMonth(d, t) == <<d.rule_id, WindowAt(t, "month")>>

\* The counter that a query charged at time t is charged on.
Counter(d, t) == <<d.rule_id, WindowAt(t, d.window)>>

Count(counters, key) == IF key \in DOMAIN counters THEN counters[key] ELSE 0

\* Mutant: one query too many.
ExhaustedLate(count, limit_count) == count > limit_count

\* Mutant: one query too few.
ExhaustedEarly(count, limit_count) == count + 1 >= limit_count

\* if *count >= limit_count
Exhausted(count, limit_count) == count >= limit_count

\* Mutant: the entry is overwritten.
BumpFromZero(counters, key) ==
    [k \in DOMAIN counters \cup {key} |-> IF k = key THEN 1 ELSE counters[k]]

\* *count += 1, on an entry that or_insert(0) made if it was missing
Bump(counters, key) ==
    [k \in DOMAIN counters \cup {key} |->
        IF k = key THEN Count(counters, key) + 1 ELSE counters[k]]

\* A critical section that leaves the stored policies as accts.
Store(accts) ==
    /\ accounts' = accts
    /\ log' = IF snapshot(accts) = snapshot(accounts) THEN log
              ELSE Append(log, snapshot(accts))
    /\ Len(log') <= MaxVersions

Nobody == [a \in Accounts |-> None]

Init ==
    /\ accounts = Nobody
    /\ next_rule_id = 0
    /\ quota = << >>
    /\ clock = 0
    /\ edit = [e \in Editors |-> None]
    /\ cache = Nobody
    /\ snap = None
    /\ pc = [q \in Queries |-> "idle"]
    /\ cached = [q \in Queries |-> None]
    /\ decision = [q \in Queries |-> NoMatch]
    /\ slot = [q \in Queries |-> None]
    /\ paid = {}
    /\ via = [q \in Queries |-> None]
    /\ outcome = [q \in Queries |-> None]
    /\ log = <<Nobody>>
    /\ snap_at = 1 /\ cache_at = 1
    /\ asked = [q \in Queries |-> None]
    /\ born = [q \in Queries |-> None]

-----------------------------------------------------------------------------
(* The management API.                                                     *)

CreateAccount(a) ==
    /\ Store(get_or_create(accounts, a))
    /\ UNCHANGED <<next_rule_id, quota, clock, edit, poller, progress>>

\* replace_rules and replace_upstreams lock twice: for get_or_create, which
\* makes the account visible with empty lists, and for the lists.
BeginReplace(e, op, a, new) ==
    /\ edit[e] = None
    /\ Store(get_or_create(accounts, a))
    /\ edit' = [edit EXCEPT ![e] = [op |-> op, account |-> a, new |-> new]]
    /\ UNCHANGED <<next_rule_id, quota, clock, poller, progress>>

\* Mutant: the new rules are appended to the old ones.
FinishAppendRules(e) ==
    /\ edit[e] # None /\ edit[e].op = "rules"
    /\ LET a == edit[e].account  new == edit[e].new
       IN  /\ Store([accounts EXCEPT ![a].rules = @ \o StoredList(new, next_rule_id)])
           /\ next_rule_id' = next_rule_id + Len(new)
    /\ edit' = [edit EXCEPT ![e] = None]
    /\ UNCHANGED <<quota, clock, poller, progress>>

FinishReplaceRules(e) ==
    /\ edit[e] # None /\ edit[e].op = "rules"
    /\ LET a == edit[e].account  new == edit[e].new
       IN  /\ Store([accounts EXCEPT ![a].rules = StoredList(new, next_rule_id)])
           /\ next_rule_id' = next_rule_id + Len(new)
    /\ edit' = [edit EXCEPT ![e] = None]
    /\ UNCHANGED <<quota, clock, poller, progress>>

FinishReplaceUpstreams(e) ==
    /\ edit[e] # None /\ edit[e].op = "upstreams"
    /\ Store([accounts EXCEPT ![edit[e].account].upstreams = edit[e].new])
    /\ edit' = [edit EXCEPT ![e] = None]
    /\ UNCHANGED <<next_rule_id, quota, clock, poller, progress>>

-----------------------------------------------------------------------------
(* PolicyCache::refresh, called by the poll task.  A refresh whose         *)
(* snapshot fails changes nothing and is a stuttering step.                *)

TakeSnapshot ==
    /\ snap = None
    /\ snap' = snapshot(accounts)
    /\ snap_at' = Len(log)
    /\ UNCHANGED <<store, quota, clock, edit, cache, cache_at, progress>>

\* Mutant: accounts the cache already has keep their old policy.
ReplacedIfAbsent(old, new) == [a \in Accounts |-> IF old[a] = None THEN new[a] ELSE old[a]]

\* What the cache holds once the write lock is released.
Replaced(old, new) == new

Install ==
    /\ snap # None
    /\ cache' = Replaced(cache, snap)
    /\ cache_at' = snap_at
    /\ snap' = None
    /\ UNCHANGED <<store, quota, clock, edit, snap_at, progress>>

Tick ==
    /\ clock < MaxClock
    /\ clock' = clock + 1
    /\ UNCHANGED <<store, quota, edit, poller, progress>>

-----------------------------------------------------------------------------
(* handle_inner.                                                           *)

\* PolicyCache::get
Lookup(policies, a) == policies[a]

\* cached.as_ref().map(|p| p.rules.as_slice()).unwrap_or(&[])
RulesOf(policy) == IF policy = None THEN << >> ELSE policy.rules

Decide(policy, name) == evaluate(RulesOf(policy), LAMBDA r : name \in r.covers)

transport_for(policy) ==
    IF policy = None THEN Fallback
    ELSE IF policy.upstream = None THEN Fallback ELSE policy.upstream

\* Mutant: a limited query is forwarded without being charged.
AfterDecisionUncharged(d) == IF d.kind = "deny" THEN "done" ELSE "forward"

\* Where the match on the decision leads.
AfterDecision(d) ==
    CASE d.kind = "deny"  -> "done"
      [] d.kind = "limit" -> "limit"
      [] OTHER            -> "forward"

\* query_name fails: the client gets no answer.
Malformed(q) ==
    /\ pc[q] = "idle"
    /\ pc' = [pc EXCEPT ![q] = "done"]
    /\ outcome' = [outcome EXCEPT ![q] = "error"]
    /\ UNCHANGED <<store, quota, clock, edit, poller, cached, decision, slot, paid,
                   via, asked, born>>

\* From query_name to the first await: cache.get, evaluate and, for Deny, the
\* synthesized answer.
Arrive(q, a, name) ==
    /\ pc[q] = "idle"
    /\ LET policy == Lookup(cache, a)
           d      == Decide(policy, name)
       IN  /\ cached' = [cached EXCEPT ![q] = policy]
           /\ decision' = [decision EXCEPT ![q] = d]
           /\ pc' = [pc EXCEPT ![q] = AfterDecision(d)]
           /\ outcome' = [outcome EXCEPT ![q] = IF d.kind = "deny" THEN "deny" ELSE None]
    /\ asked' = [asked EXCEPT ![q] = <<a, name>>]
    /\ born' = [born EXCEPT ![q] = [version |-> cache_at, time |-> clock]]
    /\ UNCHANGED <<store, quota, clock, edit, poller, slot, paid, via>>

\* record_quota before its lock: a budget that is not positive admits nothing,
\* otherwise the window is fixed by the time read here.
CheckLimit(q) ==
    /\ pc[q] = "limit"
    /\ LET d == decision[q]
       IN  IF d.limit_count <= 0
           THEN /\ pc' = [pc EXCEPT ![q] = "done"]
                /\ outcome' = [outcome EXCEPT ![q] = "limit_exceeded"]
                /\ UNCHANGED slot
           ELSE /\ pc' = [pc EXCEPT ![q] = "charge"]
                /\ slot' = [slot EXCEPT ![q] = Counter(d, clock)]
                /\ UNCHANGED outcome
    /\ UNCHANGED <<store, quota, clock, edit, poller, cached, decision, paid, via,
                   asked, born>>

\* record_quota's critical section, and what handle_inner makes of its result.
Charge(q) ==
    /\ pc[q] = "charge"
    /\ IF Exhausted(Count(quota, slot[q]), decision[q].limit_count)
       THEN /\ pc' = [pc EXCEPT ![q] = "done"]
            /\ outcome' = [outcome EXCEPT ![q] = "limit_exceeded"]
            /\ UNCHANGED <<quota, paid>>
       ELSE /\ pc' = [pc EXCEPT ![q] = "forward"]
            /\ quota' = Bump(quota, slot[q])
            /\ paid' = paid \cup {q}
            /\ UNCHANGED outcome
    /\ UNCHANGED <<store, clock, edit, poller, cached, decision, slot, via, asked, born>>

\* record_quota returns Err, which a control plane may.
QuotaFails(q) ==
    /\ pc[q] = "charge"
    /\ pc' = [pc EXCEPT ![q] = "done"]
    /\ outcome' = [outcome EXCEPT ![q] = "error"]
    /\ UNCHANGED <<store, quota, clock, edit, poller, cached, decision, slot, paid,
                   via, asked, born>>

\* Mutant: the upstream is looked up again after the awaits.
SendByCache(q) ==
    /\ pc[q] = "forward"
    /\ via' = [via EXCEPT ![q] = transport_for(Lookup(cache, asked[q][1]))]
    /\ pc' = [pc EXCEPT ![q] = "sent"]
    /\ UNCHANGED <<store, quota, clock, edit, poller, cached, decision, slot, paid,
                   outcome, asked, born>>

\* transport_for and the first half of send_recv.
Send(q) ==
    /\ pc[q] = "forward"
    /\ via' = [via EXCEPT ![q] = transport_for(cached[q])]
    /\ pc' = [pc EXCEPT ![q] = "sent"]
    /\ UNCHANGED <<store, quota, clock, edit, poller, cached, decision, slot, paid,
                   outcome, asked, born>>

\* send_recv returns, with a response or an error: the outcome is the same.
Answer(q) ==
    /\ pc[q] = "sent"
    /\ pc' = [pc EXCEPT ![q] = "done"]
    /\ outcome' = [outcome EXCEPT ![q] =
                      IF decision[q].kind = "limit" THEN "limit_ok" ELSE "allow"]
    /\ UNCHANGED <<store, quota, clock, edit, poller, cached, decision, slot, paid,
                   via, asked, born>>

Edit ==
    \/ \E a \in Accounts : CreateAccount(a)
    \/ \E e \in Editors, a \in Accounts :
          \/ \E new \in NewRuleLists : BeginReplace(e, "rules", a, new)
          \/ \E new \in NewUpstreamLists : BeginReplace(e, "upstreams", a, new)
    \/ \E e \in Editors : FinishReplaceRules(e) \/ FinishReplaceUpstreams(e)

Query(q) ==
    \/ Malformed(q)
    \/ \E a \in Accounts, name \in Names : Arrive(q, a, name)
    \/ CheckLimit(q)
    \/ Charge(q)
    \/ QuotaFails(q)
    \/ Send(q)
    \/ Answer(q)

Next ==
    \/ Edit
    \/ TakeSnapshot
    \/ Install
    \/ Tick
    \/ \E q \in Queries : Query(q)

Spec == Init /\ [][Next]_vars

\* The poll task never stops and refreshes do not fail for ever.  Nothing is
\* assumed of queries, of upstreams (no transport has a timeout) or of editors.
Fairness == WF_vars(TakeSnapshot) /\ WF_vars(Install)

FairSpec == Spec /\ Fairness

-----------------------------------------------------------------------------
(* Properties.                                                             *)

StoreTypes ==
    /\ accounts \in Records
    /\ next_rule_id \in Nat
    /\ log \in Seq(Policies)
    /\ edit \in [Editors ->
           {None} \cup [op : {"rules"}, account : Accounts, new : NewRuleLists]
                  \cup [op : {"upstreams"}, account : Accounts, new : NewUpstreamLists]]

CacheTypes ==
    /\ cache \in Policies
    /\ snap \in Policies \cup {None}
    /\ snap_at \in 1..Len(log) /\ cache_at \in 1..Len(log)

QueryTypes ==
    /\ clock \in 0..MaxClock
    /\ DOMAIN quota \subseteq Nat \X Int
    /\ \A k \in DOMAIN quota : quota[k] \in Nat
    /\ pc \in [Queries -> {"idle", "limit", "charge", "forward", "sent", "done"}]
    /\ cached \in [Queries -> Policy \cup {None}]
    /\ decision \in [Queries -> Decisions]
    /\ slot \in [Queries -> (Nat \X Int) \cup {None}]
    /\ paid \subseteq Queries
    /\ via \in [Queries -> Upstreams \cup {Fallback, None}]
    /\ outcome \in [Queries -> Outcomes \cup {None}]
    /\ asked \in [Queries -> (Accounts \X Names) \cup {None}]
    /\ born \in [Queries -> [version : Nat \ {0}, time : Nat] \cup {None}]

\* The state stays in the types the code gives it.
TypeOK == StoreTypes /\ CacheTypes /\ QueryTypes

\* Every rule that any version of the policies ever held.
RulesIn(policies) == UNION {ToSet(RulesOf(policies[a])) : a \in Accounts}
Issued == UNION {RulesIn(log[v]) : v \in DOMAIN log}

ForwardedOn(k) == {q \in Queries : slot[q] = k /\ via[q] # None}
PaidOn(k)      == {q \in paid : slot[q] = k}

\* A limit rule forwards at most limit_count queries per window, however its
\* queries interleave with each other, with the clock and with edits of the
\* rules they hold (record_quota, inmem.rs:100-118).
BudgetHolds ==
    \A r \in Issued : r.action = "limit" =>
        \A t \in 0..clock :
            LET k == <<r.id, WindowAt(t, UnwrapOr(r.limit_window, "month"))>>
                n == UnwrapOr(r.limit_count, 0)
            IN  Cardinality(ForwardedOn(k)) <= IF n > 0 THEN n ELSE 0

\* A query is refused only if the budget of a window in its lifetime is spent,
\* by as many queries as the limit admits: none that was turned away, that failed
\* or that asked under another rule has used any of it (inmem.rs:107-117).
RefusedWhenSpent ==
    \A q \in Queries : outcome[q] = "limit_exceeded" /\ decision[q].limit_count > 0 =>
        \E t \in born[q].time..clock :
            Cardinality(PaidOn(<<decision[q].rule_id, WindowAt(t, decision[q].window)>>))
                >= decision[q].limit_count

\* A counter is exactly the number of queries that were charged on it: no
\* increment is lost between two queries and none is made for a query that
\* was turned away.
QuotaAccounting ==
    /\ \A k \in DOMAIN quota : quota[k] = Cardinality(PaidOn(k))
    /\ \A q \in paid : slot[q] \in DOMAIN quota

\* A query is charged in the window of some instant between its arrival and
\* now, although record_quota reads the clock before it takes the lock
\* (inmem.rs:110-111).
ChargedInLifetime ==
    \A q \in paid :
        \E t \in born[q].time..clock : slot[q][2] = WindowAt(t, decision[q].window)

\* The cache is always one whole version of the stored policies, never a mix
\* of two (policy.rs:35-41).
CacheIsOneVersion == cache = log[cache_at]

\* Whatever happens between its awaits, a query is decided and routed by one
\* version of its account's policy, the one the cache held when it arrived:
\* the rules and the upstream it uses belong together (pipeline.rs:105-127).
ServedByOneVersion ==
    \A q \in Queries : asked[q] # None =>
        LET policy == Lookup(log[born[q].version], asked[q][1])
        IN  /\ decision[q] = Decide(policy, asked[q][2])
            /\ via[q] # None => via[q] = transport_for(policy)

\* A query forwarded under a limit rule has been charged, and a denied or
\* refused one is never forwarded (pipeline.rs:112-141).
ForwardingIsEarned ==
    \A q \in Queries :
        /\ via[q] # None => decision[q].kind # "deny"
        /\ via[q] # None /\ decision[q].kind = "limit" => q \in paid
        /\ outcome[q] \in {"deny", "limit_exceeded", "error"} => via[q] = None

\* The rule list of an account is, in every version, empty or exactly one
\* requested list under consecutive ids, also when requests overlap:
\* "Replace the account's rule list." (controlplane/mod.rs:52)
ReplacedWhole ==
    \A v \in DOMAIN log, a \in Accounts :
        LET rules == RulesOf(log[v][a])
        IN  rules # << >> =>
                \E new \in NewRuleLists : rules = StoredList(new, rules[1].id - 1)

\* Two rules with one id are the same rule: an id never comes back with
\* another budget, so a counter never serves two rules.
IdsAreNeverReused == \A r, s \in Issued : r.id = s.id => r = s

\* The account of a request between its two critical sections exists, so
\* expect("just created") does not panic with the mutex held
\* (inmem.rs:151-155, 190-194).
JustCreated ==
    \A e \in Editors : edit[e] # None => accounts[edit[e].account] # None

\* The in-memory control plane, the cache and the pipeline together keep the
\* promises of PolicyService, whatever requests and queries overlap.
Answers ==
    [q \in Queries |->
        IF asked[q] = None THEN None
        ELSE [account |-> asked[q][1], name |-> asked[q][2], version |-> born[q].version,
              decision |-> decision[q], via |-> via[q]]]

Service == INSTANCE PolicyService WITH
    history <- log, served <- cache_at, answers <- Answers, Route <- transport_for

KeepsPromises == Service!Spec

\* Every stored change reaches the cache, by itself or in a later version
\* (bin/s.rs:110-118).
EditsTakeEffect ==
    \A v \in 1..MaxVersions :
        Len(log) >= v ~> \E w \in DOMAIN log : w >= v /\ cache = log[w]
=============================================================================
