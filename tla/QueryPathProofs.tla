--------------------------- MODULE QueryPathProofs ---------------------------
(***************************************************************************)
(* Proofs about queries, edits and the policy cache for any number of      *)
(* accounts, queries and management requests.                              *)
(***************************************************************************)
EXTENDS QueryPath, TLAPS, FiniteSetTheorems, WellFoundedInduction

USE DEF store, poller, progress

-----------------------------------------------------------------------------
(* The operators.                                                          *)

\* A non-empty set of positions has a first one.
LEMMA FirstPosition ==
    ASSUME NEW I \in SUBSET Nat, I # {}
    PROVE  \E x \in I : \A y \in I : x =< y
<1> DEFINE R == {ss \in Nat \X Nat : ss[1] < ss[2]}
<1>1. IsWellFoundedOn(R, Nat)
  BY NatLessThanWellFounded, Zenon DEF OpToRel
<1> HIDE DEF R
<1>2. PICK x \in I : \A y \in I : <<y, x>> \notin R
  BY <1>1, WFMin
<1>3. \A y \in I : ~(y < x)
  BY <1>2 DEF R
<1> QED  BY <1>3

\* SelectInSeq returns a member of the positions it chooses from, the least.
LEMMA MinIsFirst ==
    ASSUME NEW I \in SUBSET Nat, I # {}
    PROVE  Min(I) \in I /\ \A y \in I : Min(I) =< y
BY FirstPosition DEF Min

\* evaluate returns NoMatch or what one of the rules stands for.
LEMMA DecideFromRule ==
    ASSUME NEW policy \in Policy \cup {None}, NEW name
    PROVE  \/ Decide(policy, name) = NoMatch
           \/ \E i \in DOMAIN RulesOf(policy) :
                 Decide(policy, name) = DecisionOf(RulesOf(policy)[i])
<1> DEFINE rs == RulesOf(policy)
           I  == {i \in 1..Len(rs) : rs[i].enabled /\ name \in rs[i].covers}
<1>1. rs \in Seq(Rule)
  BY DEF RulesOf, Policy
<1>2. FirstHit(rs, LAMBDA r : name \in r.covers) = IF I # {} THEN Min(I) ELSE 0
  BY DEF FirstHit, SelectInSeq
<1>3. Decide(policy, name) =
        LET i == IF I # {} THEN Min(I) ELSE 0
        IN  IF i = 0 THEN NoMatch ELSE DecisionOf(rs[i])
  BY <1>2 DEF Decide, evaluate
<1>4. I \in SUBSET Nat
  BY <1>1
<1>5. I # {} => Min(I) \in I
  <2> HIDE DEF I
  <2> QED  BY <1>4, MinIsFirst
<1>6. CASE I = {}
  BY <1>3, <1>6
<1>7. CASE I # {}
  <2> DEFINE m == Min(I)
  <2>1. m \in 1..Len(rs)
    BY <1>5, <1>7
  <2> HIDE DEF m, I
  <2>2. Decide(policy, name) = DecisionOf(rs[m])
    BY <1>1, <1>3, <1>7, <2>1 DEF m
  <2> QED  BY <1>1, <2>1, <2>2
<1> QED  BY <1>6, <1>7

\* Every decision a rule stands for has the type ruleengine.rs declares.
LEMMA DecisionOfType ==
    ASSUME NEW r \in Rule
    PROVE  DecisionOf(r) \in Decisions
<1>0. /\ r.id \in Nat /\ r.action \in Actions
      /\ r.limit_count \in Int \cup {None} /\ r.limit_window \in Windows \cup {None}
  BY DEF Rule
<1>1. CASE r.action = "limit"
  <2>1. UnwrapOr(r.limit_count, 0) \in Int
    BY <1>0 DEF UnwrapOr
  <2>2. UnwrapOr(r.limit_window, "month") \in Windows
    BY <1>0 DEF UnwrapOr, Windows
  <2> QED  BY <1>0, <1>1, <2>1, <2>2 DEF DecisionOf, Decisions
<1>2. CASE r.action # "limit"
  BY <1>0, <1>2 DEF DecisionOf, Decisions, Actions
<1> QED  BY <1>1, <1>2

\* A decision is of the type the code declares.
LEMMA DecideType ==
    ASSUME NEW policy \in Policy \cup {None}, NEW name
    PROVE  Decide(policy, name) \in Decisions
<1>1. RulesOf(policy) \in Seq(Rule)
  BY DEF RulesOf, Policy
<1>2. \A i \in DOMAIN RulesOf(policy) : DecisionOf(RulesOf(policy)[i]) \in Decisions
  <2> TAKE i \in DOMAIN RulesOf(policy)
  <2>1. RulesOf(policy)[i] \in Rule
    BY <1>1
  <2> QED  BY <2>1, DecisionOfType
<1>3. NoMatch \in Decisions
  BY DEF NoMatch, Decisions
<1> QED  BY <1>2, <1>3, DecideFromRule

\* The list a request stores: its length, its ids, its type.
LEMMA StoredListType ==
    ASSUME NEW new \in Seq(NewRule), NEW next \in Nat
    PROVE  /\ StoredList(new, next) \in Seq(Rule)
           /\ Len(StoredList(new, next)) = Len(new)
           /\ \A i \in 1..Len(new) : StoredList(new, next)[i].id = next + i
<1>1. \A i \in 1..Len(new) : Stored(new[i], next + i) \in Rule
  <2> TAKE i \in 1..Len(new)
  <2>1. new[i] \in NewRule /\ next + i \in Nat
    OBVIOUS
  <2> QED  BY <2>1 DEF Stored, NewRule, Rule
<1>2. StoredList(new, next) = [i \in 1..Len(new) |-> Stored(new[i], next + i)]
  BY DEF StoredList
<1>3. StoredList(new, next) \in Seq(Rule) /\ Len(StoredList(new, next)) = Len(new)
  BY <1>1, <1>2
<1> QED  BY <1>2, <1>3 DEF Stored

\* What a snapshot of the stored accounts looks like.
LEMMA SnapshotType ==
    ASSUME NEW accts \in Records
    PROVE  snapshot(accts) \in Policies
BY DEF Records, AccountRecord, snapshot, Policies, Policy, First

\* The record of a new account, with empty lists, is a record.
LEMMA NewRecordType == NewRecord \in AccountRecord /\ NewRecord # None
<1>1. NewRecord \in AccountRecord
  BY DEF NewRecord, AccountRecord
<1> QED  BY <1>1, NoneIsDistinct

\* get_or_create keeps the type and every record there is.
LEMMA GetOrCreateType ==
    ASSUME NEW accts \in Records, NEW a \in Accounts
    PROVE  get_or_create(accts, a) \in Records
BY DEF Records, AccountRecord, get_or_create, NewRecord

\* Window starts are integers, whatever the calendar.
LEMMA WindowStartType ==
    ASSUME NEW t \in 0..MaxClock, NEW w \in Windows
    PROVE  WindowAt(t, w) \in Int
<1>1. Instants[t] \in Nat
  BY ConstantsAssumption
<1>2. \A x \in Int : start_of_day(x) \in Int
  BY DEF start_of_day, day, Day, Hour
<1>3. \A x \in Int : hour(x) \in Int /\ num_days_from_monday(x) \in Int /\ day_of_month(x) \in Int
  BY DEF hour, num_days_from_monday, day_of_month, day, Day, Hour
<1> QED  BY <1>1, <1>2, <1>3 DEF WindowAt, window_start, Day, Hour

\* Hours, days and weeks cut time into pieces of one length: a window is the
\* instants from its start to its length after it, so that a count taken at any
\* of them meets the same counter (quota.rs:15-27).
Length == [hour |-> Hour, day |-> Day, week |-> 7 * Day]

THEOREM WindowsCutTime ==
    ASSUME NEW t \in Int, NEW s \in Int, NEW w \in {"hour", "day", "week"}
    PROVE  window_start(t, w) = window_start(s, w)
             <=> window_start(t, w) <= s /\ s < window_start(t, w) + Length[w]
<1>1. ASSUME NEW x \in Int
      PROVE  /\ 3600 * (x \div 3600) <= x /\ x < 3600 * (x \div 3600) + 3600
             /\ x \div 3600 \in Int
  BY Z3
<1>2. ASSUME NEW x \in Int
      PROVE  /\ 86400 * (x \div 86400) <= x /\ x < 86400 * (x \div 86400) + 86400
             /\ x \div 86400 \in Int
             /\ x % 86400 = x - 86400 * (x \div 86400)
  BY Z3
<1>3. CASE w = "day"
  <2>1. /\ window_start(t, w) = 86400 * (t \div 86400)
        /\ window_start(s, w) = 86400 * (s \div 86400)
        /\ Length[w] = 86400
    BY <1>3 DEF window_start, start_of_day, day, Length, Day, Hour
  <2> QED  BY <2>1, <1>2
<1>4. CASE w = "hour"
  <2>1. ASSUME NEW x \in Int
        PROVE  window_start(x, w) = 3600 * (x \div 3600)
    <3> DEFINE d == x \div 86400
               r == x % 86400
               h == r \div 3600
    <3>1. window_start(x, w) = 86400 * d + 3600 * h
      BY <1>4 DEF window_start, start_of_day, day, hour, Day, Hour
    <3>2. d \in Int /\ r \in Int /\ 0 <= r /\ r < 86400 /\ x = 86400 * d + r
      BY <1>2
    <3> HIDE DEF d, r
    <3>3. h \in Int /\ 3600 * h <= r /\ r < 3600 * h + 3600
      BY <3>2, <1>1
    <3> HIDE DEF h
    <3>4. x \div 3600 = 24 * d + h
      BY <3>2, <3>3, <1>1
    <3> QED  BY <3>1, <3>2, <3>3, <3>4
  <2>2. Length[w] = 3600
    BY <1>4 DEF Length, Hour
  <2> QED  BY <2>1, <2>2, <1>1
<1>5. CASE w = "week"
  <2> DEFINE Week(x) == (x \div 86400 + 3) \div 7
  <2>1. ASSUME NEW x \in Int
        PROVE  /\ Week(x) \in Int
               /\ window_start(x, w) = 604800 * Week(x) - 259200
               /\ window_start(x, w) <= x /\ x < window_start(x, w) + 604800
    <3> DEFINE d == x \div 86400
               n == (d + 3) % 7
    <3>1. window_start(x, w) = 86400 * ((x - 86400 * n) \div 86400)
      BY <1>5 DEF window_start, start_of_day, day, num_days_from_monday, Day, Hour
    <3>2. d \in Int /\ 86400 * d <= x /\ x < 86400 * d + 86400
      BY <1>2
    <3> HIDE DEF d
    <3>3. n \in 0..6 /\ (d + 3) \div 7 \in Int /\ d + 3 = 7 * ((d + 3) \div 7) + n
      BY <3>2
    <3> HIDE DEF n
    <3>4. (x - 86400 * n) \div 86400 = d - n
      <4>1. x - 86400 * n \in Int
        BY <3>3
      <4> QED  BY <3>2, <3>3, <4>1, <1>2
    <3>5. window_start(x, w) = 604800 * ((d + 3) \div 7) - 259200
      BY <3>1, <3>2, <3>3, <3>4
    <3> QED  BY <3>2, <3>3, <3>5 DEF d
  <2>2. Length[w] = 604800
    BY <1>5 DEF Length, Day, Hour
  <2> DEFINE k == Week(t)
             l == Week(s)
  <2>3. k \in Int /\ window_start(t, w) = 604800 * k - 259200
    BY <2>1
  <2>4. /\ l \in Int /\ window_start(s, w) = 604800 * l - 259200
        /\ window_start(s, w) <= s /\ s < window_start(s, w) + 604800
    BY <2>1
  <2> HIDE DEF k, l
  <2>5. CASE k < l
    BY <2>2, <2>3, <2>4, <2>5
  <2>6. CASE l < k
    BY <2>2, <2>3, <2>4, <2>6
  <2>7. CASE k = l
    BY <2>2, <2>3, <2>4, <2>7
  <2> QED  BY <2>3, <2>4, <2>5, <2>6, <2>7
<1> QED  BY <1>3, <1>4, <1>5

\* Storing records of the right type appends at most one version.
LEMMA StoreType ==
    ASSUME StoreTypes, NEW accts \in Records, Store(accts)
    PROVE  /\ accounts' = accts
           /\ log' \in Seq(Policies)
           /\ Len(log) =< Len(log')
           /\ log' = log \/ log' = Append(log, snapshot(accts))
BY SnapshotType DEF StoreTypes, Store

-----------------------------------------------------------------------------
(* Type correctness.  The store's types hold because the account of every  *)
(* request in flight exists: assigning to a field of a record that is not  *)
(* there would be the panic that expect("just created") rules out.         *)

\* A management step keeps the store's types and never meets an account that
\* is missing.
LEMMA EditTypes ==
    ASSUME StoreTypes, JustCreated, Edit
    PROVE  /\ StoreTypes' /\ JustCreated'
           /\ Len(log) =< Len(log')
           /\ UNCHANGED <<quota, clock, poller, progress>>
<1>0. accounts \in Records
  BY DEF StoreTypes, Records, AccountRecord
<1>1. ASSUME NEW a \in Accounts, CreateAccount(a)
      PROVE  StoreTypes' /\ JustCreated' /\ Len(log) =< Len(log')
  <2> DEFINE accts == get_or_create(accounts, a)
  <2>1. accts \in Records
    BY <1>0, GetOrCreateType
  <2>2. \A b \in Accounts : accounts[b] # None => accts[b] # None
    BY <1>0 DEF get_or_create, Records, AccountRecord
  <2> HIDE DEF accts
  <2>3. /\ accounts' = accts /\ log' \in Seq(Policies) /\ Len(log) =< Len(log')
        /\ UNCHANGED <<next_rule_id, edit>>
    BY <1>1, <2>1, StoreType DEF CreateAccount, accts
  <2> QED  BY <2>1, <2>2, <2>3 DEF StoreTypes, JustCreated, Records, AccountRecord
<1>2. ASSUME NEW e \in Editors, NEW a \in Accounts, NEW op, NEW new, BeginReplace(e, op, a, new),
             \/ op = "rules" /\ new \in NewRuleLists
             \/ op = "upstreams" /\ new \in NewUpstreamLists
      PROVE  StoreTypes' /\ JustCreated' /\ Len(log) =< Len(log')
  <2> DEFINE accts == get_or_create(accounts, a)
  <2>1. accts \in Records
    BY <1>0, GetOrCreateType
  <2>2. accts[a] # None /\ \A b \in Accounts : accounts[b] # None => accts[b] # None
    BY <1>0, NewRecordType DEF get_or_create, Records
  <2> HIDE DEF accts
  <2>3. /\ accounts' = accts /\ log' \in Seq(Policies) /\ Len(log) =< Len(log')
        /\ edit' = [edit EXCEPT ![e] = [op |-> op, account |-> a, new |-> new]]
        /\ UNCHANGED next_rule_id
    BY <1>2, <2>1, StoreType DEF BeginReplace, accts
  <2>4. StoreTypes'
    BY <1>2, <2>1, <2>3 DEF StoreTypes, Records, AccountRecord
  <2>5. JustCreated'
    BY <2>2, <2>3 DEF JustCreated, StoreTypes
  <2> QED  BY <2>3, <2>4, <2>5
<1>3. ASSUME NEW e \in Editors, FinishReplaceRules(e)
      PROVE  StoreTypes' /\ JustCreated' /\ Len(log) =< Len(log')
  <2> DEFINE a == edit[e].account
             new == edit[e].new
             accts == [accounts EXCEPT ![a].rules = StoredList(new, next_rule_id)]
  <2>1. a \in Accounts /\ new \in Seq(NewRule)
    BY <1>3, ConstantsAssumption DEF FinishReplaceRules, StoreTypes
  <2>2. StoredList(new, next_rule_id) \in Seq(Rule)
    BY <2>1, StoredListType DEF StoreTypes
  <2>3. accounts[a] \in AccountRecord
    BY <1>0, <1>3, <2>1 DEF JustCreated, FinishReplaceRules, Records, AccountRecord
  <2>4. accts \in Records
    BY <1>0, <2>1, <2>2, <2>3 DEF Records, AccountRecord
  <2>5. \A b \in Accounts : accounts[b] # None => accts[b] # None
    BY <1>0, <2>1, <2>2, <2>3, NoneIsDistinct DEF Records, AccountRecord
  <2>6. next_rule_id + Len(new) \in Nat
    BY <2>1 DEF StoreTypes
  <2> HIDE DEF accts
  <2>7. /\ accounts' = accts /\ log' \in Seq(Policies) /\ Len(log) =< Len(log')
        /\ edit' = [edit EXCEPT ![e] = None]
        /\ next_rule_id' = next_rule_id + Len(new)
    BY <1>3, <2>4, StoreType DEF FinishReplaceRules, accts
  <2> HIDE DEF a, new
  <2>8. StoreTypes'
    BY <2>4, <2>6, <2>7 DEF StoreTypes, Records, AccountRecord
  <2>9. JustCreated'
    BY <2>5, <2>7 DEF JustCreated, StoreTypes
  <2> QED  BY <2>7, <2>8, <2>9
<1>4. ASSUME NEW e \in Editors, FinishReplaceUpstreams(e)
      PROVE  StoreTypes' /\ JustCreated' /\ Len(log) =< Len(log')
  <2> DEFINE a == edit[e].account
             new == edit[e].new
             accts == [accounts EXCEPT ![a].upstreams = new]
  <2>1. a \in Accounts /\ new \in Seq(Upstreams)
    BY <1>4, ConstantsAssumption DEF FinishReplaceUpstreams, StoreTypes
  <2>3. accounts[a] \in AccountRecord
    BY <1>0, <1>4, <2>1 DEF JustCreated, FinishReplaceUpstreams, Records, AccountRecord
  <2>4. accts \in Records
    BY <1>0, <2>1, <2>3 DEF Records, AccountRecord
  <2>5. \A b \in Accounts : accounts[b] # None => accts[b] # None
    BY <1>0, <2>1, <2>3, NoneIsDistinct DEF Records, AccountRecord
  <2> HIDE DEF accts
  <2>7. /\ accounts' = accts /\ log' \in Seq(Policies) /\ Len(log) =< Len(log')
        /\ edit' = [edit EXCEPT ![e] = None]
        /\ UNCHANGED next_rule_id
    BY <1>4, <2>4, StoreType DEF FinishReplaceUpstreams, accts
  <2> HIDE DEF a, new
  <2>8. StoreTypes'
    BY <2>4, <2>7 DEF StoreTypes, Records, AccountRecord
  <2>9. JustCreated'
    BY <2>5, <2>7 DEF JustCreated, StoreTypes
  <2> QED  BY <2>7, <2>8, <2>9
<1>5. UNCHANGED <<quota, clock, poller, progress>>
  BY DEF Edit, CreateAccount, BeginReplace, FinishReplaceRules, FinishReplaceUpstreams
<1> QED  BY <1>1, <1>2, <1>3, <1>4, <1>5 DEF Edit

LimitDecisions == [kind : {"limit"}, rule_id : Nat, limit_count : Int, window : Windows]

\* A query that is at record_quota has a limit decision, and a counter to
\* charge once it is past the limit check.
AtQuota ==
    \A q \in Queries :
        /\ pc[q] \in {"limit", "charge"} => decision[q] \in LimitDecisions
        /\ pc[q] = "charge" => slot[q] \in Nat \X Int

\* A decision leads to record_quota only if it is a limit.
LEMMA LimitDecision ==
    ASSUME NEW d \in Decisions, AfterDecision(d) \in {"limit", "charge"}
    PROVE  d \in LimitDecisions /\ AfterDecision(d) = "limit"
BY DEF Decisions, LimitDecisions, AfterDecision

\* Every step of a query keeps the types of the queries and the counters.
LEMMA QueryTypesKept ==
    ASSUME CacheTypes, QueryTypes, AtQuota, NEW q \in Queries, Query(q)
    PROVE  /\ QueryTypes' /\ AtQuota'
           /\ UNCHANGED <<store, edit, poller>>
<1> USE DEF QueryTypes, AtQuota, Outcomes
<1>1. CASE Malformed(q)
  BY <1>1 DEF Malformed
<1>2. ASSUME NEW a \in Accounts, NEW name \in Names, Arrive(q, a, name)
      PROVE  QueryTypes' /\ AtQuota' /\ UNCHANGED <<store, edit, poller>>
  <2> DEFINE policy == Lookup(cache, a)
             d == Decide(policy, name)
  <2>1. policy \in Policy \cup {None}
    BY DEF CacheTypes, Policies, Lookup
  <2>2. d \in Decisions
    BY <2>1, DecideType
  <2>3. AfterDecision(d) \in {"done", "limit", "forward"}
    BY DEF AfterDecision
  <2>4. /\ cached' = [cached EXCEPT ![q] = policy]
        /\ decision' = [decision EXCEPT ![q] = d]
        /\ pc' = [pc EXCEPT ![q] = AfterDecision(d)]
        /\ outcome' = [outcome EXCEPT ![q] = IF d.kind = "deny" THEN "deny" ELSE None]
        /\ asked' = [asked EXCEPT ![q] = <<a, name>>]
        /\ born' = [born EXCEPT ![q] = [version |-> cache_at, time |-> clock]]
        /\ UNCHANGED <<store, quota, clock, edit, poller, slot, paid, via>>
    BY <1>2 DEF Arrive
  <2>5. [version |-> cache_at, time |-> clock] \in [version : Nat \ {0}, time : Nat]
    BY DEF CacheTypes
  <2> HIDE DEF policy, d
  <2>6. QueryTypes'
    BY <2>1, <2>2, <2>3, <2>4, <2>5
  <2>7. AtQuota'
    BY <2>2, <2>3, <2>4, LimitDecision
  <2> QED  BY <2>4, <2>6, <2>7
<1>3. CASE CheckLimit(q)
  <2>1. decision[q] \in LimitDecisions
    BY <1>3 DEF CheckLimit
  <2>2. Counter(decision[q], clock) \in Nat \X Int
    BY <2>1, WindowStartType DEF Counter, LimitDecisions
  <2> QED  BY <1>3, <2>1, <2>2 DEF CheckLimit
<1>4. CASE Charge(q)
  <2>1. slot[q] \in Nat \X Int /\ decision[q] \in LimitDecisions
    BY <1>4 DEF Charge
  <2>2. /\ DOMAIN Bump(quota, slot[q]) \subseteq Nat \X Int
        /\ \A k \in DOMAIN Bump(quota, slot[q]) : Bump(quota, slot[q])[k] \in Nat
    BY <2>1 DEF Bump, Count
  <2> QED  BY <1>4, <2>2 DEF Charge
<1>5. CASE QuotaFails(q)
  BY <1>5 DEF QuotaFails
<1>6. CASE Send(q)
  <2>1. transport_for(cached[q]) \in Upstreams \cup {Fallback}
    BY DEF transport_for, Policy
  <2> QED  BY <1>6, <2>1 DEF Send
<1>7. CASE Answer(q)
  BY <1>7 DEF Answer
<1> QED  BY <1>1, <1>2, <1>3, <1>4, <1>5, <1>6, <1>7 DEF Query

TypeIInv == TypeOK /\ JustCreated /\ AtQuota

LEMMA InitialTypes == Init => TypeIInv
BY ConstantsAssumption
DEF Init, TypeIInv, TypeOK, StoreTypes, CacheTypes, QueryTypes, JustCreated, AtQuota,
    Nobody, Policies, Records, NoMatch, Decisions

\* The types hold in every reachable state, and no request in flight names a
\* missing account.
THEOREM TypeInductive == Spec => []TypeIInv
<1>1. Init => TypeIInv
  BY InitialTypes
<1>2. TypeIInv /\ [Next]_vars => TypeIInv'
  <2> SUFFICES ASSUME StoreTypes, CacheTypes, QueryTypes, JustCreated, AtQuota, [Next]_vars
               PROVE  /\ StoreTypes' /\ CacheTypes' /\ QueryTypes'
                      /\ JustCreated' /\ AtQuota'
    BY DEF TypeIInv, TypeOK
  <2>1. CASE Edit
    <3>1. /\ StoreTypes' /\ JustCreated' /\ Len(log) =< Len(log')
          /\ UNCHANGED <<quota, clock, poller, progress>>
      BY <2>1, EditTypes
    <3>2. CacheTypes'
      BY <3>1 DEF CacheTypes, StoreTypes
    <3>3. QueryTypes' /\ AtQuota'
      BY <3>1 DEF QueryTypes, AtQuota
    <3> QED  BY <3>1, <3>2, <3>3
  <2>2. CASE TakeSnapshot
    <3>1. snapshot(accounts) \in Policies /\ Len(log) \in Nat
      BY SnapshotType DEF StoreTypes
    <3> QED  BY <2>2, <3>1 DEF TakeSnapshot, StoreTypes, CacheTypes, QueryTypes,
                              JustCreated, AtQuota
  <2>3. CASE Install
    BY <2>3 DEF Install, Replaced, StoreTypes, CacheTypes, QueryTypes, JustCreated, AtQuota
  <2>4. CASE Tick
    BY <2>4, ConstantsAssumption
    DEF Tick, StoreTypes, CacheTypes, QueryTypes, JustCreated, AtQuota
  <2>5. ASSUME NEW q \in Queries, Query(q)
        PROVE  /\ StoreTypes' /\ CacheTypes' /\ QueryTypes'
               /\ JustCreated' /\ AtQuota'
    <3>1. QueryTypes' /\ AtQuota' /\ UNCHANGED <<store, edit, poller>>
      BY <2>5, QueryTypesKept
    <3> QED  BY <3>1 DEF StoreTypes, CacheTypes, JustCreated
  <2>6. CASE UNCHANGED vars
    BY <2>6 DEF vars, StoreTypes, CacheTypes, QueryTypes, JustCreated, AtQuota
  <2> QED  BY <2>1, <2>2, <2>3, <2>4, <2>5, <2>6 DEF Next
<1> QED  BY <1>1, <1>2, PTL DEF Spec

\* The state stays in the types the code gives it.
THEOREM TypeCorrect == Spec => []TypeOK
<1>1. TypeIInv => TypeOK
  BY DEF TypeIInv
<1> QED  BY <1>1, TypeInductive, PTL

\* expect("just created") never panics (inmem.rs:151-155, 190-194).
THEOREM AccountsOfRequestsExist == Spec => []JustCreated
<1>1. TypeIInv => JustCreated
  BY DEF TypeIInv
<1> QED  BY <1>1, TypeInductive, PTL

-----------------------------------------------------------------------------
(* Versions.  The stored policies are the newest version, and the cache    *)
(* and the snapshot on its way to it are versions too.                     *)

Versions ==
    /\ snapshot(accounts) = log[Len(log)]
    /\ CacheIsOneVersion
    /\ snap # None => snap = log[snap_at]

\* The stored policies and the log change together.
LEMMA EditStores == Edit => Store(accounts')
BY DEF Edit, CreateAccount, BeginReplace, FinishReplaceRules, FinishReplaceUpstreams, Store

\* No version is ever changed or forgotten.
LEMMA LogGrows ==
    ASSUME StoreTypes, StoreTypes', [Next]_vars
    PROVE  /\ Len(log) \in Nat /\ Len(log') \in Nat /\ Len(log) =< Len(log')
           /\ \A v \in 1..Len(log) : log'[v] = log[v]
<1>1. Len(log) \in Nat /\ Len(log') \in Nat
  BY DEF StoreTypes
<1>2. CASE Edit
  <2>1. log' = log \/ log' = Append(log, snapshot(accounts'))
    BY <1>2, EditStores DEF Store
  <2>2. snapshot(accounts') \in Policies
    BY SnapshotType DEF StoreTypes
  <2> QED  BY <1>1, <2>1, <2>2 DEF StoreTypes
<1>3. CASE ~Edit
  <2>1. log' = log
    BY <1>3 DEF Next, TakeSnapshot, Install, Tick, Query, Malformed, Arrive, CheckLimit,
                Charge, QuotaFails, Send, Answer, vars
  <2> QED  BY <1>1, <2>1
<1> QED  BY <1>2, <1>3

\* Every refresh installs a whole version.
LEMMA VersionsKept ==
    ASSUME TypeIInv, TypeIInv', Versions, [Next]_vars
    PROVE  Versions'
<1> USE DEF Versions, CacheIsOneVersion
<1>0. /\ StoreTypes /\ StoreTypes' /\ CacheTypes
      /\ Len(log) \in Nat /\ Len(log') \in Nat /\ Len(log) =< Len(log')
      /\ \A v \in 1..Len(log) : log'[v] = log[v]
  BY LogGrows DEF TypeIInv, TypeOK
<1>1. CASE Edit
  <2>1. UNCHANGED <<cache, snap, snap_at, cache_at>>
    BY <1>1 DEF Edit, CreateAccount, BeginReplace, FinishReplaceRules, FinishReplaceUpstreams
  <2>2. snapshot(accounts)' = log'[Len(log')]
    <3>1. \/ log' = log /\ snapshot(accounts') = snapshot(accounts)
          \/ log' = Append(log, snapshot(accounts'))
      BY <1>1, EditStores DEF Store
    <3>2. snapshot(accounts') \in Policies
      BY <1>0, SnapshotType DEF StoreTypes
    <3>3. snapshot(accounts)' = snapshot(accounts')
      BY DEF snapshot
    <3> QED  BY <1>0, <3>1, <3>2, <3>3 DEF StoreTypes
  <2> QED  BY <1>0, <2>1, <2>2 DEF CacheTypes
<1>2. CASE TakeSnapshot
  BY <1>0, <1>2 DEF TakeSnapshot, CacheTypes, snapshot
<1>3. CASE Install
  BY <1>0, <1>3 DEF Install, Replaced, CacheTypes, snapshot
<1>4. CASE UNCHANGED <<accounts, log, cache, snap, snap_at, cache_at>>
  BY <1>4 DEF snapshot
<1>5. Tick \/ (\E q \in Queries : Query(q)) \/ UNCHANGED vars
        => UNCHANGED <<accounts, log, cache, snap, snap_at, cache_at>>
  BY DEF Tick, Query, Malformed, Arrive, CheckLimit, Charge, QuotaFails, Send, Answer, vars
<1> QED  BY <1>1, <1>2, <1>3, <1>4, <1>5 DEF Next

\* The cache is always one whole version of the stored policies.
THEOREM CacheTheorem == Spec => []CacheIsOneVersion
<1>1. Init => Versions
  BY DEF Init, Versions, CacheIsOneVersion, snapshot, Nobody
<1>2. TypeIInv /\ TypeIInv' /\ Versions /\ [Next]_vars => Versions'
  BY VersionsKept
<1>3. Versions => CacheIsOneVersion
  BY DEF Versions
<1> QED  BY <1>1, <1>2, <1>3, TypeInductive, PTL DEF Spec

-----------------------------------------------------------------------------
(* One version per query.                                                  *)

\* What handle_inner knows of the query when it is past the cache.
Served(q) ==
    IF asked[q] = None
    THEN pc[q] \in {"idle", "done"} /\ decision[q] = NoMatch
    ELSE /\ pc[q] # "idle"
         /\ born[q].version \in 1..Len(log)
         /\ cached[q] = Lookup(log[born[q].version], asked[q][1])
         /\ decision[q] = Decide(cached[q], asked[q][2])

\* What is due, and what must not have happened, at each of its steps.
Progress(q) ==
    /\ pc[q] \in {"idle", "limit", "charge", "forward"} => via[q] = None
    /\ pc[q] \in {"idle", "limit", "charge"} => q \notin paid
    /\ pc[q] \in {"forward", "sent"} => decision[q].kind # "deny"
    /\ pc[q] \in {"forward", "sent"} /\ decision[q].kind = "limit" => q \in paid
    /\ via[q] # None => /\ asked[q] # None
                        /\ via[q] = transport_for(cached[q])
                        /\ decision[q].kind # "deny"
                        /\ decision[q].kind = "limit" => q \in paid
    /\ pc[q] # "done" => outcome[q] = None
    /\ outcome[q] \in {"deny", "limit_exceeded", "error"} => via[q] = None

Queued == \A q \in Queries : Served(q) /\ Progress(q)

\* A query's own steps keep what is known of it, and touch no other query.
LEMMA QueryKeepsQueued ==
    ASSUME TypeIInv, TypeIInv', Versions, Queued, NEW q \in Queries, Query(q)
    PROVE  Queued'
<1> USE DEF Queued, Progress
<1>0. /\ QueryTypes /\ CacheTypes /\ StoreTypes /\ AtQuota
  BY DEF TypeIInv, TypeOK
<1>1. CASE Malformed(q)
  BY <1>0, <1>1 DEF Malformed, Served, QueryTypes
<1>2. ASSUME NEW a \in Accounts, NEW name \in Names, Arrive(q, a, name)
      PROVE  Queued'
  <2> DEFINE policy == Lookup(cache, a)
             d == Decide(policy, name)
  <2>1. /\ pc[q] = "idle"
        /\ cached' = [cached EXCEPT ![q] = policy]
        /\ decision' = [decision EXCEPT ![q] = d]
        /\ pc' = [pc EXCEPT ![q] = AfterDecision(d)]
        /\ outcome' = [outcome EXCEPT ![q] = IF d.kind = "deny" THEN "deny" ELSE None]
        /\ asked' = [asked EXCEPT ![q] = <<a, name>>]
        /\ born' = [born EXCEPT ![q] = [version |-> cache_at, time |-> clock]]
        /\ UNCHANGED <<log, paid, via>>
    BY <1>2 DEF Arrive
  <2>2. <<a, name>> # None
    BY NoneIsDistinct
  <2>3. policy \in Policy \cup {None}
    BY <1>0 DEF CacheTypes, Policies, Lookup
  <2>4. d \in Decisions
    BY <2>3, DecideType
  <2>5. /\ AfterDecision(d) \in {"done", "limit", "forward"}
        /\ d.kind = "deny" <=> AfterDecision(d) = "done"
        /\ d.kind = "limit" <=> AfterDecision(d) = "limit"
    BY <2>4 DEF AfterDecision, Decisions
  <2>6. policy = Lookup(log[cache_at], a) /\ cache_at \in 1..Len(log)
    BY <1>0 DEF CacheTypes, Versions, CacheIsOneVersion
  <2>7. d = Decide(policy, name)
    OBVIOUS
  <2> HIDE DEF policy, d
  <2>8. Served(q)'
    BY <1>0, <2>1, <2>2, <2>5, <2>6, <2>7 DEF Served, QueryTypes
  <2>9. Progress(q)'
    BY <1>0, <2>1, <2>5 DEF QueryTypes
  <2>10. \A p \in Queries \ {q} : Served(p)' /\ Progress(p)'
    BY <1>0, <2>1 DEF Served, QueryTypes
  <2> QED  BY <2>8, <2>9, <2>10
<1>3. CASE CheckLimit(q)
  BY <1>0, <1>3 DEF CheckLimit, Served, QueryTypes, AtQuota, LimitDecisions
<1>4. CASE Charge(q)
  BY <1>0, <1>4 DEF Charge, Served, QueryTypes, AtQuota, LimitDecisions
<1>5. CASE QuotaFails(q)
  BY <1>0, <1>5 DEF QuotaFails, Served, QueryTypes
<1>6. CASE Send(q)
  <2>1. /\ pc[q] = "forward" /\ pc' = [pc EXCEPT ![q] = "sent"]
        /\ via' = [via EXCEPT ![q] = transport_for(cached[q])]
        /\ UNCHANGED <<log, cached, decision, paid, outcome, asked, born>>
    BY <1>6 DEF Send
  <2>2. asked[q] # None /\ pc'[q] = "sent" /\ via'[q] = transport_for(cached[q])
    BY <1>0, <2>1 DEF Served, QueryTypes
  <2>3. outcome'[q] \notin {"deny", "limit_exceeded", "error"}
    BY <2>1, NoneIsDistinct DEF Outcomes
  <2>5. Served(q)'
    BY <2>1, <2>2 DEF Served
  <2>6. Progress(q)'
    BY <2>1, <2>2, <2>3
  <2>4. \A p \in Queries \ {q} : Served(p)' /\ Progress(p)'
    BY <1>0, <2>1 DEF Served, QueryTypes
  <2> QED  BY <2>4, <2>5, <2>6
<1>7. CASE Answer(q)
  BY <1>0, <1>7 DEF Answer, Served, QueryTypes
<1> QED  BY <1>1, <1>2, <1>3, <1>4, <1>5, <1>6, <1>7 DEF Query

LEMMA QueuedKept ==
    ASSUME TypeIInv, TypeIInv', Versions, Queued, [Next]_vars
    PROVE  Queued'
<1>1. CASE \E q \in Queries : Query(q)
  BY <1>1, QueryKeepsQueued
<1>2. CASE UNCHANGED progress
  <2>1. \A v \in 1..Len(log) : log'[v] = log[v] /\ v \in 1..Len(log')
    BY LogGrows DEF TypeIInv, TypeOK
  <2>2. \A q \in Queries : Served(q)'
    BY <1>2, <2>1 DEF Queued, Served
  <2>3. \A q \in Queries : Progress(q)'
    BY <1>2 DEF Queued, Progress
  <2> QED  BY <2>2, <2>3 DEF Queued
<1>3. Edit \/ TakeSnapshot \/ Install \/ Tick \/ UNCHANGED vars => UNCHANGED progress
  BY DEF Edit, CreateAccount, BeginReplace, FinishReplaceRules, FinishReplaceUpstreams,
         TakeSnapshot, Install, Tick, vars
<1> QED  BY <1>1, <1>2, <1>3 DEF Next

QueueIInv == TypeIInv /\ Versions /\ Queued

LEMMA QueueInductive == Spec => []QueueIInv
<1>1. Init => Versions /\ Queued
  BY DEF Init, Versions, CacheIsOneVersion, snapshot, Nobody, Queued, Served, Progress
<1>2. TypeIInv /\ TypeIInv' /\ Versions /\ Queued /\ [Next]_vars => Versions' /\ Queued'
  BY VersionsKept, QueuedKept
<1> QED  BY <1>1, <1>2, TypeInductive, PTL DEF Spec, QueueIInv

\* A query is decided and routed by one version of its account's policy.
THEOREM OneVersionTheorem == Spec => []ServedByOneVersion
<1>1. QueueIInv => ServedByOneVersion
  BY DEF QueueIInv, Queued, Served, Progress, ServedByOneVersion
<1> QED  BY <1>1, QueueInductive, PTL

\* Forwarding under a limit is charged for, and nothing denied is forwarded.
THEOREM EarnedTheorem == Spec => []ForwardingIsEarned
<1>1. QueueIInv => ForwardingIsEarned
  BY DEF QueueIInv, Queued, Progress, ForwardingIsEarned
<1> QED  BY <1>1, QueueInductive, PTL

-----------------------------------------------------------------------------
(* Rule ids.  Every rule any version held has an id that has been given    *)
(* out, and every list that is stored takes ids that have not.             *)

\* Issued, rule by rule.
LEMMA IssuedMembers ==
    ASSUME log \in Seq(Policies), NEW r
    PROVE  r \in Issued <=> \E v \in 1..Len(log) : r \in RulesIn(log[v])
<1>1. DOMAIN log = 1..Len(log)
  OBVIOUS
<1> QED  BY <1>1 DEF Issued

\* The rules of one version, account by account.
LEMMA RulesInMembers ==
    ASSUME NEW policies, NEW r
    PROVE  r \in RulesIn(policies) <=>
             \E a \in Accounts : \E i \in DOMAIN RulesOf(policies[a]) :
                 r = RulesOf(policies[a])[i]
BY DEF RulesIn, ToSet

\* The rules of the stored accounts, as a snapshot shows them.
LEMMA SnapshotRules ==
    ASSUME NEW accts \in Records, NEW a \in Accounts
    PROVE  RulesOf(snapshot(accts)[a]) = IF accts[a] = None THEN << >> ELSE accts[a].rules
<1>1. CASE accts[a] = None
  BY <1>1 DEF snapshot, RulesOf
<1>2. CASE accts[a] # None
  <2>1. accts[a] \in AccountRecord
    BY <1>2 DEF Records
  <2>2. snapshot(accts)[a] \in Policy
    BY <1>2, <2>1 DEF snapshot, Policy, First, AccountRecord
  <2>3. snapshot(accts)[a] # None
    BY <2>2, NoneIsDistinct
  <2> QED  BY <1>2, <2>3 DEF snapshot, RulesOf
<1> QED  BY <1>1, <1>2

\* What a request stores, or nothing.
Bodies == NewRuleLists \cup {<< >>}

\* It is a list of rules.
LEMMA BodiesType == Bodies \subseteq Seq(NewRule)
<1>1. NewRuleLists \subseteq Seq(NewRule)
  BY ConstantsAssumption
<1>2. << >> \in Seq(NewRule)
  OBVIOUS
<1> QED  BY <1>1, <1>2 DEF Bodies

\* The rules an account holds after a management step are those it held, or
\* one request's list under the ids that follow next_rule_id.
LEMMA EditRules ==
    ASSUME StoreTypes, JustCreated, Edit
    PROVE  \E new \in Bodies :
             /\ next_rule_id' = next_rule_id + Len(new)
             /\ \A a \in Accounts :
                   LET before == RulesOf(snapshot(accounts)[a])
                       after  == RulesOf(snapshot(accounts')[a])
                   IN  after = before \/ after = StoredList(new, next_rule_id) \/ after = << >>
<1>0. accounts \in Records /\ accounts' \in Records /\ << >> \in Bodies
  BY EditTypes DEF StoreTypes, Bodies
<1> DEFINE rules(accts, a) == IF accts[a] = None THEN << >> ELSE accts[a].rules
<1>1. SUFFICES \E new \in Bodies :
             /\ next_rule_id' = next_rule_id + Len(new)
             /\ \A a \in Accounts :
                   \/ rules(accounts', a) = rules(accounts, a)
                   \/ rules(accounts', a) = StoredList(new, next_rule_id)
                   \/ rules(accounts', a) = << >>
  BY <1>0, SnapshotRules
<1>2. ASSUME next_rule_id' = next_rule_id,
             \A a \in Accounts : \/ rules(accounts', a) = rules(accounts, a)
                                 \/ rules(accounts', a) = << >>
      PROVE  \E new \in Bodies :
             /\ next_rule_id' = next_rule_id + Len(new)
             /\ \A a \in Accounts :
                   \/ rules(accounts', a) = rules(accounts, a)
                   \/ rules(accounts', a) = StoredList(new, next_rule_id)
                   \/ rules(accounts', a) = << >>
  <2>1. next_rule_id' = next_rule_id + Len(<< >>)
    BY <1>2 DEF StoreTypes
  <2> HIDE DEF rules
  <2> QED  BY <1>0, <1>2, <2>1
<1>3. ASSUME NEW b \in Accounts, accounts' = get_or_create(accounts, b)
      PROVE  \A a \in Accounts : \/ rules(accounts', a) = rules(accounts, a)
                                 \/ rules(accounts', a) = << >>
  BY <1>0, <1>3, NewRecordType DEF get_or_create, Records, NewRecord
<1>4. CASE \E b \in Accounts : accounts' = get_or_create(accounts, b) /\ UNCHANGED next_rule_id
  <2> HIDE DEF rules
  <2> QED  BY <1>2, <1>3, <1>4
<1>5. ASSUME NEW e \in Editors, FinishReplaceRules(e)
      PROVE  \E new \in Bodies :
             /\ next_rule_id' = next_rule_id + Len(new)
             /\ \A a \in Accounts :
                   \/ rules(accounts', a) = rules(accounts, a)
                   \/ rules(accounts', a) = StoredList(new, next_rule_id)
                   \/ rules(accounts', a) = << >>
  <2> DEFINE b == edit[e].account
             list == StoredList(edit[e].new, next_rule_id)
  <2>1. edit[e].new \in Bodies /\ b \in Accounts
    BY <1>5 DEF FinishReplaceRules, StoreTypes, Bodies
  <2>2. /\ accounts' = [accounts EXCEPT ![b].rules = list]
        /\ next_rule_id' = next_rule_id + Len(edit[e].new)
    BY <1>5 DEF FinishReplaceRules, Store
  <2>3. accounts[b] \in AccountRecord
    BY <1>0, <1>5, <2>1 DEF JustCreated, FinishReplaceRules, Records
  <2> HIDE DEF list, b
  <2>4. \A a \in Accounts \ {b} : accounts'[a] = accounts[a]
    BY <1>0, <2>1, <2>2 DEF Records
  <2>5. accounts'[b].rules = list
    BY <1>0, <2>1, <2>2, <2>3 DEF Records, AccountRecord
  <2>6. \A a \in Accounts : \/ rules(accounts', a) = rules(accounts, a)
                            \/ rules(accounts', a) = list
                            \/ rules(accounts', a) = << >>
    BY <2>4, <2>5
  <2> HIDE DEF rules
  <2> QED  BY <2>1, <2>2, <2>6 DEF list
<1>6. ASSUME NEW e \in Editors, FinishReplaceUpstreams(e)
      PROVE  /\ next_rule_id' = next_rule_id
             /\ \A a \in Accounts : \/ rules(accounts', a) = rules(accounts, a)
                                    \/ rules(accounts', a) = << >>
  <2> DEFINE b == edit[e].account
  <2>1. b \in Accounts
    BY <1>6 DEF FinishReplaceUpstreams, StoreTypes
  <2>2. /\ accounts' = [accounts EXCEPT ![b].upstreams = edit[e].new]
        /\ next_rule_id' = next_rule_id
    BY <1>6 DEF FinishReplaceUpstreams, Store
  <2>3. accounts[b] \in AccountRecord /\ accounts[b] # None
    BY <1>0, <1>6, <2>1 DEF JustCreated, FinishReplaceUpstreams, Records
  <2> HIDE DEF b
  <2>4. \A a \in Accounts \ {b} : accounts'[a] = accounts[a]
    BY <1>0, <2>1, <2>2 DEF Records
  <2>5. accounts'[b].rules = accounts[b].rules
    BY <1>0, <2>1, <2>2, <2>3 DEF Records, AccountRecord
  <2> QED  BY <2>2, <2>3, <2>4, <2>5
<1>7. \/ \E b \in Accounts : accounts' = get_or_create(accounts, b) /\ UNCHANGED next_rule_id
      \/ \E e \in Editors : FinishReplaceRules(e)
      \/ \E e \in Editors : FinishReplaceUpstreams(e)
  BY DEF Edit, CreateAccount, BeginReplace, Store
<1> HIDE DEF rules
<1> QED  BY <1>2, <1>4, <1>5, <1>6, <1>7

Ids ==
    /\ \A r \in Issued : r \in Rule /\ r.id =< next_rule_id
    /\ IdsAreNeverReused

\* A management step issues rules under unused ids only; nothing else issues
\* any.
LEMMA IdsKept ==
    ASSUME TypeIInv, TypeIInv', Versions, Ids, [Next]_vars
    PROVE  /\ Ids' /\ Issued \subseteq Issued'
           /\ next_rule_id =< next_rule_id'
           /\ \A r \in Issued' : r \in Issued \/ next_rule_id < r.id
<1>0. /\ StoreTypes /\ StoreTypes' /\ JustCreated
      /\ log \in Seq(Policies) /\ log' \in Seq(Policies)
      /\ next_rule_id \in Nat
      /\ Len(log) \in Nat /\ Len(log') \in Nat /\ Len(log) =< Len(log')
      /\ \A v \in 1..Len(log) : log'[v] = log[v]
  BY LogGrows DEF TypeIInv, TypeOK, StoreTypes
<1>1. \A r : r \in Issued' <=> \E v \in 1..Len(log') : r \in RulesIn(log'[v])
  <2>1. DOMAIN log' = 1..Len(log')
    BY <1>0
  <2> QED  BY <2>1 DEF Issued, RulesIn
<1>2. Issued \subseteq Issued'
  BY <1>0, <1>1, IssuedMembers
<1>3. CASE UNCHANGED <<log, next_rule_id>>
  <2>1. Issued' = Issued
    BY <1>3 DEF Issued, RulesIn
  <2> QED  BY <1>0, <1>3, <2>1 DEF Ids, IdsAreNeverReused
<1>4. CASE Edit
  <2>1. log' = log \/ log' = Append(log, snapshot(accounts'))
    BY <1>4, EditStores DEF Store
  <2>2. snapshot(accounts') \in Policies
    BY <1>0, SnapshotType DEF StoreTypes
  <2>3. PICK new \in Bodies :
             /\ next_rule_id' = next_rule_id + Len(new)
             /\ \A a \in Accounts :
                   LET before == RulesOf(snapshot(accounts)[a])
                       after  == RulesOf(snapshot(accounts')[a])
                   IN  after = before \/ after = StoredList(new, next_rule_id) \/ after = << >>
    BY <1>0, <1>4, EditRules
  <2> DEFINE list == StoredList(new, next_rule_id)
  <2>4. list \in Seq(Rule) /\ Len(list) = Len(new) /\ Len(new) \in Nat
          /\ \A i \in 1..Len(new) : list[i].id = next_rule_id + i
    <3>1. new \in Seq(NewRule)
      BY BodiesType
    <3> QED  BY <1>0, <3>1, StoredListType
  <2>5. RulesIn(snapshot(accounts)) \subseteq Issued
    <3>1. 1 =< Len(log)
      BY <1>0 DEF TypeIInv, TypeOK, CacheTypes
    <3> QED  BY <1>0, <3>1, IssuedMembers DEF Versions
  <2> HIDE DEF list
  <2>6. \A r \in RulesIn(snapshot(accounts')) :
           r \in Issued \/ \E i \in 1..Len(new) : r = list[i]
    <3> TAKE r \in RulesIn(snapshot(accounts'))
    <3>1. PICK a \in Accounts : \E i \in DOMAIN RulesOf(snapshot(accounts')[a]) :
                 r = RulesOf(snapshot(accounts')[a])[i]
      BY DEF RulesIn, ToSet
    <3>2. CASE RulesOf(snapshot(accounts')[a]) = RulesOf(snapshot(accounts)[a])
      BY <2>5, <3>1, <3>2, RulesInMembers
    <3>3. CASE RulesOf(snapshot(accounts')[a]) = list
      BY <2>4, <3>1, <3>3
    <3>4. CASE RulesOf(snapshot(accounts')[a]) = << >>
      BY <3>1, <3>4
    <3> QED  BY <2>3, <3>2, <3>3, <3>4 DEF list
  <2>7. \A r \in Issued' : r \in Issued \/ \E i \in 1..Len(new) : r = list[i]
    <3> TAKE r \in Issued'
    <3>1. PICK v \in 1..Len(log') : r \in RulesIn(log'[v])
      BY <1>1
    <3>2. CASE v \in 1..Len(log)
      BY <1>0, <3>1, <3>2, IssuedMembers
    <3>3. CASE v \notin 1..Len(log)
      <4>1. log'[v] = snapshot(accounts')
        BY <1>0, <2>1, <2>2, <3>3
      <4> QED  BY <2>6, <3>1, <4>1
    <3> QED  BY <3>2, <3>3
  <2>8. \A r \in Issued' :
           /\ r \in Rule
           /\ r \in Issued \/ \E i \in 1..Len(new) : r = list[i] /\ r.id = next_rule_id + i
    BY <2>4, <2>7 DEF Ids
  <2>9. /\ next_rule_id =< next_rule_id'
        /\ \A r \in Issued' : r.id =< next_rule_id' /\ (r \in Issued \/ next_rule_id < r.id)
    BY <1>0, <2>3, <2>4, <2>8 DEF Ids, Rule
  <2>10. \A r, s \in Issued' : r.id = s.id => r = s
    <3> TAKE r, s \in Issued'
    <3>1. r.id \in Nat /\ s.id \in Nat
      BY <2>8 DEF Rule
    <3>2. \A x \in Issued : x.id =< next_rule_id
      BY DEF Ids
    <3>3. CASE r \in Issued /\ s \in Issued
      BY <3>3 DEF Ids, IdsAreNeverReused
    <3>4. CASE r \in Issued /\ s \notin Issued
      BY <1>0, <2>8, <3>1, <3>2, <3>4
    <3>5. CASE r \notin Issued /\ s \in Issued
      BY <1>0, <2>8, <3>1, <3>2, <3>5
    <3>6. CASE r \notin Issued /\ s \notin Issued
      BY <1>0, <2>8, <3>1, <3>6
    <3> QED  BY <3>3, <3>4, <3>5, <3>6
  <2>11. Ids'
    <3>1. \A r \in Issued' : r \in Rule /\ r.id =< next_rule_id'
      BY <2>8, <2>9
    <3>2. IdsAreNeverReused'
      BY <2>10 DEF IdsAreNeverReused
    <3> QED  BY <3>1, <3>2 DEF Ids
  <2> QED  BY <1>2, <2>9, <2>11
<1>5. Edit \/ UNCHANGED <<log, next_rule_id>>
  BY DEF Next, TakeSnapshot, Install, Tick, Query, Malformed, Arrive, CheckLimit,
         Charge, QuotaFails, Send, Answer, vars
<1> QED  BY <1>3, <1>4, <1>5

\* Two rules with one id are the same rule.
THEOREM IdTheorem == Spec => []IdsAreNeverReused
<1>1. Init => Versions /\ Ids
  <2> SUFFICES ASSUME Init PROVE Versions /\ Ids
    OBVIOUS
  <2>1. Issued = {}
    BY DEF Init, Issued, RulesIn, ToSet, RulesOf, Nobody
  <2> QED  BY <2>1 DEF Init, Versions, CacheIsOneVersion, snapshot, Nobody, Ids,
                       IdsAreNeverReused
<1>2. TypeIInv /\ TypeIInv' /\ Versions /\ Ids /\ [Next]_vars => Versions' /\ Ids'
  BY VersionsKept, IdsKept
<1>3. Ids => IdsAreNeverReused
  BY DEF Ids
<1> QED  BY <1>1, <1>2, <1>3, TypeInductive, PTL DEF Spec

-----------------------------------------------------------------------------
(* Lists.  What a version adds is one request's whole list, or a list      *)
(* another version had.                                                    *)

\* A list that one request stored.
OfOneRequest(rules) ==
    rules # << >> => \E new \in NewRuleLists : rules = StoredList(new, rules[1].id - 1)

\* The ids of a stored list say where it was numbered from.
LEMMA StoredIsOfOneRequest ==
    ASSUME NEW new \in Bodies, NEW next \in Nat
    PROVE  OfOneRequest(StoredList(new, next))
<1> DEFINE list == StoredList(new, next)
<1>1. /\ new \in Seq(NewRule) /\ Len(new) \in Nat
      /\ list \in Seq(Rule) /\ Len(list) = Len(new)
      /\ \A i \in 1..Len(new) : list[i].id = next + i
  <2>1. new \in Seq(NewRule)
    BY BodiesType
  <2> QED  BY <2>1, StoredListType
<1>2. ASSUME list # << >>
      PROVE  new \in NewRuleLists /\ list[1].id - 1 = next
  <2> HIDE DEF list
  <2>1. 1 \in 1..Len(new)
    BY <1>1, <1>2
  <2>2. new # << >>
    BY <2>1
  <2> QED  BY <1>1, <2>1, <2>2 DEF Bodies
<1> QED  BY <1>2 DEF OfOneRequest

\* No step makes a version in which two requests' lists are mixed.
LEMMA WholeKept ==
    ASSUME TypeIInv, TypeIInv', Versions, ReplacedWhole, [Next]_vars
    PROVE  ReplacedWhole'
<1>0. /\ StoreTypes /\ StoreTypes' /\ JustCreated
      /\ log \in Seq(Policies) /\ log' \in Seq(Policies)
      /\ next_rule_id \in Nat
      /\ Len(log) \in Nat /\ Len(log') \in Nat /\ 1 =< Len(log) /\ Len(log) =< Len(log')
      /\ \A v \in 1..Len(log) : log'[v] = log[v]
  BY LogGrows DEF TypeIInv, TypeOK, StoreTypes, CacheTypes
<1>1. \A v \in 1..Len(log), a \in Accounts : OfOneRequest(RulesOf(log[v][a]))
  BY <1>0 DEF ReplacedWhole, OfOneRequest
<1>2. SUFFICES ASSUME NEW v \in 1..Len(log'), NEW a \in Accounts
               PROVE  OfOneRequest(RulesOf(log'[v][a]))
  BY <1>0 DEF ReplacedWhole, OfOneRequest
<1>3. CASE v \in 1..Len(log)
  BY <1>0, <1>1, <1>3
<1>4. CASE v \notin 1..Len(log)
  <2>1. Edit
    BY <1>4 DEF Next, TakeSnapshot, Install, Tick, Query, Malformed, Arrive, CheckLimit,
                Charge, QuotaFails, Send, Answer, vars
  <2>2. log'[v] = snapshot(accounts')
    <3>1. log' = log \/ log' = Append(log, snapshot(accounts'))
      BY <2>1, EditStores DEF Store
    <3>2. snapshot(accounts') \in Policies
      BY <1>0, SnapshotType DEF StoreTypes
    <3> QED  BY <1>0, <1>4, <3>1, <3>2
  <2>3. PICK new \in Bodies :
           LET before == RulesOf(snapshot(accounts)[a])
               after  == RulesOf(snapshot(accounts')[a])
           IN  after = before \/ after = StoredList(new, next_rule_id) \/ after = << >>
    BY <1>0, <2>1, EditRules
  <2>4. OfOneRequest(RulesOf(snapshot(accounts)[a]))
    BY <1>0, <1>1 DEF Versions
  <2>5. OfOneRequest(<< >>)
    BY DEF OfOneRequest
  <2>6. OfOneRequest(StoredList(new, next_rule_id))
    BY <1>0, StoredIsOfOneRequest
  <2> QED  BY <2>2, <2>3, <2>4, <2>5, <2>6
<1> QED  BY <1>3, <1>4

\* However requests overlap between their two critical sections, the rules of
\* an account are in every version those of one request, all of them and under
\* consecutive ids, or none (inmem.rs:146-167).
THEOREM WholeTheorem == Spec => []ReplacedWhole
<1>1. Init => Versions /\ ReplacedWhole
  <2> SUFFICES ASSUME Init PROVE Versions /\ ReplacedWhole
    OBVIOUS
  <2>1. Versions
    BY DEF Init, Versions, CacheIsOneVersion, snapshot, Nobody
  <2>2. \A v \in DOMAIN log, a \in Accounts : RulesOf(log[v][a]) = << >>
    BY DEF Init, Nobody, RulesOf
  <2> QED  BY <2>1, <2>2 DEF ReplacedWhole
<1>2. TypeIInv /\ TypeIInv' /\ Versions /\ ReplacedWhole /\ [Next]_vars
        => Versions' /\ ReplacedWhole'
  BY VersionsKept, WholeKept
<1> QED  BY <1>1, <1>2, TypeInductive, PTL DEF Spec

-----------------------------------------------------------------------------
(* Counters.                                                               *)

\* The counter a query charges belongs to the rule that decided it, in a
\* window that some instant of the query's life so far falls in.
Slots ==
    /\ \A q \in Queries : asked[q] # None =>
          born[q] \in [version : Nat \ {0}, time : Nat] /\ born[q].time =< clock
    /\ \A q \in Queries : slot[q] # None =>
          /\ pc[q] # "idle" /\ asked[q] # None
          /\ decision[q] \in LimitDecisions
          /\ slot[q][1] = decision[q].rule_id
          /\ \E t \in born[q].time..clock : slot[q][2] = WindowAt(t, decision[q].window)
    /\ \A q \in paid : slot[q] # None

\* A query keeps its slot from record_quota on.
LEMMA SlotsKept ==
    ASSUME TypeIInv, TypeIInv', Queued, Slots, [Next]_vars
    PROVE  Slots'
<1>0. QueryTypes /\ CacheTypes /\ AtQuota /\ \A q \in Queries : Served(q)
  BY DEF TypeIInv, TypeOK, Queued
<1>1. CASE UNCHANGED <<progress, clock>>
  BY <1>1 DEF Slots
<1>2. CASE Tick
  <2>1. clock' = clock + 1 /\ clock \in Nat /\ UNCHANGED progress
    BY <1>0, <1>2, ConstantsAssumption DEF Tick, QueryTypes
  <2>2. ASSUME NEW q \in Queries, slot[q] # None
        PROVE  born[q].time..clock \subseteq born[q].time..clock'
    BY <2>1, <2>2 DEF Slots
  <2> QED  BY <2>1, <2>2 DEF Slots
<1>3. ASSUME NEW q \in Queries, NEW a \in Accounts, NEW name \in Names, Arrive(q, a, name)
      PROVE  Slots'
  <2>1. slot[q] = None /\ q \notin paid
    BY <1>3 DEF Arrive, Slots
  <2>2. /\ born' = [born EXCEPT ![q] = [version |-> cache_at, time |-> clock]]
        /\ \E policy, d : /\ cached' = [cached EXCEPT ![q] = policy]
                          /\ decision' = [decision EXCEPT ![q] = d]
                          /\ pc' = [pc EXCEPT ![q] = AfterDecision(d)]
        /\ asked' = [asked EXCEPT ![q] = <<a, name>>]
        /\ UNCHANGED <<clock, slot, paid>>
    BY <1>3 DEF Arrive
  <2>3. [version |-> cache_at, time |-> clock] \in [version : Nat \ {0}, time : Nat]
          /\ clock =< clock
    BY <1>0 DEF CacheTypes, QueryTypes
  <2>4. \A p \in Queries : p # q => /\ born'[p] = born[p] /\ decision'[p] = decision[p]
                                   /\ pc'[p] = pc[p] /\ asked'[p] = asked[p]
    BY <1>0, <2>2 DEF QueryTypes
  <2>5. born'[q] = [version |-> cache_at, time |-> clock]
    BY <1>0, <2>2 DEF QueryTypes
  <2> QED  BY <2>1, <2>2, <2>3, <2>4, <2>5 DEF Slots
<1>4. ASSUME NEW q \in Queries, CheckLimit(q) PROVE Slots'
  <2>1. decision[q] \in LimitDecisions /\ asked[q] # None
    BY <1>0, <1>4 DEF CheckLimit, AtQuota, Served
  <2>2. clock \in born[q].time..clock
    BY <1>0, <2>1 DEF Slots, QueryTypes
  <2>3. /\ UNCHANGED <<clock, decision, paid, asked, born>>
        /\ \/ slot' = slot /\ pc' = [pc EXCEPT ![q] = "done"]
           \/ /\ slot' = [slot EXCEPT ![q] =
                             Counter(decision[q], clock)]
              /\ pc' = [pc EXCEPT ![q] = "charge"]
    BY <1>4 DEF CheckLimit
  <2>4. CASE slot' = slot
    BY <1>0, <2>3, <2>4 DEF Slots, QueryTypes
  <2>5. CASE slot' = [slot EXCEPT ![q] =
                        Counter(decision[q], clock)]
    <3>1. \A p \in Queries : p # q => slot'[p] = slot[p] /\ (pc[p] # "idle" => pc'[p] # "idle")
      BY <1>0, <2>3, <2>5 DEF QueryTypes
    <3>2. /\ slot'[q] = Counter(decision[q], clock)
          /\ pc'[q] # "idle"
      BY <1>0, <2>3, <2>5 DEF QueryTypes
    <3>3. slot'[q] # None
      BY <2>1, <3>2, WindowStartType, NoneIsDistinct
      DEF Counter, LimitDecisions, QueryTypes, TypeIInv, TypeOK
    <3>4. \E t \in born[q].time..clock : slot'[q][2] = WindowAt(t, decision[q].window)
      BY <2>2, <3>2 DEF Counter
    <3>5. /\ pc'[q] # "idle" /\ asked'[q] # None /\ decision'[q] \in LimitDecisions
          /\ slot'[q][1] = decision'[q].rule_id
          /\ \E t \in born'[q].time..clock' :
                slot'[q][2] = WindowAt(t, decision'[q].window)
      BY <2>1, <2>3, <3>2, <3>4 DEF Counter
    <3>6. \A p \in Queries : slot'[p] # None =>
          /\ pc'[p] # "idle" /\ asked'[p] # None
          /\ decision'[p] \in LimitDecisions
          /\ slot'[p][1] = decision'[p].rule_id
          /\ \E t \in born'[p].time..clock' :
                slot'[p][2] = WindowAt(t, decision'[p].window)
      <4> TAKE p \in Queries
      <4>1. CASE p = q
        BY <3>5, <4>1
      <4>2. CASE p # q
        BY <2>3, <3>1, <4>2 DEF Slots
      <4> QED  BY <4>1, <4>2
    <3>7. \A p \in paid' : slot'[p] # None
      BY <1>0, <2>3, <3>1, <3>3 DEF Slots, QueryTypes
    <3>8. \A p \in Queries : asked'[p] # None =>
             born'[p] \in [version : Nat \ {0}, time : Nat] /\ born'[p].time =< clock'
      BY <2>3 DEF Slots
    <3> QED  BY <3>6, <3>7, <3>8 DEF Slots
  <2> QED  BY <2>3, <2>4, <2>5
<1>5. ASSUME NEW q \in Queries, Charge(q) PROVE Slots'
  <2>1. slot[q] # None
    BY <1>0, <1>5, NoneIsDistinct DEF Charge, AtQuota
  <2> QED  BY <1>0, <1>5, <2>1 DEF Charge, Slots, QueryTypes
<1>6. ASSUME NEW q \in Queries, Malformed(q) \/ QuotaFails(q) \/ Send(q) \/ Answer(q)
      PROVE  Slots'
  <2>1. /\ UNCHANGED <<clock, decision, slot, paid, asked, born>>
        /\ \A p \in Queries : pc[p] # "idle" => pc'[p] # "idle"
    BY <1>0, <1>6 DEF Malformed, QuotaFails, Send, Answer, QueryTypes
  <2> QED  BY <2>1 DEF Slots
<1>7. Edit \/ TakeSnapshot \/ Install \/ UNCHANGED vars => UNCHANGED <<progress, clock>>
  BY DEF Edit, CreateAccount, BeginReplace, FinishReplaceRules, FinishReplaceUpstreams,
         TakeSnapshot, Install, vars
<1> QED  BY <1>1, <1>2, <1>3, <1>4, <1>5, <1>6, <1>7 DEF Next, Query

\* The rule behind a limit decision is one that some version held.
LEMMA RuleOfDecision ==
    ASSUME TypeIInv, Queued, NEW q \in Queries, decision[q] \in LimitDecisions
    PROVE  \E r \in Issued : r.action = "limit" /\ decision[q] = DecisionOf(r)
<1> DEFINE policy == log[born[q].version][asked[q][1]]
<1>1. /\ asked[q] \in Accounts \X Names /\ born[q].version \in 1..Len(log)
      /\ cached[q] = policy /\ decision[q] = Decide(policy, asked[q][2])
  BY DEF TypeIInv, TypeOK, QueryTypes, Queued, Served, LimitDecisions, NoMatch, Lookup
<1>2. policy \in Policy \cup {None} /\ log \in Seq(Policies)
  BY <1>1 DEF TypeIInv, TypeOK, StoreTypes, Policies
<1> HIDE DEF policy
<1>3. decision[q] # NoMatch
  BY DEF LimitDecisions, NoMatch
<1>4. PICK i \in DOMAIN RulesOf(policy) : decision[q] = DecisionOf(RulesOf(policy)[i])
  BY <1>1, <1>2, <1>3, DecideFromRule
<1>5. RulesOf(policy)[i] \in RulesIn(log[born[q].version])
  <2>1. asked[q][1] \in Accounts
    BY <1>1
  <2> QED  BY <1>4, <2>1, RulesInMembers DEF policy
<1>6. RulesOf(policy)[i] \in Issued
  BY <1>1, <1>2, <1>5, IssuedMembers
<1>7. RulesOf(policy)[i].action = "limit"
  BY <1>4 DEF DecisionOf, LimitDecisions
<1> QED  BY <1>4, <1>6, <1>7

\* Every counter is within the budget of the rule with its id, and belongs to
\* an id that has been given out.
WithinBudget ==
    \A k \in DOMAIN quota :
        /\ k[1] =< next_rule_id
        /\ \A r \in Issued : r.id = k[1] => quota[k] =< UnwrapOr(r.limit_count, 0)

\* Charging keeps every counter exact and within its budget: the test and the
\* increment are one critical section.
LEMMA ChargeKeepsCounters ==
    ASSUME TypeIInv, Queued, Ids, Slots, QuotaAccounting, WithinBudget,
           NEW q \in Queries, Charge(q)
    PROVE  QuotaAccounting' /\ WithinBudget'
<1> DEFINE key == slot[q]
           n   == Count(quota, key)
<1>0. /\ pc[q] = "charge" /\ decision[q] \in LimitDecisions /\ key \in Nat \X Int
      /\ q \notin paid /\ paid \subseteq Queries /\ key # None
      /\ \A k \in DOMAIN quota : k \in Nat \X Int /\ quota[k] \in Nat
      /\ UNCHANGED <<log, next_rule_id, slot>>
  BY NoneIsDistinct DEF Charge, TypeIInv, TypeOK, QueryTypes, AtQuota, Queued, Progress
<1>1. n \in Nat
  BY <1>0 DEF Count
<1>2. CASE UNCHANGED <<quota, paid>>
  BY <1>0, <1>2 DEF QuotaAccounting, PaidOn, WithinBudget, Issued, RulesIn
<1>3. CASE /\ ~Exhausted(n, decision[q].limit_count)
           /\ quota' = Bump(quota, key) /\ paid' = paid \cup {q}
  <2>1. /\ DOMAIN quota' = DOMAIN quota \cup {key}
        /\ quota'[key] = n + 1
        /\ \A k \in DOMAIN quota : k # key => quota'[k] = quota[k]
    BY <1>3 DEF Bump
  <2>2. \A k : IsFiniteSet(PaidOn(k))
    BY <1>0, ConstantsAssumption, FS_Subset DEF PaidOn
  <2>3. n = Cardinality(PaidOn(key))
    <3>1. CASE key \in DOMAIN quota
      BY <3>1 DEF Count, QuotaAccounting
    <3>2. CASE key \notin DOMAIN quota
      <4>1. PaidOn(key) = {}
        BY <3>2 DEF QuotaAccounting, PaidOn
      <4> QED  BY <3>2, <4>1, FS_EmptySet DEF Count
    <3> QED  BY <3>1, <3>2
  <2> HIDE DEF key, n
  <2>4. PaidOn(key)' = PaidOn(key) \cup {q} /\ q \notin PaidOn(key)
    BY <1>0, <1>3 DEF PaidOn, key
  <2>5. Cardinality(PaidOn(key)') = n + 1
    BY <2>2, <2>3, <2>4, FS_AddElement
  <2>6. \A k \in DOMAIN quota : k # key => PaidOn(k)' = PaidOn(k)
    BY <1>0, <1>3 DEF PaidOn, key
  <2>7. \A k \in DOMAIN quota' : quota'[k] = Cardinality(PaidOn(k)')
    <3> TAKE k \in DOMAIN quota'
    <3>1. CASE k = key
      <4>1. PaidOn(k)' = PaidOn(key)'
        BY <1>0, <3>1 DEF PaidOn, key
      <4> QED  BY <2>1, <2>5, <3>1, <4>1
    <3>2. CASE k # key
      BY <2>1, <2>6, <3>2 DEF QuotaAccounting
    <3> QED  BY <3>1, <3>2
  <2>8. \A p \in paid' : slot'[p] \in DOMAIN quota'
    BY <1>0, <1>3, <2>1 DEF QuotaAccounting, key
  <2>9. QuotaAccounting'
    BY <2>7, <2>8 DEF QuotaAccounting, PaidOn
  <2>10. PICK r \in Issued : r.action = "limit" /\ decision[q] = DecisionOf(r)
    BY <1>0, RuleOfDecision
  <2>11. r.id = key[1] /\ decision[q].limit_count = UnwrapOr(r.limit_count, 0)
    BY <1>0, <2>10 DEF Slots, DecisionOf, key
  <2>12. decision[q].limit_count \in Int
    BY <1>0 DEF LimitDecisions
  <2>13. n + 1 =< UnwrapOr(r.limit_count, 0)
    BY <1>1, <1>3, <2>11, <2>12 DEF Exhausted
  <2>14. key[1] =< next_rule_id /\ \A s \in Issued : s.id = key[1] => s = r
    BY <2>10, <2>11 DEF Ids, IdsAreNeverReused
  <2>15. Issued' = Issued
    BY <1>0 DEF Issued, RulesIn
  <2>16. ASSUME NEW k \in DOMAIN quota'
         PROVE  /\ k[1] =< next_rule_id'
                /\ \A s \in Issued' : s.id = k[1] => quota'[k] =< UnwrapOr(s.limit_count, 0)
    <3>1. CASE k = key
      BY <1>0, <2>1, <2>13, <2>14, <2>15, <3>1
    <3>2. CASE k # key
      BY <1>0, <2>1, <2>15, <3>2 DEF WithinBudget
    <3> QED  BY <3>1, <3>2
  <2> QED  BY <2>9, <2>16 DEF WithinBudget
<1> QED  BY <1>2, <1>3 DEF Charge

\* Steps other than Charge leave the counters exact.  An edit issues rules
\* under ids no counter has, so it cannot put a counter over a budget.
LEMMA CountersKept ==
    ASSUME TypeIInv, TypeIInv', Versions, Queued, Ids, Slots, QuotaAccounting, WithinBudget,
           [Next]_vars
    PROVE  QuotaAccounting' /\ WithinBudget'
<1>1. CASE \E q \in Queries : Charge(q)
  BY <1>1, ChargeKeepsCounters
<1>2. CASE UNCHANGED <<quota, paid>> /\ \A q \in paid : slot'[q] = slot[q]
  <2>1. \A k : PaidOn(k)' = PaidOn(k)
    BY <1>2 DEF PaidOn
  <2>2. QuotaAccounting'
    BY <1>2, <2>1 DEF QuotaAccounting
  <2>3. /\ next_rule_id \in Nat /\ next_rule_id' \in Nat /\ next_rule_id =< next_rule_id'
        /\ \A r \in Issued' : r \in Rule /\ (r \in Issued \/ next_rule_id < r.id)
        /\ \A k \in DOMAIN quota : k[1] \in Nat
    BY IdsKept DEF TypeIInv, TypeOK, StoreTypes, QueryTypes, Ids
  <2>4. WithinBudget'
    <3> SUFFICES ASSUME NEW k \in DOMAIN quota'
                 PROVE  /\ k[1] =< next_rule_id'
                        /\ \A r \in Issued' :
                              r.id = k[1] => quota'[k] =< UnwrapOr(r.limit_count, 0)
      BY DEF WithinBudget
    <3>1. k \in DOMAIN quota /\ quota'[k] = quota[k] /\ k[1] =< next_rule_id
      BY <1>2 DEF WithinBudget
    <3>2. ASSUME NEW r \in Issued', r.id = k[1]
          PROVE  quota'[k] =< UnwrapOr(r.limit_count, 0)
      <4>1. r \in Issued
        BY <2>3, <3>1, <3>2 DEF Rule
      <4> QED  BY <3>1, <3>2, <4>1 DEF WithinBudget
    <3> QED  BY <2>3, <3>1, <3>2
  <2> QED  BY <2>2, <2>4
<1>3. ASSUME NEW q \in Queries, CheckLimit(q)
      PROVE  UNCHANGED <<quota, paid>> /\ \A p \in paid : slot'[p] = slot[p]
  <2>1. q \notin paid /\ paid \subseteq Queries /\ slot \in [Queries -> (Nat \X Int) \cup {None}]
    BY <1>3 DEF CheckLimit, Queued, Progress, TypeIInv, TypeOK, QueryTypes
  <2> QED  BY <1>3, <2>1 DEF CheckLimit
<1>4. \/ \E q \in Queries : Charge(q) \/ CheckLimit(q)
      \/ UNCHANGED <<quota, paid, slot>>
  <2>1. CASE Edit
    BY <2>1 DEF Edit, CreateAccount, BeginReplace, FinishReplaceRules, FinishReplaceUpstreams
  <2>2. CASE TakeSnapshot \/ Install \/ Tick
    BY <2>2 DEF TakeSnapshot, Install, Tick
  <2>3. ASSUME NEW q \in Queries, Query(q)
        PROVE  Charge(q) \/ CheckLimit(q) \/ UNCHANGED <<quota, paid, slot>>
    BY <2>3 DEF Query, Malformed, Arrive, QuotaFails, Send, Answer
  <2>4. CASE UNCHANGED vars
    BY <2>4 DEF vars
  <2> QED  BY <2>1, <2>2, <2>3, <2>4 DEF Next
<1> QED  BY <1>1, <1>2, <1>3, <1>4

\* The inductive invariant of the query path.
IInv ==
    /\ TypeIInv /\ Versions /\ Queued
    /\ Ids /\ Slots /\ QuotaAccounting /\ WithinBudget

LEMMA Inductive == Spec => []IInv
<1>1. Init => IInv
  <2> SUFFICES ASSUME Init PROVE IInv
    OBVIOUS
  <2>1. TypeIInv
    BY InitialTypes
  <2>2. Versions /\ Queued
    BY DEF Init, Versions, CacheIsOneVersion, snapshot, Nobody, Queued, Served, Progress
  <2>3. Issued = {}
    BY DEF Init, Issued, RulesIn, ToSet, RulesOf, Nobody
  <2>4. Ids /\ Slots
    BY <2>3 DEF Init, Ids, IdsAreNeverReused, Slots
  <2>5. DOMAIN quota = {} /\ paid = {}
    BY DEF Init
  <2>6. QuotaAccounting /\ WithinBudget
    BY <2>5 DEF QuotaAccounting, WithinBudget
  <2> QED  BY <2>1, <2>2, <2>4, <2>6 DEF IInv
<1>2. TypeIInv /\ TypeIInv' /\ IInv /\ [Next]_vars => IInv'
  BY VersionsKept, QueuedKept, IdsKept, SlotsKept, CountersKept DEF IInv
<1> QED  BY <1>1, <1>2, TypeInductive, PTL DEF Spec

\* A counter is exactly the number of queries charged on it.
THEOREM AccountingTheorem == Spec => []QuotaAccounting
<1>1. IInv => QuotaAccounting
  BY DEF IInv
<1> QED  BY <1>1, Inductive, PTL

\* A query is charged in the window of some instant of its life.
THEOREM LifetimeTheorem == Spec => []ChargedInLifetime
<1>1. IInv => ChargedInLifetime
  BY DEF IInv, Slots, ChargedInLifetime, TypeIInv, TypeOK, QueryTypes
<1> QED  BY <1>1, Inductive, PTL

\* A limit rule forwards at most limit_count queries per window, for any
\* number of queries, accounts, edits and clock ticks.
THEOREM BudgetTheorem == Spec => []BudgetHolds
<1>1. IInv => BudgetHolds
  <2> SUFFICES ASSUME IInv, NEW r \in Issued, r.action = "limit", NEW t \in 0..clock
               PROVE  LET k == <<r.id, WindowAt(t, UnwrapOr(r.limit_window, "month"))>>
                          n == UnwrapOr(r.limit_count, 0)
                      IN  Cardinality(ForwardedOn(k)) <= IF n > 0 THEN n ELSE 0
    BY DEF BudgetHolds
  <2> DEFINE k == <<r.id, WindowAt(t, UnwrapOr(r.limit_window, "month"))>>
             n == UnwrapOr(r.limit_count, 0)
  <2>1. n \in Int /\ r.id \in Nat
    BY DEF IInv, Ids, Rule, UnwrapOr
  <2>2. k # None
    <3>1. UnwrapOr(r.limit_window, "month") \in Windows
      BY DEF IInv, Ids, Rule, UnwrapOr, Windows
    <3>2. t \in 0..MaxClock
      BY ConstantsAssumption DEF IInv, TypeIInv, TypeOK, QueryTypes
    <3>3. WindowAt(t, UnwrapOr(r.limit_window, "month")) \in Int
      BY <3>1, <3>2, WindowStartType
    <3> QED  BY <2>1, <3>3, NoneIsDistinct
  <2> HIDE DEF k, n
  <2>3. ForwardedOn(k) \subseteq PaidOn(k)
    BY <2>2 DEF IInv, Queued, Progress, Slots, ForwardedOn, PaidOn, LimitDecisions
  <2>4. IsFiniteSet(PaidOn(k))
    BY ConstantsAssumption, FS_Subset DEF PaidOn, IInv, TypeIInv, TypeOK, QueryTypes
  <2>5. /\ Cardinality(ForwardedOn(k)) \in Nat
        /\ Cardinality(ForwardedOn(k)) =< Cardinality(PaidOn(k))
    BY <2>3, <2>4, FS_Subset, FS_CardinalityType
  <2>6. Cardinality(PaidOn(k)) \in Nat
    BY <2>4, FS_CardinalityType
  <2>7. CASE k \in DOMAIN quota
    <3>1. quota[k] = Cardinality(PaidOn(k)) /\ quota[k] =< n
      BY <2>7 DEF IInv, QuotaAccounting, WithinBudget, k, n
    <3> QED  BY <2>1, <2>5, <2>6, <3>1 DEF n, k
  <2>8. CASE k \notin DOMAIN quota
    <3>1. PaidOn(k) = {}
      BY <2>8 DEF IInv, QuotaAccounting, PaidOn
    <3>2. Cardinality(PaidOn(k)) = 0
      BY <3>1, FS_EmptySet
    <3> QED  BY <2>1, <2>5, <3>2 DEF n, k
  <2> QED  BY <2>7, <2>8
<1> QED  BY <1>1, Inductive, PTL

\* A query that was turned away had come to a counter that was full, and charges
\* are never taken back.
Spent ==
    \A q \in Queries : outcome[q] = "limit_exceeded" /\ decision[q].limit_count > 0 =>
        slot[q] # None /\ Cardinality(PaidOn(slot[q])) >= decision[q].limit_count

\* The charges on a counter only grow.
LEMMA ChargesStay ==
    ASSUME IInv, [Next]_vars, NEW k
    PROVE  /\ Cardinality(PaidOn(k)) \in Nat
           /\ Cardinality({p \in paid' : slot'[p] = k}) \in Nat
           /\ Cardinality(PaidOn(k)) =< Cardinality({p \in paid' : slot'[p] = k})
<1>1. paid \subseteq Queries /\ slot \in [Queries -> (Nat \X Int) \cup {None}]
  BY DEF IInv, TypeIInv, TypeOK, QueryTypes
<1>2. paid \subseteq paid' /\ paid' \subseteq Queries /\ \A p \in paid : slot'[p] = slot[p]
  <2>1. ASSUME NEW q \in Queries, CheckLimit(q)
        PROVE  UNCHANGED paid /\ \A p \in paid : slot'[p] = slot[p]
    <3>1. q \notin paid
      BY <2>1 DEF CheckLimit, IInv, Queued, Progress
    <3> QED  BY <1>1, <2>1, <3>1 DEF CheckLimit
  <2>2. ASSUME NEW q \in Queries, Charge(q)
        PROVE  paid \subseteq paid' /\ paid' \subseteq paid \cup {q} /\ UNCHANGED slot
    BY <2>2 DEF Charge
  <2>3. CASE \E q \in Queries : Query(q)
    BY <1>1, <2>1, <2>2, <2>3 DEF Query, Malformed, Arrive, QuotaFails, Send, Answer
  <2>4. Edit \/ TakeSnapshot \/ Install \/ Tick \/ UNCHANGED vars => UNCHANGED <<paid, slot>>
    BY DEF Edit, CreateAccount, BeginReplace, FinishReplaceRules, FinishReplaceUpstreams,
           TakeSnapshot, Install, Tick, vars
  <2> QED  BY <1>1, <2>3, <2>4 DEF Next
<1>3. /\ PaidOn(k) \subseteq {p \in paid' : slot'[p] = k}
      /\ IsFiniteSet({p \in paid' : slot'[p] = k})
  BY <1>2, ConstantsAssumption, FS_Subset DEF PaidOn
<1> QED  BY <1>3, FS_Subset, FS_CardinalityType

LEMMA SpentKept ==
    ASSUME IInv, Spent, [Next]_vars
    PROVE  Spent'
<1>0. /\ QueryTypes /\ QuotaAccounting /\ AtQuota
      /\ \A p \in Queries : pc[p] # "done" => outcome[p] = None
      /\ None # "limit_exceeded"
  BY NoneIsDistinct DEF IInv, TypeIInv, TypeOK, Queued, Progress, Outcomes
<1> SUFFICES ASSUME NEW q \in Queries,
                    outcome'[q] = "limit_exceeded", decision'[q].limit_count > 0
             PROVE  /\ slot'[q] # None
                    /\ Cardinality({p \in paid' : slot'[p] = slot'[q]}) >= decision'[q].limit_count
  BY DEF Spent, PaidOn
<1>1. SUFFICES /\ decision[q] \in LimitDecisions /\ UNCHANGED <<decision[q], slot[q]>>
               /\ slot[q] # None /\ Cardinality(PaidOn(slot[q])) >= decision[q].limit_count
  BY ChargesStay DEF LimitDecisions
<1>2. CASE outcome[q] = "limit_exceeded"
  <2>1. pc[q] = "done"
    BY <1>0, <1>2
  <2>2. UNCHANGED <<decision[q], slot[q]>>
    <3>1. ASSUME NEW p \in Queries, Query(p) PROVE UNCHANGED <<decision[q], slot[q]>>
      BY <1>0, <2>1, <3>1
      DEF Query, Malformed, Arrive, CheckLimit, Charge, QuotaFails, Send, Answer, QueryTypes
    <3>2. Edit \/ TakeSnapshot \/ Install \/ Tick \/ UNCHANGED vars => UNCHANGED <<decision, slot>>
      BY DEF Edit, CreateAccount, BeginReplace, FinishReplaceRules, FinishReplaceUpstreams,
             TakeSnapshot, Install, Tick, vars
    <3> QED  BY <3>1, <3>2 DEF Next
  <2>3. slot[q] # None /\ Cardinality(PaidOn(slot[q])) >= decision[q].limit_count
    BY <1>2, <2>2 DEF Spent
  <2> QED  BY <2>2, <2>3 DEF IInv, Slots
<1>3. CASE outcome[q] # "limit_exceeded"
  <2>1. CheckLimit(q) \/ Charge(q)
    <3>1. ASSUME NEW p \in Queries, Query(p), ~(CheckLimit(q) \/ Charge(q)) PROVE FALSE
      BY <1>0, <1>3, <3>1
      DEF Query, Malformed, Arrive, CheckLimit, Charge, QuotaFails, Send, Answer, QueryTypes
    <3>2. Edit \/ TakeSnapshot \/ Install \/ Tick \/ UNCHANGED vars => UNCHANGED outcome
      BY DEF Edit, CreateAccount, BeginReplace, FinishReplaceRules, FinishReplaceUpstreams,
             TakeSnapshot, Install, Tick, vars
    <3> QED  BY <1>3, <3>1, <3>2 DEF Next
  <2>2. ~CheckLimit(q)
    <3>1. ASSUME CheckLimit(q) PROVE FALSE
      <4>1. decision[q].limit_count \in Int /\ UNCHANGED decision
        BY <1>0, <3>1 DEF CheckLimit, AtQuota, LimitDecisions
      <4> QED  BY <1>3, <3>1, <4>1 DEF CheckLimit
    <3> QED  BY <3>1
  <2>3. Charge(q) /\ Exhausted(Count(quota, slot[q]), decision[q].limit_count)
    BY <1>3, <2>1, <2>2 DEF Charge
  <2>4. /\ decision[q] \in LimitDecisions /\ slot[q] \in Nat \X Int /\ slot[q] # None
        /\ UNCHANGED <<decision, slot>>
    BY <1>0, <2>3, NoneIsDistinct DEF Charge, AtQuota
  <2>5. Count(quota, slot[q]) = Cardinality(PaidOn(slot[q]))
    <3>1. CASE slot[q] \in DOMAIN quota
      BY <1>0, <3>1 DEF Count, QuotaAccounting
    <3>2. CASE slot[q] \notin DOMAIN quota
      <4>1. PaidOn(slot[q]) = {}
        BY <1>0, <3>2 DEF QuotaAccounting, PaidOn
      <4> QED  BY <3>2, <4>1, FS_EmptySet DEF Count
    <3> QED  BY <3>1, <3>2
  <2> QED  BY <2>3, <2>4, <2>5 DEF Exhausted
<1> QED  BY <1>2, <1>3

\* Nobody is refused while the window has budget left, whatever else fails, is
\* refused or is charged meanwhile (inmem.rs:107-117).
THEOREM RefusedTheorem == Spec => []RefusedWhenSpent
<1>1. Init => Spent
  BY NoneIsDistinct DEF Init, Spent, Outcomes
<1>2. IInv /\ Spent /\ [Next]_vars => Spent'
  BY SpentKept
<1>3. IInv /\ Spent => RefusedWhenSpent
  <2> SUFFICES ASSUME IInv, Spent, NEW q \in Queries,
                      outcome[q] = "limit_exceeded", decision[q].limit_count > 0
               PROVE  \E t \in born[q].time..clock :
                          Cardinality(PaidOn(<<decision[q].rule_id,
                                               WindowAt(t, decision[q].window)>>))
                              >= decision[q].limit_count
    BY DEF RefusedWhenSpent
  <2>1. /\ slot[q] \in Nat \X Int /\ slot[q][1] = decision[q].rule_id
        /\ Cardinality(PaidOn(slot[q])) >= decision[q].limit_count
    BY DEF Spent, IInv, Slots, TypeIInv, TypeOK, QueryTypes
  <2>2. PICK t \in born[q].time..clock : slot[q][2] = WindowAt(t, decision[q].window)
    BY DEF Spent, IInv, Slots
  <2>3. slot[q] = <<decision[q].rule_id, WindowAt(t, decision[q].window)>>
    BY <2>1, <2>2
  <2> QED  BY <2>1, <2>3
<1> QED  BY <1>1, <1>2, <1>3, Inductive, PTL DEF Spec

-----------------------------------------------------------------------------
(* QueryPath implements PolicyService: every step of the store, of the     *)
(* cache and of a query is a step of the abstract service or none.         *)

-----------------------------------------------------------------------------
(* Edits.  Each critical section of the store changes one account.         *)

\* What is in the accounts is not None.
LEMMA RecordsAreSome ==
    ASSUME NEW accts \in Records, NEW a \in Accounts, accts[a] # None
    PROVE  /\ accts[a] \in AccountRecord
           /\ snapshot(accts)[a] # None
           /\ snapshot(accts)[a] = [rules |-> accts[a].rules, upstream |-> First(accts[a].upstreams)]
<1>1. accts[a] \in AccountRecord
  BY DEF Records
<1>2. snapshot(accts)[a] \in Policy
  BY <1>1 DEF AccountRecord, Policy, First, snapshot
<1>3. snapshot(accts)[a] # None
  BY <1>2, NoneIsDistinct
<1> QED  BY <1>1, <1>3 DEF snapshot

\* get_or_create makes the policy of one account, or changes nothing.
LEMMA CreationIsAnEdit ==
    ASSUME NEW accts \in Records, NEW a \in Accounts
    PROVE  \/ snapshot(get_or_create(accts, a)) = snapshot(accts)
           \/ Service!Edited(snapshot(accts), snapshot(get_or_create(accts, a)), a)
<1> DEFINE new == get_or_create(accts, a)
<1>1. CASE accts[a] # None
  BY <1>1 DEF get_or_create
<1>2. CASE accts[a] = None
  <2>1. new \in Records /\ new[a] = NewRecord /\ \A b \in Accounts \ {a} : new[b] = accts[b]
    BY <1>2, GetOrCreateType DEF get_or_create, Records
  <2> HIDE DEF new
  <2>2. \A b \in Accounts \ {a} : snapshot(new)[b] = snapshot(accts)[b]
    BY <2>1 DEF snapshot
  <2>3. snapshot(new)[a] = [rules |-> << >>, upstream |-> None]
    BY <2>1, NewRecordType DEF NewRecord, First, snapshot
  <2>4. snapshot(accts)[a] = None /\ DOMAIN snapshot(new) = Accounts
    BY <1>2 DEF snapshot
  <2> QED  BY <2>2, <2>3, <2>4 DEF Service!Edited, Service!NewPolicy, new
<1> QED  BY <1>1, <1>2

\* Replacing the rules or the upstreams of an account that exists is an edit.
LEMMA ReplacementIsAnEdit ==
    ASSUME NEW accts \in Records, NEW new \in Records, NEW a \in Accounts,
           accts[a] # None, new[a] # None,
           \A b \in Accounts \ {a} : new[b] = accts[b],
           new[a].rules = accts[a].rules \/ new[a].upstreams = accts[a].upstreams
    PROVE  Service!Edited(snapshot(accts), snapshot(new), a)
<1>1. \A b \in Accounts \ {a} : snapshot(new)[b] = snapshot(accts)[b]
  BY DEF snapshot
<1>2. DOMAIN snapshot(new) = Accounts
  BY DEF snapshot
<1>3. /\ snapshot(accts)[a] # None /\ snapshot(new)[a] # None
      /\ \/ snapshot(new)[a].rules = snapshot(accts)[a].rules
         \/ snapshot(new)[a].upstream = snapshot(accts)[a].upstream
  <2>1. /\ snapshot(accts)[a] # None
        /\ snapshot(accts)[a] = [rules |-> accts[a].rules, upstream |-> First(accts[a].upstreams)]
    BY RecordsAreSome
  <2>2. /\ snapshot(new)[a] # None
        /\ snapshot(new)[a] = [rules |-> new[a].rules, upstream |-> First(new[a].upstreams)]
    BY RecordsAreSome
  <2> QED  BY <2>1, <2>2
<1> QED  BY <1>1, <1>2, <1>3 DEF Service!Edited

\* A management step edits the policy of one account, or leaves all of them.
LEMMA EditIsAnEdit ==
    ASSUME StoreTypes, StoreTypes', JustCreated, Edit
    PROVE  \/ snapshot(accounts') = snapshot(accounts)
           \/ \E a \in Accounts : Service!Edited(snapshot(accounts), snapshot(accounts'), a)
<1>0. accounts \in Records /\ accounts' \in Records
  BY DEF StoreTypes
<1>1. ASSUME NEW a \in Accounts, Store(get_or_create(accounts, a))
      PROVE  \/ snapshot(accounts') = snapshot(accounts)
             \/ Service!Edited(snapshot(accounts), snapshot(accounts'), a)
  BY <1>0, <1>1, CreationIsAnEdit DEF Store
<1>2. ASSUME NEW e \in Editors, FinishReplaceRules(e)
      PROVE  Service!Edited(snapshot(accounts), snapshot(accounts'), edit[e].account)
  <2> DEFINE a == edit[e].account
             out == StoredList(edit[e].new, next_rule_id)
  <2>1. a \in Accounts /\ accounts[a] # None /\ accounts[a] \in AccountRecord
    BY <1>0, <1>2 DEF FinishReplaceRules, StoreTypes, JustCreated, Records
  <2>2. accounts' = [accounts EXCEPT ![a].rules = out]
    BY <1>2 DEF FinishReplaceRules, Store
  <2>3. accounts'[a] = [accounts[a] EXCEPT !.rules = out]
        /\ \A b \in Accounts \ {a} : accounts'[b] = accounts[b]
    BY <1>0, <2>1, <2>2 DEF Records
  <2>4. accounts'[a].upstreams = accounts[a].upstreams /\ accounts'[a] # None
    <3>1. accounts'[a] \in AccountRecord
      <4>1. edit[e].new \in NewRuleLists /\ next_rule_id \in Nat
        BY <1>2 DEF FinishReplaceRules, StoreTypes
      <4>2. out \in Seq(Rule)
        BY <4>1, StoredListType, ConstantsAssumption
      <4> HIDE DEF out
      <4> QED  BY <2>1, <2>3, <4>2 DEF AccountRecord
    <3> HIDE DEF out
    <3> QED  BY <2>1, <2>3, <3>1, NoneIsDistinct DEF AccountRecord
  <2> HIDE DEF a, out
  <2>5. Service!Edited(snapshot(accounts), snapshot(accounts'), a)
    BY <1>0, <2>1, <2>3, <2>4, ReplacementIsAnEdit
  <2> QED  BY <2>5 DEF a
<1>3. ASSUME NEW e \in Editors, FinishReplaceUpstreams(e)
      PROVE  Service!Edited(snapshot(accounts), snapshot(accounts'), edit[e].account)
  <2> DEFINE a == edit[e].account
             out == edit[e].new
  <2>1. a \in Accounts /\ accounts[a] # None /\ accounts[a] \in AccountRecord
    BY <1>0, <1>3 DEF FinishReplaceUpstreams, StoreTypes, JustCreated, Records
  <2>2. accounts' = [accounts EXCEPT ![a].upstreams = out]
    BY <1>3 DEF FinishReplaceUpstreams, Store
  <2>3. accounts'[a] = [accounts[a] EXCEPT !.upstreams = out]
        /\ \A b \in Accounts \ {a} : accounts'[b] = accounts[b]
    BY <1>0, <2>1, <2>2 DEF Records
  <2>4. accounts'[a].rules = accounts[a].rules /\ accounts'[a] # None
    <3>1. out \in Seq(Upstreams)
      BY <1>3, ConstantsAssumption DEF FinishReplaceUpstreams, StoreTypes
    <3> HIDE DEF out
    <3>2. accounts'[a] \in AccountRecord
      BY <2>1, <2>3, <3>1 DEF AccountRecord
    <3> QED  BY <2>1, <2>3, <3>2, NoneIsDistinct DEF AccountRecord
  <2> HIDE DEF a, out
  <2>5. Service!Edited(snapshot(accounts), snapshot(accounts'), a)
    BY <1>0, <2>1, <2>3, <2>4, ReplacementIsAnEdit
  <2> QED  BY <2>5 DEF a
<1>4. \A e \in Editors : FinishReplaceRules(e) \/ FinishReplaceUpstreams(e)
        => edit[e].account \in Accounts
  BY DEF FinishReplaceRules, FinishReplaceUpstreams, StoreTypes
<1> QED  BY <1>1, <1>2, <1>3, <1>4 DEF Edit, CreateAccount, BeginReplace

-----------------------------------------------------------------------------
(* The cache never goes back: the snapshot on its way is no older.         *)

Ordered == snap # None => cache_at =< snap_at

LEMMA OrderedKept ==
    ASSUME TypeIInv, Ordered, [Next]_vars
    PROVE  Ordered'
<1>1. cache_at \in 1..Len(log) /\ Len(log) \in Nat
  BY DEF TypeIInv, TypeOK, CacheTypes, StoreTypes
<1>2. CASE TakeSnapshot
  BY <1>1, <1>2 DEF Ordered, TakeSnapshot
<1>3. CASE Install
  BY <1>3 DEF Ordered, Install
<1>4. CASE UNCHANGED poller
  BY <1>4 DEF Ordered
<1>5. Edit \/ Tick \/ (\E q \in Queries : Query(q)) \/ UNCHANGED vars => UNCHANGED poller
  BY DEF Edit, CreateAccount, BeginReplace, FinishReplaceRules, FinishReplaceUpstreams,
         Tick, Query, Malformed, Arrive, CheckLimit, Charge, QuotaFails, Send, Answer, vars
<1> QED  BY <1>2, <1>3, <1>4, <1>5 DEF Next

-----------------------------------------------------------------------------
(* Steps.                                                                  *)

\* A step that changes nothing of what a query was told is none for clients.
LEMMA AnswersKept ==
    ASSUME UNCHANGED <<asked, born, decision, via>>
    PROVE  UNCHANGED Answers
BY DEF Answers

\* Changing what became of one query.
LEMMA ChangedAt ==
    ASSUME NEW q \in Queries, NEW new, Answers'[q] = new,
           \A r \in Queries \ {q} : Answers'[r] = Answers[r]
    PROVE  Answers' = [Answers EXCEPT ![q] = new]
<1>1. DOMAIN Answers = Queries /\ DOMAIN Answers' = Queries
  BY DEF Answers
<1>2. Answers = [r \in Queries |-> Answers[r]] /\ Answers' = [r \in Queries |-> Answers'[r]]
  BY Zenon DEF Answers
<1> QED  BY <1>1, <1>2, Zenon

\* The arrival of a query is an Ask of the service.
LEMMA ArriveIsAsk ==
    ASSUME QueueIInv, NEW q \in Queries, NEW a \in Accounts, NEW name \in Names,
           Arrive(q, a, name)
    PROVE  Service!Ask(q, a, name)
<1>0. /\ asked \in [Queries -> (Accounts \X Names) \cup {None}] /\ <<a, name>> # None
      /\ decision \in [Queries -> Decisions]
      /\ born \in [Queries -> [version : Nat \ {0}, time : Nat] \cup {None}]
  BY NoneIsDistinct DEF QueueIInv, TypeIInv, TypeOK, QueryTypes
<1>1. asked[q] = None /\ via[q] = None
  BY DEF QueueIInv, Queued, Served, Progress, Arrive
<1>2. /\ asked' = [asked EXCEPT ![q] = <<a, name>>]
      /\ born' = [born EXCEPT ![q] = [version |-> cache_at, time |-> clock]]
      /\ decision' = [decision EXCEPT ![q] = Decide(Lookup(cache, a), name)]
      /\ via' = via /\ UNCHANGED <<log, cache_at>>
  BY DEF Arrive
<1>3. Lookup(cache, a) = log[cache_at][a]
  BY DEF QueueIInv, Versions, CacheIsOneVersion, Lookup
<1>4. Answers[q] = None
  BY <1>1 DEF Answers
<1>5. \A r \in Queries \ {q} : Answers'[r] = Answers[r]
  BY <1>0, <1>2 DEF Answers
<1>6. Answers'[q] = [account |-> a, name |-> name, version |-> cache_at,
                     decision |-> Decide(log[cache_at][a], name), via |-> None]
  <2> DEFINE d == Decide(log[cache_at][a], name)
  <2>1. decision'[q] = d
    BY <1>0, <1>2, <1>3
  <2> HIDE DEF d
  <2>2. asked'[q] = <<a, name>> /\ born'[q].version = cache_at /\ via'[q] = None
    BY <1>0, <1>1, <1>2
  <2>3. Answers'[q] = [account |-> asked'[q][1], name |-> asked'[q][2],
                       version |-> born'[q].version, decision |-> decision'[q],
                       via |-> via'[q]]
    BY <1>0, <2>2 DEF Answers
  <2> QED  BY <2>1, <2>2, <2>3 DEF d
<1> DEFINE new == [account |-> a, name |-> name, version |-> cache_at,
                   decision |-> Decide(log[cache_at][a], name), via |-> None]
<1>7. Answers' = [Answers EXCEPT ![q] = new]
  <2> HIDE DEF new
  <2>1. Answers'[q] = new
    BY <1>6 DEF new
  <2> QED  BY <1>5, <2>1, ChangedAt
<1> QED  BY <1>2, <1>4, <1>7 DEF Service!Ask

\* What became of a query that has arrived is not None.
LEMMA AnswersAreSome ==
    ASSUME QueueIInv, NEW q \in Queries, asked[q] # None
    PROVE  Answers[q] # None
<1>1. /\ asked[q] \in Accounts \X Names /\ born[q].version \in Nat
      /\ decision[q] \in Decisions /\ via[q] \in Upstreams \cup {Fallback, None}
  BY DEF QueueIInv, TypeIInv, TypeOK, QueryTypes, StoreTypes, Queued, Served
<1>2. Answers[q] \in AnswerRecord
  BY <1>1 DEF Answers, AnswerRecord
<1> QED  BY <1>2, NoneIsDistinct

\* Sending a query upstream is a Forward of the service.
LEMMA SendIsForward ==
    ASSUME QueueIInv, NEW q \in Queries, Send(q)
    PROVE  Service!Forward(q)
<1>0. via \in [Queries -> Upstreams \cup {Fallback, None}]
  BY DEF QueueIInv, TypeIInv, TypeOK, QueryTypes
<1>1. /\ asked[q] # None /\ via[q] = None /\ decision[q].kind # "deny"
      /\ cached[q] = log[born[q].version][asked[q][1]]
  BY DEF QueueIInv, TypeIInv, AtQuota, Queued, Served, Progress, Send, Lookup
<1>2. /\ via' = [via EXCEPT ![q] = transport_for(cached[q])]
      /\ UNCHANGED <<asked, born, decision, log, cache_at>>
  BY DEF Send
<1>3. Answers[q] = [account |-> asked[q][1], name |-> asked[q][2],
                    version |-> born[q].version, decision |-> decision[q], via |-> None]
  BY <1>1 DEF Answers
<1>4. Answers[q] # None
  BY <1>1, AnswersAreSome
<1>5. \A r \in Queries \ {q} : Answers'[r] = Answers[r]
  BY <1>0, <1>2 DEF Answers
<1> DEFINE way == transport_for(cached[q])
<1>6. Answers'[q] = [Answers[q] EXCEPT !.via = way]
  <2>1. via'[q] = way
    BY <1>0, <1>2
  <2> HIDE DEF way
  <2> QED  BY <1>1, <1>2, <1>3, <2>1 DEF Answers
<1>7. Answers' = [Answers EXCEPT ![q].via = way]
  <2> HIDE DEF way
  <2> QED  BY <1>5, <1>6, ChangedAt DEF Answers
<1>8. way = transport_for(log[Answers[q].version][Answers[q].account])
  BY <1>1, <1>3
<1> HIDE DEF way
<1> QED  BY <1>1, <1>2, <1>3, <1>4, <1>7, <1>8 DEF Service!Forward

\* Every step of a query is one of the service's, or none.
LEMMA QueryRefines ==
    ASSUME QueueIInv, NEW q \in Queries, Query(q)
    PROVE  [Service!Next]_(Service!vars)
<1>1. ASSUME NEW a \in Accounts, NEW name \in Names, Arrive(q, a, name)
      PROVE  [Service!Next]_(Service!vars)
  BY <1>1, ArriveIsAsk DEF Service!Next
<1>2. CASE Send(q)
  BY <1>2, SendIsForward DEF Service!Next
<1>3. CASE Malformed(q) \/ CheckLimit(q) \/ Charge(q) \/ QuotaFails(q) \/ Answer(q)
  <2>1. UNCHANGED <<asked, born, decision, via>> /\ UNCHANGED <<log, cache_at>>
    BY <1>3 DEF Malformed, CheckLimit, Charge, QuotaFails, Answer
  <2>2. UNCHANGED Answers
    BY <2>1, AnswersKept
  <2> QED  BY <2>1, <2>2 DEF Service!vars
<1> QED  BY <1>1, <1>2, <1>3 DEF Query

\* Every step of the program is one of the service's, or none.
LEMMA StepRefines ==
    ASSUME QueueIInv, QueueIInv', Ordered, [Next]_vars
    PROVE  [Service!Next]_(Service!vars)
<1>0. /\ StoreTypes /\ StoreTypes' /\ JustCreated /\ CacheTypes
      /\ snapshot(accounts) = log[Len(log)] /\ accounts' \in Records
  BY DEF QueueIInv, TypeIInv, TypeOK, Versions, StoreTypes
<1>1. CASE Edit
  <2>1. /\ UNCHANGED <<cache_at, progress>>
        /\ log' = log \/ log' = Append(log, snapshot(accounts'))
        /\ snapshot(accounts') = snapshot(accounts) => log' = log
    BY <1>0, <1>1, EditTypes, EditStores DEF Store
  <2>2. UNCHANGED Answers
    BY <2>1, AnswersKept
  <2>3. CASE log' = log
    BY <2>1, <2>2, <2>3 DEF Service!vars
  <2>4. CASE log' # log
    <3>1. PICK a \in Accounts : Service!Edited(snapshot(accounts), snapshot(accounts'), a)
      BY <1>0, <1>1, <2>1, <2>4, EditIsAnEdit
    <3>2. log' = Append(log, snapshot(accounts')) /\ log'[Len(log')] = snapshot(accounts')
      <4>1. snapshot(accounts') \in Policies
        BY <1>0, SnapshotType
      <4> QED  BY <1>0, <2>1, <2>4, <4>1 DEF StoreTypes
    <3> QED  BY <1>0, <2>1, <2>2, <3>1, <3>2 DEF Service!Next, Service!Change
  <2> QED  BY <2>3, <2>4
<1>2. CASE Install
  <2>1. UNCHANGED <<log, progress>> /\ cache_at' = snap_at /\ snap # None
    BY <1>2 DEF Install
  <2>2. UNCHANGED Answers
    BY <2>1, AnswersKept
  <2>3. cache_at' \in cache_at..Len(log)
    BY <1>0, <2>1 DEF CacheTypes, Ordered
  <2> QED  BY <2>1, <2>2, <2>3 DEF Service!Next, Service!Refresh
<1>3. CASE TakeSnapshot \/ Tick \/ UNCHANGED vars
  <2>1. UNCHANGED <<log, cache_at, progress>>
    BY <1>3 DEF TakeSnapshot, Tick, vars
  <2>2. UNCHANGED Answers
    BY <2>1, AnswersKept
  <2> QED  BY <2>1, <2>2 DEF Service!vars
<1>4. CASE \E q \in Queries : Query(q)
  BY <1>4, QueryRefines DEF QueueIInv
<1> QED  BY <1>1, <1>2, <1>3, <1>4 DEF Next

\* The program starts where the service does.
LEMMA InitRefines == Init => Service!Init /\ Ordered
BY DEF Init, Nobody, Answers, Ordered, Service!Init

\* The in-memory control plane, the cache and the pipeline keep the promises
\* of PolicyService for any number of accounts, requests and queries
\* (pipeline.rs:93-142, policy.rs:30-52, inmem.rs:120-196).
THEOREM Implements == Spec => KeepsPromises
<1>1. QueueIInv /\ Ordered /\ [Next]_vars => Ordered'
  BY OrderedKept DEF QueueIInv
<1>2. Spec => []Ordered
  BY <1>1, InitRefines, QueueInductive, PTL DEF Spec
<1>3. QueueIInv /\ QueueIInv' /\ Ordered /\ [Next]_vars => [Service!Next]_(Service!vars)
  BY StepRefines
<1> QED  BY <1>2, <1>3, InitRefines, QueueInductive, PTL DEF Spec, KeepsPromises, Service!Spec
=============================================================================
