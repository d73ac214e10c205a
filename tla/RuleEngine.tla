------------------------------ MODULE RuleEngine ------------------------------
(***************************************************************************)
(* ruleengine::evaluate as it runs: a walk over the account's rules, one   *)
(* rule per step, against a CategoryIndex that the blocklist task may      *)
(* replace between two steps.  Each category rule takes the index's read   *)
(* lock for itself (categories.rs:25), so one walk can see several         *)
(* indexes.  The rule list is an Arc taken from the policy cache and does  *)
(* not change under the walk.                                              *)
(***************************************************************************)
EXTENDS Rules, DomainNames

CONSTANTS
    RuleLists,   \* the rule lists an account may have
    QueryNames,  \* the names a client may ask for
    Indexes      \* the category indexes ingestion may install

Rule == [id : Nat, action : Actions, target_type : TargetTypes,
         target_value : Seq(Labels) \ {<< >>},
         limit_count : Int \cup {None}, limit_window : Windows \cup {None},
         enabled : BOOLEAN]

\* What the index lists came through sanitize: it is in lower case, does not end
\* with a dot and has no label "*" (blocklist.rs:236-258).
Listed(domain) ==
    /\ domain # << >> /\ domain[Len(domain)] # Empty
    /\ \A i \in DOMAIN domain : Lower[domain[i]] = domain[i] /\ domain[i] # Star

ASSUME InputsAssumption ==
    /\ RuleLists \subseteq Seq(Rule)
    /\ QueryNames \subseteq Seq(Labels)
    /\ \A idx \in Indexes : idx \subseteq {d \in Seq(Labels) : Listed(d)} \X Seq(Labels)

VARIABLES
    index,     \* CategoryIndex.map
    pc,        \* "idle", "walking" inside evaluate, "done" when it returned
    rules,     \* its arguments
    qname,
    pos,       \* the rule it looks at next
    decision,  \* what the call returned, None until then
    hit,       \* history: the rule that decided, 0 for none
    seen       \* history: every index that was installed during the call

vars == <<index, pc, rules, qname, pos, decision, hit, seen>>

Init ==
    /\ index \in Indexes
    /\ pc = "idle"
    /\ rules = << >>
    /\ qname = << >>
    /\ pos = 1
    /\ decision = None
    /\ hit = 0
    /\ seen = {index}

-----------------------------------------------------------------------------
\* Does this rule cover the query, as far as the index installed now goes?
Matched(rule, name, idx) ==
    IF rule.target_type = "category"
    THEN contains(idx, name, rule.target_value)
    ELSE matches_target(name, rule.target_type, rule.target_value)

\* handle_inner calls evaluate for the next query.
Call ==
    /\ pc = "idle"
    /\ pc' = "walking"
    /\ rules' \in RuleLists
    /\ qname' \in QueryNames
    /\ pos' = 1
    /\ decision' = None
    /\ hit' = 0
    /\ seen' = {index}
    /\ UNCHANGED index

Return(d, i) ==
    /\ pc' = "done"
    /\ decision' = d
    /\ hit' = i
    /\ UNCHANGED <<index, rules, qname, pos, seen>>

Advance ==
    /\ pos' = pos + 1
    /\ UNCHANGED <<index, pc, rules, qname, decision, hit, seen>>

\* Mutant: disabled rules count too.
ConsideredAlways(rule) == TRUE

\* .iter().filter(|r| r.enabled)
Considered(rule) == rule.enabled

\* One turn of the loop.
Turn ==
    /\ pc = "walking" /\ pos \in DOMAIN rules
    /\ IF Considered(rules[pos]) /\ Matched(rules[pos], qname, index)
       THEN Return(DecisionOf(rules[pos]), pos)
       ELSE Advance

\* The loop is exhausted.
NoRuleMatches ==
    /\ pc = "walking" /\ pos \notin DOMAIN rules
    /\ Return(NoMatch, 0)

\* handle_inner acts on the decision and drops the arguments.
Consume ==
    /\ pc = "done"
    /\ pc' = "idle"
    /\ decision' = None
    /\ rules' = << >>
    /\ qname' = << >>
    /\ pos' = 1
    /\ hit' = 0
    /\ seen' = {index}
    /\ UNCHANGED index

\* CategoryIndex::replace, by the blocklist task.  The history of a call that
\* has returned is not extended.
ReplaceIndex ==
    /\ index' \in Indexes
    /\ seen' = IF pc = "walking" THEN seen \cup {index'} ELSE seen
    /\ UNCHANGED <<pc, rules, qname, pos, decision, hit>>

Next ==
    \/ Call
    \/ Turn
    \/ NoRuleMatches
    \/ Consume
    \/ ReplaceIndex

Spec == Init /\ [][Next]_vars

-----------------------------------------------------------------------------
(* Properties.                                                             *)

\* The state stays in the types the code gives it.
TypeOK ==
    /\ index \in Indexes
    /\ pc \in {"idle", "walking", "done"}
    /\ rules \in Seq(Rule)
    /\ qname \in QueryNames \cup {<< >>}
    /\ pos \in 1..(Len(rules) + 1)
    /\ decision \in Decisions \cup {None}
    /\ hit \in 0..Len(rules)
    /\ seen \subseteq Indexes

Hits(i)   == \E idx \in seen : Matched(rules[i], qname, idx)
Misses(i) == ~rules[i].enabled \/ \E idx \in seen : ~Matched(rules[i], qname, idx)

\* What evaluate returns can always be explained rule by rule: the deciding
\* rule is enabled and matched under an index installed during the call, and
\* every rule before it was disabled or missed under such an index.
DecisionExplained ==
    decision # None =>
        /\ hit # 0 => /\ rules[hit].enabled /\ Hits(hit)
                      /\ decision = DecisionOf(rules[hit])
        /\ hit = 0 => decision = NoMatch
        /\ \A i \in 1..(IF hit = 0 THEN Len(rules) ELSE hit - 1) : Misses(i)

-----------------------------------------------------------------------------
(* A reference for matching, written over the raw names: names agree when  *)
(* they are the same labels up to case, and only empty labels follow.      *)

SameName(a, b) ==
    \E i \in 0..Len(a), j \in 0..Len(b) :
        /\ i = j /\ \A k \in 1..i : Lower[a[k]] = Lower[b[k]]
        /\ \A k \in (i + 1)..Len(a) : a[k] = Empty
        /\ \A k \in (j + 1)..Len(b) : b[k] = Empty

IsRoot(name) == \A k \in DOMAIN name : name[k] = Empty

\* name is base or lies below it
AtOrBelow(name, base) ==
    /\ ~IsRoot(base)
    /\ \E k \in 1..Len(name) : SameName(SubSeq(name, k, Len(name)), base)

\* The target behind its leading "*." labels.
WildcardBase(target) ==
    CHOOSE base \in {SubSeq(target, j, Len(target)) : j \in 1..Len(target)} :
        /\ Head(base) # Star \/ Len(base) = 1
        /\ \A k \in 1..(Len(target) - Len(base)) : target[k] = Star

Covers(rule, name, idx) ==
    CASE rule.target_type = "domain"   -> SameName(name, rule.target_value)
      [] rule.target_type = "wildcard" -> AtOrBelow(name, WildcardBase(rule.target_value))
      [] OTHER -> \E entry \in idx : /\ entry[2] = rule.target_value
                                     /\ AtOrBelow(NonEmptyLabels(name), entry[1])

\* While the index stays put, the walk returns the decision of the first
\* enabled rule that covers the name (ruleengine.rs:3-5), case and trailing
\* dots ignored, wildcards and categories reaching the name itself and
\* everything below it.
FirstMatchWins ==
    \A idx \in seen : decision # None /\ seen = {idx} =>
        LET covering == {i \in DOMAIN rules :
                            rules[i].enabled /\ Covers(rules[i], qname, idx)}
        IN  /\ covering = {} => decision = NoMatch
            /\ \A i \in covering :
                  (\A j \in covering : i <= j) => decision = DecisionOf(rules[i])

\* The two matchers agree: a category reaches a name without inner empty
\* labels exactly when a wildcard rule for one of its domains does, although
\* ruleengine.rs compares suffixes and categories.rs peels labels off.
CategoryAgreesWithWildcard ==
    LET q == normalize(qname)
    IN  (\A k \in DOMAIN q : q[k] # Empty) =>
            \A c \in {entry[2] : entry \in index} :
                contains(index, qname, c)
                  <=> \E entry \in index :
                          entry[2] = c /\ matches_target(qname, "wildcard", entry[1])
=============================================================================
