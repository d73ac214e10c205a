-------------------------------- MODULE Rules --------------------------------
(***************************************************************************)
(* An account's ordered rule list and the decision it leads to: the types  *)
(* of lib/model/entities.rs and the loop of ruleengine::evaluate, for any *)
(* way of telling whether one rule covers the query.                       *)
(***************************************************************************)
EXTENDS Integers, Sequences, SequencesExt

CONSTANT None   \* Rust's Option::None

Windows == {"hour", "day", "week", "month"}
Actions == {"allow", "deny", "limit"}
TargetTypes == {"domain", "wildcard", "category"}

\* What evaluate returns, "none" standing for no matching rule.
Decisions ==
    [kind : {"none", "allow", "deny"}]
      \cup [kind : {"limit"}, rule_id : Nat, limit_count : Int, window : Windows]

ASSUME NoneAssumption == None \notin Int \cup Decisions

\* Option::unwrap_or
UnwrapOr(option, default) == IF option = None THEN default ELSE option

NoMatch == [kind |-> "none"]

\* Mutant: a limit rule without a count is passed on without one.
DecisionOfBareLimit(rule) ==
    IF rule.action = "limit"
    THEN [kind |-> "limit", rule_id |-> rule.id, limit_count |-> rule.limit_count,
          window |-> UnwrapOr(rule.limit_window, "month")]
    ELSE [kind |-> rule.action]

\* The decision a matching rule stands for.
DecisionOf(rule) ==
    IF rule.action = "limit"
    THEN [kind        |-> "limit",
          rule_id     |-> rule.id,
          limit_count |-> UnwrapOr(rule.limit_count, 0),
          window      |-> UnwrapOr(rule.limit_window, "month")]
    ELSE [kind |-> rule.action]

\* The position of the first enabled rule for which Hit holds, 0 if none.
FirstHit(rules, Hit(_)) == SelectInSeq(rules, LAMBDA r : r.enabled /\ Hit(r))

\* evaluate in one piece, for a matcher that does not change under it.
evaluate(rules, Hit(_)) ==
    LET i == FirstHit(rules, Hit)
    IN  IF i = 0 THEN NoMatch ELSE DecisionOf(rules[i])
=============================================================================
