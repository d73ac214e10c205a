---------------------------- MODULE MCRuleEngine ----------------------------
(***************************************************************************)
(* A small instance of RuleEngine: every name and target of up to three    *)
(* labels for the matchers, lists of up to three rules and an index that   *)
(* moves for the walk.                                                     *)
(***************************************************************************)
EXTENDS RuleEngine

MCLabels == {"", "*", "a", "A", "b", "ads", "trk"}
MCLower == [l \in MCLabels |-> IF l = "A" THEN "a" ELSE l]

AllSeqs(S, n) == UNION {[1..k -> S] : k \in 1..n}

ARule(i, act, type, value, on) ==
    [id |-> i, action |-> act, target_type |-> type, target_value |-> value,
     limit_count |-> IF act = "limit" THEN 2 ELSE None,
     limit_window |-> IF act = "limit" THEN "day" ELSE None,
     enabled |-> on]

\* read_qname yields lower-case text; a label may itself hold a dot.
QNames == AllSeqs({"a", "b", ""}, 3)

\* One rule with every target, and lists of up to three rules over the two
\* categories with a rule of each other kind.
OneRuleLists ==
    {<<ARule(1, "deny", t, v, TRUE)>> :
        t \in {"domain", "wildcard"}, v \in AllSeqs({"a", "A", "*", ""}, 3)}
WalkRules(i) ==
    {ARule(i, "deny", "category", <<"ads">>, TRUE),
     ARule(i, "deny", "category", <<"trk">>, TRUE),
     ARule(i, "allow", "wildcard", <<"*", "a">>, TRUE),
     ARule(i, "deny", "domain", <<"b", "a">>, FALSE),
     [ARule(i, "limit", "domain", <<"b", "A">>, TRUE) EXCEPT !.limit_count = None]}
WalkRuleLists ==
    {<< >>} \cup {<<r>> : r \in WalkRules(1)}
      \cup {<<r, s>> : r \in WalkRules(1), s \in WalkRules(2)}
      \cup {<<r, s, t>> : r \in WalkRules(1), s \in WalkRules(2), t \in WalkRules(3)}
MCRuleLists == OneRuleLists \cup WalkRuleLists

\* A domain that moves between two categories, and one below it.
MCIndexes == {{<<<<"a">>, <<"ads">>>>},
              {<<<<"a">>, <<"trk">>>>, <<<<"b", "a">>, <<"ads">>>>}}

\* For the walk alone, fewer lists and names.
WalkNames == {<<"a">>, <<"b", "a">>}
=============================================================================
