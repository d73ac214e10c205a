----------------------------- MODULE MCAdminApi -----------------------------
(***************************************************************************)
(* A small instance of AdminApi: a valid and an invalid account number,    *)
(* rules that differ in their target, and commands of every kind.          *)
(***************************************************************************)
EXTENDS AdminApi, TLC

CONSTANTS n1, n2, bad, d1, d2, long, u1, c1, c2, c3, t1, t2

ARule(d, count, on) == [target |-> d, limit_count |-> count, enabled |-> on]
Cmd(op, n, body) == [op |-> op, number |-> n, body |-> body, token |-> t1]

\* Two clients meet on the rules of n1; a third one calls the rest of the API.
RuleCommands == {
    Cmd("add", n1, <<ARule(d1, None, TRUE)>>),
    Cmd("replace_rules", n1, <<ARule(d2, None, FALSE)>>)}

SomeAdds == {
    Cmd("add", n1, <<ARule(d2, 1, TRUE)>>),
    Cmd("add", n2, <<ARule(d1, None, TRUE)>>),
    Cmd("replace_upstreams", n1, <<u1>>)}

OtherCommands == {
    Cmd("healthz", None, None),
    Cmd("create_account", None, None),
    Cmd("create_account", bad, None),
    Cmd("get_account", n1, None),
    Cmd("list_upstreams", n1, None),
    Cmd("list_presets", None, None),
    Cmd("replace_rules", n1, Junk),
    Cmd("replace_rules", n1, <<ARule(d1, -1, TRUE)>>),
    Cmd("add", n1, <<ARule(long, None, TRUE)>>),
    Cmd("replace_rules", n1, Unreadable),
    Cmd("replace_upstreams", n2, <<u1>>),
    [Cmd("add", n1, <<ARule(d1, 0, TRUE)>>) EXCEPT !.token = t2],
    [Cmd("list_rules", n1, None) EXCEPT !.token = NoToken]}

MCCommandsOf == (c1 :> RuleCommands) @@ (c2 :> SomeAdds) @@ (c3 :> OtherCommands)
MCPresets == <<u1, u1>>
=============================================================================
