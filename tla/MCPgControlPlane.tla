-------------------------- MODULE MCPgControlPlane --------------------------
(***************************************************************************)
(* A small instance of PgControlPlane: requests on both tables, and        *)
(* queries on a limit rule.                                                *)
(***************************************************************************)
EXTENDS PgControlPlane, TLC

CONSTANTS u1, u2

Deny     == [action |-> "deny", limit_count |-> None]
Limit(n) == [action |-> "limit", limit_count |-> n]

\* A limit without a count is what the table refuses.
Edits  == [t \in Tables |-> IF t = "rules" THEN {<<Limit(0), Limit(1)>>, <<Deny, Limit(None)>>}
                            ELSE {<<u1>>, <<u2, u1>>, << >>}]

RequestSymmetry == Permutations(Editors) \cup Permutations(Queries)
=============================================================================
