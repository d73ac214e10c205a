---------------------------- MODULE PolicyService ----------------------------
(***************************************************************************)
(* What brdns promises about policies, whoever stores them and however     *)
(* rules are matched:                                                      *)
(*                                                                         *)
(*   - the stored policies go through a history of versions, each of which *)
(*     differs from the one before in one account: the account is made, or *)
(*     its rules or its upstream are replaced (trait ControlPlane);        *)
(*   - queries are served from one version at a time, which never becomes  *)
(*     an older one (PolicyCache);                                         *)
(*   - a query is decided when it arrives, by the version then served, and *)
(*     if it is forwarded it goes the way that same version says           *)
(*     (Pipeline::handle_query).                                           *)
(***************************************************************************)
EXTENDS Integers, Sequences

CONSTANTS
    None,
    Accounts, Names, Queries,
    Decide(_, _),   \* what a policy decides about a name
    Route(_)        \* where a policy sends the queries it lets through

VARIABLES
    history,        \* every version of the policies, oldest first
    served,         \* which of them queries meet
    answers         \* per query: what became of it, None before it arrives

vars == <<history, served, answers>>

NewPolicy == [rules |-> << >>, upstream |-> None]

\* new is old with one edit of account a.
Edited(old, new, a) ==
    /\ DOMAIN new = Accounts
    /\ \A b \in Accounts \ {a} : new[b] = old[b]
    /\ IF old[a] = None THEN new[a] = NewPolicy
       ELSE /\ new[a] # None
            /\ new[a].rules = old[a].rules \/ new[a].upstream = old[a].upstream

Init ==
    /\ history = <<[a \in Accounts |-> None]>>
    /\ served = 1
    /\ answers = [q \in Queries |-> None]

\* An edit takes effect.
Change ==
    /\ history' = Append(history, history'[Len(history')])
    /\ \E a \in Accounts : Edited(history[Len(history)], history'[Len(history')], a)
    /\ UNCHANGED <<served, answers>>

\* Queries are served from a newer version.
Refresh ==
    /\ served' \in served..Len(history)
    /\ UNCHANGED <<history, answers>>

\* A query arrives.
Ask(q, a, name) ==
    /\ answers[q] = None
    /\ answers' = [answers EXCEPT
          ![q] = [account |-> a, name |-> name, version |-> served,
                  decision |-> Decide(history[served][a], name), via |-> None]]
    /\ UNCHANGED <<history, served>>

\* It is let through.
Forward(q) ==
    /\ answers[q] # None
    /\ answers[q].decision.kind # "deny" /\ answers[q].via = None
    /\ answers' = [answers EXCEPT
          ![q].via = Route(history[answers[q].version][answers[q].account])]
    /\ UNCHANGED <<history, served>>

Next ==
    \/ Change
    \/ Refresh
    \/ \E q \in Queries : Forward(q) \/ \E a \in Accounts, name \in Names : Ask(q, a, name)

Spec == Init /\ [][Next]_vars
=============================================================================
