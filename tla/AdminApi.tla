------------------------------ MODULE AdminApi ------------------------------
(***************************************************************************)
(* The management API (controlplane/http) over InMemControlPlane, and the  *)
(* clients that call it, most of them runs of the command line tool        *)
(* (bin/admin.rs):                                                         *)
(*                                                                         *)
(*   - a client sends one request at a time and may lose the connection    *)
(*     before it is served or before it has the answer;                    *)
(*   - `rules add` is two requests: it reads the list, appends to what it  *)
(*     read and replaces the list;                                         *)
(*   - a handler is one step per critical section of the store's mutex;    *)
(*   - a server that restarts has lost everything.                         *)
(*                                                                         *)
(* Each member of Clients runs one command.  An action, a target type and  *)
(* a window travel with a rule the way its target does and are left out;   *)
(* an upstream's name, protocol, host, port and address are one value.     *)
(***************************************************************************)
EXTENDS Integers, Sequences, SequencesExt

CONSTANTS
    None,           \* Rust's Option::None
    Numbers,        \* account numbers in a path or a body
    ValidNumbers,   \* those that are 1-64 characters of [a-zA-Z0-9-]
    Generated,      \* numbers of 16 random digits
    Targets,        \* targets a body may name
    GoodTargets,    \* those of 1-253 characters
    UpstreamBodies, \* what a body may say of an upstream
    Junk,           \* a body that is not a list of rules or upstreams
    Unreadable,     \* a file that is missing or not JSON
    PresetBodies,   \* the built-in upstreams
    ApiTokens,      \* what control_plane.api_token may be set to
    NoToken,        \* the empty token
    Clients,
    CommandsOf,     \* per client: the commands it may be started with
    MaxRestarts     \* bound: server restarts

ASSUME AdminAssumption ==
    /\ ValidNumbers \subseteq Numbers /\ Generated \subseteq ValidNumbers
    /\ GoodTargets \subseteq Targets
    /\ PresetBodies \in Seq(UpstreamBodies)
    /\ MaxRestarts \in Nat

\* CreateRule, as a body carries it.
RuleBody == [target : Targets, limit_count : Int \cup {None}, enabled : BOOLEAN]

\* What the store keeps.
Rule == [id : Nat, account_id : Nat, position : Nat, target : GoodTargets,
         limit_count : Nat \cup {None}, enabled : BOOLEAN]
Upstream == [id : Nat, account_id : Nat \cup {None}, body : UpstreamBodies]
AccountRecord == [account   : [id : Nat, account_number : Numbers],
                  rules     : Seq(Rule),
                  upstreams : Seq(Upstream)]

ASSUME NoneIsDistinct == None \notin Clients \cup Numbers \cup {"ok", "error"} \cup AccountRecord

\* The command line of bin/admin.rs: an account where the path has one, a rule
\* for `rules add`, a file for the two replacements.
ASSUME CommandsAssumption ==
    \A c \in Clients : \A cmd \in CommandsOf[c] :
        /\ cmd # None
        /\ cmd.op \notin {"healthz", "create_account", "list_presets"} => cmd.number \in Numbers
        /\ cmd.op = "create_account" => cmd.number \in Numbers \cup {None}
        /\ cmd.op = "add" => cmd.body \in Seq(RuleBody) \ {<< >>}
        /\ cmd.body \notin {Junk, Unreadable} =>
              /\ cmd.op = "replace_rules" => cmd.body \in Seq(RuleBody)
              /\ cmd.op = "replace_upstreams" => cmd.body \in Seq(UpstreamBodies)

VARIABLES
    api_token,      \* ApiState.token
    \* InMemControlPlane.inner
    accounts, presets, next_account_id, next_rule_id, next_upstream_id,
    life,           \* how often the server has restarted
    \* per client
    command,        \* what it was started with, or None
    wire,           \* its request, as far as it has come, or None
    exit,           \* "ok" or "error" once it has ended
    last,           \* the last response it read
    \* history
    versions,       \* per number: every rule list it had, and who stored it
    read_at         \* per client: the version its list_rules returned

config == <<api_token, life>>
store  == <<accounts, presets, next_account_id, next_rule_id, next_upstream_id, versions>>
cli    == <<command, exit, last>>
vars   == <<config, store, cli, wire, read_at>>

-----------------------------------------------------------------------------
(* The store.                                                              *)

\* Mutant: presets do not use up ids.
PresetsOnly(id) == 0

\* next_upstream_id once the presets have their ids.
AfterPresets(id) == id + Len(PresetBodies)

\* The presets as InMemControlPlane::default seeds them.
Seeded == [i \in DOMAIN PresetBodies |->
              [id |-> i, account_id |-> None, body |-> PresetBodies[i]]]

\* accounts.get(account_number).map(..).unwrap_or_default()
RulesOf(n)     == IF accounts[n] = None THEN << >> ELSE accounts[n].rules
UpstreamsOf(n) == IF accounts[n] = None THEN << >> ELSE accounts[n].upstreams

AccountOf(n, id) == [id |-> id, account_number |-> n]

\* Mutant: the lock is taken by a caller that already holds it.
CreateDeadlocks(n) == accounts[n] # None /\ UNCHANGED <<accounts, next_account_id>>

\* get_or_create, one critical section.
get_or_create(n) ==
    IF accounts[n] # None
    THEN UNCHANGED <<accounts, next_account_id>>
    ELSE /\ next_account_id' = next_account_id + 1
         /\ accounts' = [accounts EXCEPT
               ![n] = [account |-> AccountOf(n, next_account_id'),
                       rules |-> << >>, upstreams |-> << >>]]

\* The rules of a body under fresh ids, in its order.
StoredRules(account_id, body) ==
    [i \in DOMAIN body |->
        [id |-> next_rule_id + i, account_id |-> account_id, position |-> i - 1,
         target |-> body[i].target, limit_count |-> body[i].limit_count,
         enabled |-> body[i].enabled]]

StoredUpstreams(account_id, body) ==
    [i \in DOMAIN body |->
        [id |-> next_upstream_id + i, account_id |-> account_id, body |-> body[i]]]

Defaults ==
    /\ accounts' = [n \in Numbers |-> None]
    /\ presets' = Seeded
    /\ next_account_id' = 0 /\ next_rule_id' = 0
    /\ next_upstream_id' = AfterPresets(0)

Init ==
    /\ api_token \in ApiTokens
    /\ accounts = [n \in Numbers |-> None]
    /\ presets = Seeded
    /\ next_account_id = 0 /\ next_rule_id = 0
    /\ next_upstream_id = AfterPresets(0)
    /\ life = 0
    /\ command = [c \in Clients |-> None]
    /\ wire = [c \in Clients |-> None]
    /\ exit = [c \in Clients |-> None]
    /\ last = [c \in Clients |-> None]
    /\ versions = [n \in Numbers |-> <<[rules |-> << >>, by |-> None]>>]
    /\ read_at = [c \in Clients |-> 0]

-----------------------------------------------------------------------------
(* The server.                                                             *)

\* Mutant: without a configured token every request is let in.
OpenWithoutToken(c) == api_token = None \/ command[c].token = api_token

\* auth: no configured token refuses everybody.
Authorized(c) == api_token # None /\ command[c].token = api_token

At(c, stage) == wire[c] # None /\ wire[c].stage = stage

\* The router hands c's request to a handler; all but healthz sit behind auth.
Serving(c, route) ==
    /\ At(c, "request") /\ wire[c].route = route
    /\ route # "healthz" => Authorized(c)

Respond(c, status, value) ==
    wire' = [wire EXCEPT ![c] = [stage |-> "reply", route |-> wire[c].route,
                                 life |-> life, status |-> status, value |-> value]]

Refuse(c) ==
    /\ At(c, "request") /\ wire[c].route # "healthz" /\ ~Authorized(c)
    /\ Respond(c, 401, None)
    /\ UNCHANGED <<config, store, cli, read_at>>

healthz(c) ==
    /\ Serving(c, "healthz")
    /\ Respond(c, 200, None)
    /\ UNCHANGED <<config, store, cli, read_at>>

create_account(c) ==
    /\ Serving(c, "create_account")
    /\ \E n \in IF wire[c].number = None THEN Generated ELSE {wire[c].number} :
          IF n \notin ValidNumbers
          THEN Respond(c, 400, None) /\ UNCHANGED store
          ELSE /\ get_or_create(n)
               /\ Respond(c, 201, accounts'[n].account)
               /\ UNCHANGED <<presets, next_rule_id, next_upstream_id, versions>>
    /\ UNCHANGED <<config, cli, read_at>>

get_account(c) ==
    /\ Serving(c, "get_account")
    /\ LET record == accounts[wire[c].number]
       IN  IF record = None THEN Respond(c, 404, None)
           ELSE Respond(c, 200, record.account)
    /\ UNCHANGED <<config, store, cli, read_at>>

list_rules(c) ==
    /\ Serving(c, "list_rules")
    /\ Respond(c, 200, RulesOf(wire[c].number))
    /\ read_at' = [read_at EXCEPT ![c] = Len(versions[wire[c].number])]
    /\ UNCHANGED <<config, store, cli>>

list_upstreams(c) ==
    /\ Serving(c, "list_upstreams")
    /\ Respond(c, 200, UpstreamsOf(wire[c].number))
    /\ UNCHANGED <<config, store, cli, read_at>>

list_presets(c) ==
    /\ Serving(c, "list_presets")
    /\ Respond(c, 200, presets)
    /\ UNCHANGED <<config, store, cli, read_at>>

\* Mutant: the budget is not looked at.
AcceptableTarget(rule) == rule.target \in GoodTargets

\* The validation of replace_rules.
Acceptable(rule) ==
    /\ rule.target \in GoodTargets
    /\ rule.limit_count # None => rule.limit_count >= 0

\* replace_rules and replace_upstreams up to their second critical section:
\* the body is extracted and validated before the account is created.  The
\* number is not validated.
BeginReplace(c, route) ==
    /\ Serving(c, route)
    /\ LET n == wire[c].number  body == wire[c].body
       IN  CASE body = Junk -> Respond(c, 422, None) /\ UNCHANGED store
             [] body # Junk /\ route = "replace_rules"
                /\ \E i \in DOMAIN body : ~Acceptable(body[i]) ->
                   Respond(c, 400, None) /\ UNCHANGED store
             [] OTHER ->
                   /\ get_or_create(n)
                   /\ wire' = [wire EXCEPT ![c] =
                         [stage |-> "storing", route |-> route, number |-> n,
                          body |-> body, account_id |-> accounts'[n].account.id]]
                   /\ UNCHANGED <<presets, next_rule_id, next_upstream_id, versions>>
    /\ UNCHANGED <<config, cli, read_at>>

FinishReplaceRules(c) ==
    /\ At(c, "storing") /\ wire[c].route = "replace_rules"
    /\ LET n == wire[c].number  out == StoredRules(wire[c].account_id, wire[c].body)
       IN  /\ accounts' = [accounts EXCEPT ![n].rules = out]
           /\ versions' = [versions EXCEPT ![n] = Append(@, [rules |-> out, by |-> c])]
           /\ next_rule_id' = next_rule_id + Len(wire[c].body)
           /\ Respond(c, 200, out)
    /\ UNCHANGED <<config, presets, next_account_id, next_upstream_id, cli, read_at>>

FinishReplaceUpstreams(c) ==
    /\ At(c, "storing") /\ wire[c].route = "replace_upstreams"
    /\ LET out == StoredUpstreams(wire[c].account_id, wire[c].body)
       IN  /\ accounts' = [accounts EXCEPT ![wire[c].number].upstreams = out]
           /\ next_upstream_id' = next_upstream_id + Len(wire[c].body)
           /\ Respond(c, 200, out)
    /\ UNCHANGED <<config, presets, next_account_id, next_rule_id, versions, cli, read_at>>

\* The process ends and a new one starts: requests it had die with it.
Restart ==
    /\ life < MaxRestarts
    /\ life' = life + 1
    /\ Defaults
    /\ versions' = [n \in Numbers |->
          IF RulesOf(n) = << >> THEN versions[n]
          ELSE Append(versions[n], [rules |-> << >>, by |-> None])]
    /\ exit' = [c \in Clients |->
          IF At(c, "request") \/ At(c, "storing") THEN "error" ELSE exit[c]]
    /\ wire' = [c \in Clients |-> IF At(c, "reply") THEN wire[c] ELSE None]
    /\ UNCHANGED <<api_token, command, last, read_at>>

Serve(c) ==
    \/ Refuse(c) \/ healthz(c)
    \/ create_account(c) \/ get_account(c)
    \/ list_rules(c) \/ list_upstreams(c) \/ list_presets(c)
    \/ BeginReplace(c, "replace_rules") \/ FinishReplaceRules(c)
    \/ BeginReplace(c, "replace_upstreams") \/ FinishReplaceUpstreams(c)

-----------------------------------------------------------------------------
(* The clients.                                                            *)

Send(c, route, number, body) ==
    wire' = [wire EXCEPT ![c] = [stage |-> "request", route |-> route,
                                 number |-> number, body |-> body]]

\* Mutant: the flag is not sent, and a body without it means enabled.
BodyWithoutFlag(rule) ==
    [target |-> rule.target, limit_count |-> rule.limit_count, enabled |-> TRUE]

\* Mutant: the budget is not sent.
BodyWithoutCount(rule) ==
    [target |-> rule.target, limit_count |-> None, enabled |-> rule.enabled]

\* A listed rule as `rules add` sends it back.
BodyOf(rule) ==
    [target |-> rule.target, limit_count |-> rule.limit_count, enabled |-> rule.enabled]

BodiesOf(rules) == [i \in DOMAIN rules |-> BodyOf(rules[i])]

\* The rule `rules add` was started with, enabled whatever else it says.
NewRule(cmd) == [cmd.body[1] EXCEPT !.enabled = TRUE]

\* main up to the first request: without a token or with an unreadable file
\* there is none.
Start(c, cmd) ==
    /\ command[c] = None
    /\ command' = [command EXCEPT ![c] = cmd]
    /\ IF cmd.token = NoToken \/ cmd.body = Unreadable
       THEN exit' = [exit EXCEPT ![c] = "error"] /\ UNCHANGED wire
       ELSE /\ Send(c, IF cmd.op = "add" THEN "list_rules" ELSE cmd.op,
                    cmd.number, cmd.body)
            /\ UNCHANGED exit
    /\ UNCHANGED <<config, store, last, read_at>>

\* status.is_success()
IsSuccess(status) == status \in 200..299

\* What `rules add` appends to: the body of its GET.
Listed(c) == wire[c].value

\* request returns: `rules add` goes on to its second request.
ReadReply(c) ==
    /\ At(c, "reply")
    /\ last' = [last EXCEPT ![c] = wire[c]]
    /\ IF IsSuccess(wire[c].status) /\ command[c].op = "add" /\ wire[c].route = "list_rules"
       THEN /\ Send(c, "replace_rules", command[c].number,
                    Append(BodiesOf(Listed(c)), NewRule(command[c])))
            /\ UNCHANGED exit
       ELSE /\ exit' = [exit EXCEPT ![c] =
                           IF IsSuccess(wire[c].status) THEN "ok" ELSE "error"]
            /\ wire' = [wire EXCEPT ![c] = None]
    /\ UNCHANGED <<config, store, command, read_at>>

\* The connection is lost before the request arrives or the answer does; the
\* client does not try again.
Lose(c) ==
    /\ At(c, "request") \/ At(c, "reply")
    /\ wire' = [wire EXCEPT ![c] = None]
    /\ exit' = [exit EXCEPT ![c] = "error"]
    /\ UNCHANGED <<config, store, command, last, read_at>>

Next ==
    \/ \E c \in Clients :
          \/ \E cmd \in CommandsOf[c] : Start(c, cmd)
          \/ Serve(c) \/ ReadReply(c) \/ Lose(c)
    \/ Restart

Spec == Init /\ [][Next]_vars

\* A server that runs serves every connection, and a client reads its answer.
Fairness == \A c \in Clients : WF_vars(Serve(c)) /\ WF_vars(ReadReply(c))

FairSpec == Spec /\ Fairness

-----------------------------------------------------------------------------
(* Properties.                                                             *)

\* The store is well typed, and every rule in it passed the validation of
\* replace_rules (rules.rs:30-39).
TypeOK ==
    /\ \A n \in Numbers : accounts[n] # None =>
          /\ accounts[n].account.account_number = n
          /\ accounts[n].account.id \in 1..next_account_id
          /\ accounts[n].rules \in Seq(Rule)
          /\ \A i \in DOMAIN accounts[n].upstreams :
                accounts[n].upstreams[i].id \in 1..next_upstream_id
    /\ \A n \in Numbers : versions[n] # << >> /\ Last(versions[n]).rules = RulesOf(n)
    /\ exit \in [Clients -> {None, "ok", "error"}]
    /\ \A c \in Clients : wire[c] # None => command[c] # None /\ exit[c] = None

\* A list without what the store adds to it.
Contents(rules) ==
    [i \in DOMAIN rules |->
        [target |-> rules[i].target, limit_count |-> rules[i].limit_count,
         enabled |-> rules[i].enabled]]

\* The version of its account's list that client c stored.
StoredBy(c, n) == {v \in DOMAIN versions[n] : versions[n][v].by = c}

\* What `rules add` stores is the list it read, rule for rule, disabled ones
\* and all, followed by its own rule: "Append a rule to the end of the list."
\* (admin.rs:55, 206-231).
AddsExtendWhatTheyRead ==
    \A n \in Numbers, c \in Clients : \A v \in StoredBy(c, n) :
        command[c].op = "add" =>
            /\ read_at[c] < v
            /\ Contents(versions[n][v].rules) =
                  Append(Contents(versions[n][read_at[c]].rules), NewRule(command[c]))

\* A rule whose `rules add` ended well stays in the list unless the list was
\* replaced as a whole, the server restarted, or another `rules add` had read
\* the list before (the race of admin.rs:207).
AddedRulesStay ==
    \A c \in Clients : command[c] # None /\ command[c].op = "add" /\ exit[c] = "ok" =>
        LET n == command[c].number
            Excuses(x, v) ==
                LET by == versions[n][x].by
                IN  \/ by = None
                    \/ command[by].op = "replace_rules"
                    \/ command[by].op = "add" /\ read_at[by] < v
        IN  /\ StoredBy(c, n) # {}
            /\ \A v \in StoredBy(c, n), w \in DOMAIN versions[n] : w > v =>
                  \/ NewRule(command[c]) \in ToSet(Contents(versions[n][w].rules))
                  \/ \E x \in (v + 1)..w : Excuses(x, v)

\* Accounts have ids of their own, and every rule and upstream carries the id
\* of the account it is listed under and an id no other has, also when the
\* two critical sections of overlapping requests interleave.
IdsAreDistinct ==
    LET Live == {n \in Numbers : accounts[n] # None}
        Items(list) == {list[i] : i \in DOMAIN list}
        Ups == Items(presets) \cup UNION {Items(UpstreamsOf(n)) : n \in Live}
        Rules == UNION {Items(RulesOf(n)) : n \in Live}
    IN  /\ \A m, n \in Live : accounts[m].account.id = accounts[n].account.id => m = n
        /\ \A n \in Live : \A x \in Items(RulesOf(n)) \cup Items(UpstreamsOf(n)) :
              x.account_id = accounts[n].account.id
        /\ \A x, y \in Ups : x.id = y.id => x = y
        /\ \A x, y \in Rules : x.id = y.id => x = y

\* A client that ends well was told what was stored; one that was refused has
\* stored nothing, and neither has one whose token is not the configured one
\* (auth.rs:18-38, "With no token configured, the API refuses all management
\* requests.").
ExitsAreTrue ==
    \A c \in Clients, n \in Numbers :
        LET Refused == last[c] # None /\ last[c].status >= 400
        IN  /\ exit[c] = "ok" /\ last[c].route = "replace_rules" /\ command[c].number = n =>
                  \E v \in StoredBy(c, n) : versions[n][v].rules = last[c].value
            /\ Refused \/ (command[c] # None /\ command[c].token # api_token) =>
                  StoredBy(c, n) = {}
            /\ Refused => exit[c] = "error"

\* Every command ends, whatever is lost: no request waits for another one.
CommandsEnd == \A c \in Clients : command[c] # None ~> exit[c] # None
=============================================================================
