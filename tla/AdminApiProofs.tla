---------------------------- MODULE AdminApiProofs ----------------------------
(***************************************************************************)
(* Proofs about the management API for any number of accounts, clients,    *)
(* commands and restarts: what the store holds, which ids it gives out,    *)
(* what `rules add` keeps and what an exit status says.                    *)
(***************************************************************************)
EXTENDS AdminApi, TLAPS

-----------------------------------------------------------------------------
(* The inductive invariant: of the store.                                  *)

Version == [rules : Seq(Rule), by : Clients \cup {None}]

StoreTypes ==
    /\ accounts \in [Numbers -> AccountRecord \cup {None}]
    /\ presets = Seeded
    /\ next_account_id \in Nat /\ next_rule_id \in Nat /\ next_upstream_id \in Nat
    /\ Len(PresetBodies) =< next_upstream_id

VersionTypes == versions \in [Numbers -> Seq(Version)]

\* The last version is what the store holds.
LastIsStored ==
    \A n \in Numbers : versions[n] # << >> /\ versions[n][Len(versions[n])].rules = RulesOf(n)

Live == {n \in Numbers : accounts[n] # None}

AccountIds ==
    /\ \A n \in Live : /\ accounts[n].account.account_number = n
                       /\ accounts[n].account.id \in 1..next_account_id
    /\ \A m, n \in Live : accounts[m].account.id = accounts[n].account.id => m = n

RuleIds ==
    /\ \A n \in Live : \A i \in DOMAIN accounts[n].rules :
          /\ accounts[n].rules[i].account_id = accounts[n].account.id
          /\ accounts[n].rules[i].id =< next_rule_id
    /\ \A m, n \in Live : \A i \in DOMAIN accounts[m].rules, j \in DOMAIN accounts[n].rules :
          accounts[m].rules[i].id = accounts[n].rules[j].id => m = n /\ i = j

UpstreamIds ==
    /\ \A n \in Live : \A i \in DOMAIN accounts[n].upstreams :
          /\ accounts[n].upstreams[i].account_id = accounts[n].account.id
          /\ accounts[n].upstreams[i].id \in (Len(PresetBodies) + 1)..next_upstream_id
    /\ \A m, n \in Live :
          \A i \in DOMAIN accounts[m].upstreams, j \in DOMAIN accounts[n].upstreams :
              accounts[m].upstreams[i].id = accounts[n].upstreams[j].id => m = n /\ i = j

StoreInv == StoreTypes /\ AccountIds /\ RuleIds /\ UpstreamIds

-----------------------------------------------------------------------------
(* The inductive invariant: of one client.                                 *)

\* The client has stored no list.
StoredNothing(c) == \A n \in Numbers : StoredBy(c, n) = {}

ClientTypes ==
    /\ DOMAIN command = Clients
    /\ exit \in [Clients -> {None, "ok", "error"}]
    /\ DOMAIN wire = Clients /\ DOMAIN last = Clients
    /\ read_at \in [Clients -> Nat]

\* A client that has not begun has nothing under way, and neither has one
\* that has ended.
Beginning(c) ==
    /\ command[c] \in CommandsOf[c] \cup {None}
    /\ command[c] = None =>
          wire[c] = None /\ exit[c] = None /\ last[c] = None /\ StoredNothing(c)
    /\ wire[c] # None => command[c] # None /\ exit[c] = None

\* The routes a command takes.
Routes(cmd) == IF cmd.op = "add" THEN {"list_rules", "replace_rules"} ELSE {cmd.op}

\* The body is what c read followed by its own rule.
Extends(c, body) ==
    LET list == versions[command[c].number]
    IN  /\ read_at[c] \in DOMAIN list
        /\ body = Append(Contents(list[read_at[c]].rules), NewRule(command[c]))

\* What may be in a request that is to be sent, or served.
Bodies(route) ==
    CASE route = "replace_rules"     -> Seq(RuleBody)
      [] route = "replace_upstreams" -> Seq(UpstreamBodies)

Asking(c) ==
    At(c, "request") =>
        /\ wire[c].route \in Routes(command[c])
        /\ wire[c].number = command[c].number
        /\ StoredNothing(c)
        /\ wire[c].route \in {"replace_rules", "replace_upstreams"} =>
              wire[c].body \in Bodies(wire[c].route) \cup {Junk}
        /\ wire[c].route = "replace_rules" /\ command[c].op = "add" => Extends(c, wire[c].body)

Storing(c) ==
    At(c, "storing") =>
        /\ wire[c].route \in Routes(command[c]) \cap {"replace_rules", "replace_upstreams"}
        /\ wire[c].number = command[c].number
        /\ StoredNothing(c)
        /\ command[c].token = api_token
        /\ accounts[wire[c].number] # None
        /\ wire[c].account_id = accounts[wire[c].number].account.id
        /\ wire[c].body \in Bodies(wire[c].route)
        /\ wire[c].route = "replace_rules" =>
              /\ \A i \in DOMAIN wire[c].body : Acceptable(wire[c].body[i])
              /\ command[c].op = "add" => Extends(c, wire[c].body)

\* What c was told is what the store did.
ToldTruly(c, reply) ==
    /\ command[c].number \in Numbers
    /\ \E v \in StoredBy(c, command[c].number) :
          versions[command[c].number][v].rules = reply.value

Reading(c) ==
    At(c, "reply") =>
        /\ wire[c].route \in Routes(command[c])
        /\ wire[c].status \in {200, 201, 400, 401, 404, 422}
        /\ wire[c].route # "replace_rules" \/ wire[c].status # 200 => StoredNothing(c)
        /\ wire[c].route = "replace_rules" => wire[c].status # 201
        /\ wire[c].route = "replace_rules" /\ wire[c].status = 200 => ToldTruly(c, wire[c])
        /\ command[c].op = "add" /\ wire[c].route = "list_rules" /\ IsSuccess(wire[c].status) =>
              /\ read_at[c] \in DOMAIN versions[command[c].number]
              /\ wire[c].value = versions[command[c].number][read_at[c]].rules

Ended(c) ==
    /\ last[c] # None /\ last[c].status >= 400 => exit[c] = "error" /\ StoredNothing(c)
    /\ exit[c] = "ok" /\ last[c].route = "replace_rules" => ToldTruly(c, last[c])
    /\ exit[c] = "ok" /\ command[c].op = "add" => last[c].route = "replace_rules"
    /\ StoredNothing(c) \/ command[c].token = api_token

\* Every version that c stored.
StoredTruly(c) ==
    \A n \in Numbers : \A v \in StoredBy(c, n) :
        /\ command[c] # None /\ n = command[c].number
        /\ command[c].op \in {"add", "replace_rules"}
        /\ command[c].op = "add" =>
              /\ read_at[c] \in 1..(v - 1)
              /\ Contents(versions[n][v].rules) =
                    Append(Contents(versions[n][read_at[c]].rules), NewRule(command[c]))

ClientInv(c) ==
    Beginning(c) /\ Asking(c) /\ Storing(c) /\ Reading(c) /\ Ended(c) /\ StoredTruly(c)

Clientele == ClientTypes /\ \A c \in Clients : ClientInv(c)

\* Version x of a list ends what its version v promises the `rules add` behind it.
Excused(list, commands, reads, x, v) ==
    LET by == list[x].by
    IN  \/ by = None
        \/ commands[by].op = "replace_rules"
        \/ commands[by].op = "add" /\ reads[by] < v

Stays(list, commands, reads, v, w) ==
    \/ NewRule(commands[list[v].by]) \in ToSet(Contents(list[w].rules))
    \/ \E x \in (v + 1)..w : Excused(list, commands, reads, x, v)

AllStay(list, commands, reads) ==
    \A v, w \in DOMAIN list :
        v < w /\ list[v].by # None /\ commands[list[v].by].op = "add" =>
            Stays(list, commands, reads, v, w)

AdditionsStay == \A n \in Numbers : AllStay(versions[n], command, read_at)

Stored == StoreInv /\ VersionTypes /\ LastIsStored

Inv == Stored /\ Clientele /\ AdditionsStay

-----------------------------------------------------------------------------
(* What the store's operations do to it.                                   *)

\* A rule of a body that passed the validation, under the id the store gives it.
LEMMA StoredRulesType ==
    ASSUME NEW account_id \in Nat, NEW body \in Seq(RuleBody), next_rule_id \in Nat,
           \A i \in DOMAIN body : Acceptable(body[i])
    PROVE  LET out == StoredRules(account_id, body)
           IN  /\ out \in Seq(Rule) /\ Len(out) = Len(body)
               /\ \A i \in 1..Len(body) :
                     out[i].id = next_rule_id + i /\ out[i].account_id = account_id
               /\ Contents(out) = body
<1> DEFINE item(i) == [id |-> next_rule_id + i, account_id |-> account_id, position |-> i - 1,
                       target |-> body[i].target, limit_count |-> body[i].limit_count,
                       enabled |-> body[i].enabled]
           out == StoredRules(account_id, body)
<1>1. out = [i \in 1..Len(body) |-> item(i)]
  BY DEF StoredRules
<1>2. ASSUME NEW i \in 1..Len(body) PROVE item(i) \in Rule
  <2>1. body[i] \in RuleBody /\ Acceptable(body[i])
    OBVIOUS
  <2>2. body[i].target \in GoodTargets /\ body[i].enabled \in BOOLEAN
    BY <2>1 DEF RuleBody, Acceptable
  <2>3. body[i].limit_count \in Nat \cup {None}
    BY <2>1 DEF RuleBody, Acceptable
  <2>4. next_rule_id + i \in Nat /\ i - 1 \in Nat
    OBVIOUS
  <2> QED  BY <2>2, <2>3, <2>4 DEF Rule
<1> HIDE DEF item
<1>3. out \in Seq(Rule) /\ Len(out) = Len(body)
  BY <1>1, <1>2
<1>4. \A i \in 1..Len(body) : out[i] = item(i)
  BY <1>1
<1>5. \A i \in 1..Len(body) : out[i].id = next_rule_id + i /\ out[i].account_id = account_id
  <2> TAKE i \in 1..Len(body)
  <2>1. out[i] = item(i)
    BY <1>4
  <2> HIDE DEF out
  <2> QED  BY <2>1 DEF item
<1>6. Contents(out) = body
  <2>1. \A i \in 1..Len(body) : body[i] \in RuleBody
    OBVIOUS
  <2>2. \A i \in 1..Len(body) :
           [target |-> out[i].target, limit_count |-> out[i].limit_count,
            enabled |-> out[i].enabled] = body[i]
    <3> TAKE i \in 1..Len(body)
    <3>1. out[i] = item(i) /\ body[i] \in RuleBody
      BY <1>4, <2>1
    <3> HIDE DEF out
    <3>2. body[i] = [target |-> body[i].target, limit_count |-> body[i].limit_count,
                     enabled |-> body[i].enabled]
      BY <3>1 DEF RuleBody
    <3> QED  BY <3>1, <3>2 DEF item
  <2>3. DOMAIN out = 1..Len(body) /\ body = [i \in 1..Len(body) |-> body[i]]
    BY <1>1
  <2> HIDE DEF out
  <2> QED  BY <2>2, <2>3 DEF Contents
<1> QED  BY <1>3, <1>5, <1>6

\* An upstream of a body, likewise.
LEMMA StoredUpstreamsType ==
    ASSUME NEW account_id \in Nat, NEW body \in Seq(UpstreamBodies), next_upstream_id \in Nat
    PROVE  LET out == StoredUpstreams(account_id, body)
           IN  /\ out \in Seq(Upstream) /\ Len(out) = Len(body)
               /\ \A i \in 1..Len(body) :
                     out[i].id = next_upstream_id + i /\ out[i].account_id = account_id
<1>1. \A i \in 1..Len(body) :
         [id |-> next_upstream_id + i, account_id |-> account_id, body |-> body[i]] \in Upstream
  BY DEF Upstream
<1> QED  BY <1>1 DEF StoredUpstreams

\* The record of a live account.
LEMMA LiveRecord ==
    ASSUME StoreTypes, NEW n \in Live
    PROVE  /\ n \in Numbers /\ accounts[n] \in AccountRecord
           /\ accounts[n].rules \in Seq(Rule) /\ accounts[n].upstreams \in Seq(Upstream)
           /\ accounts[n].account.id \in Nat
           /\ RulesOf(n) = accounts[n].rules /\ UpstreamsOf(n) = accounts[n].upstreams
BY DEF StoreTypes, Live, AccountRecord, RulesOf, UpstreamsOf

\* get_or_create leaves an account there, and every other one as it was.
LEMMA CreateKeeps ==
    ASSUME NEW n \in Numbers, Stored, get_or_create(n),
           UNCHANGED <<presets, next_rule_id, next_upstream_id, versions>>
    PROVE  /\ Stored'
           /\ accounts'[n] # None
           /\ \A m \in Numbers : accounts[m] # None => accounts'[m] = accounts[m]
<1> USE DEF Stored
<1>1. CASE accounts[n] # None
  <2>1. UNCHANGED store
    BY <1>1 DEF get_or_create, store
  <2> QED  BY <1>1, <2>1 DEF store, StoreInv, StoreTypes, AccountIds, RuleIds, UpstreamIds, Live,
              VersionTypes, LastIsStored, RulesOf
<1>2. CASE accounts[n] = None
  <2> DEFINE id  == next_account_id + 1
             new == [account |-> AccountOf(n, id), rules |-> << >>, upstreams |-> << >>]
  <2>1. next_account_id' = id /\ accounts' = [accounts EXCEPT ![n] = new]
    BY <1>2 DEF get_or_create
  <2>2. id \in Nat /\ new \in AccountRecord
    BY DEF StoreInv, StoreTypes, AccountRecord, AccountOf
  <2>3. /\ new # None /\ new.account.id = id /\ new.account.account_number = n
        /\ new.rules = << >> /\ new.upstreams = << >>
    BY <2>2, NoneIsDistinct DEF AccountOf
  <2> HIDE DEF new
  <2>4. accounts'[n] = new /\ \A m \in Numbers \ {n} : accounts'[m] = accounts[m]
    BY <2>1 DEF StoreInv, StoreTypes
  <2>5. StoreTypes'
    BY <2>1, <2>2, Zenon DEF StoreInv, StoreTypes
  <2>6. Live' = Live \cup {n}
    BY <2>3, <2>4 DEF Live
  <2>7. AccountIds'
    <3>1. next_account_id \in Nat /\ next_account_id' = next_account_id + 1
      BY <2>1 DEF StoreInv, StoreTypes
    <3>2. \A m \in Live : m # n /\ m \in Numbers
      BY <1>2 DEF Live
    <3>3. \A m \in Live : /\ accounts'[m] = accounts[m]
                          /\ accounts[m].account.account_number = m
                          /\ accounts[m].account.id \in 1..next_account_id
      BY <2>4, <3>2 DEF StoreInv, AccountIds
    <3>4. accounts'[n].account.id = next_account_id + 1
          /\ accounts'[n].account.account_number = n
      BY <2>3, <2>4
    <3>5. \A m \in Live' : /\ accounts'[m].account.account_number = m
                           /\ accounts'[m].account.id \in 1..next_account_id'
      BY <2>6, <3>1, <3>3, <3>4
    <3>6. \A l, m \in Live : accounts[m].account.id = accounts[l].account.id => m = l
      BY DEF StoreInv, AccountIds
    <3>7. \A l, m \in Live' : accounts'[m].account.id = accounts'[l].account.id => m = l
      BY <2>6, <3>1, <3>3, <3>4, <3>6
    <3> QED  BY <3>5, <3>7 DEF AccountIds
  <2>8. RuleIds'
    BY <2>3, <2>4, <2>6, <1>2 DEF StoreInv, RuleIds, Live
  <2>9. UpstreamIds'
    BY <2>3, <2>4, <2>6, <1>2 DEF StoreInv, UpstreamIds, Live
  <2>10. LastIsStored'
    <3>1. RulesOf(n)' = << >> /\ RulesOf(n) = << >>
      BY <1>2, <2>3, <2>4 DEF RulesOf
    <3>2. \A m \in Numbers \ {n} : RulesOf(m)' = RulesOf(m)
      BY <2>4 DEF RulesOf
    <3> QED  BY <3>1, <3>2 DEF LastIsStored
  <2>11. VersionTypes'
    BY DEF VersionTypes
  <2> QED  BY <1>2, <2>3, <2>4, <2>5, <2>7, <2>8, <2>9, <2>10, <2>11 DEF StoreInv
<1> QED  BY <1>1, <1>2

\* FinishReplaceRules on a request that get_or_create has prepared.
LEMMA ReplaceRulesKeeps ==
    ASSUME NEW c \in Clients, Stored, Storing(c), CommandsAssumption,
           command[c] \in CommandsOf[c], FinishReplaceRules(c)
    PROVE  LET n == wire[c].number  out == StoredRules(wire[c].account_id, wire[c].body)
           IN  /\ Stored'
               /\ n \in Numbers /\ n = command[c].number
               /\ \A m \in Numbers : accounts[m] # None =>
                     accounts'[m] # None /\ accounts'[m].account = accounts[m].account
               /\ versions' = [versions EXCEPT ![n] = Append(@, [rules |-> out, by |-> c])]
               /\ out \in Seq(Rule) /\ Contents(out) = wire[c].body
<1> DEFINE n == wire[c].number
           body == wire[c].body
           id == wire[c].account_id
           out == StoredRules(id, body)
           version == [rules |-> out, by |-> c]
<1> USE DEF Stored, StoreInv
<1>1. /\ n = command[c].number /\ accounts[n] # None /\ id = accounts[n].account.id
      /\ body \in Seq(RuleBody) /\ \A i \in DOMAIN body : Acceptable(body[i])
      /\ command[c].op \in {"add", "replace_rules"}
  BY DEF FinishReplaceRules, Storing, Bodies, Routes
<1>2. n \in Numbers /\ n \in Live
  BY <1>1, CommandsAssumption DEF Live
<1>3. /\ accounts[n] \in AccountRecord /\ id \in Nat /\ next_rule_id \in Nat
  BY <1>1, <1>2, LiveRecord DEF StoreTypes
<1>4. /\ out \in Seq(Rule) /\ Len(out) = Len(body) /\ Contents(out) = body
      /\ \A i \in 1..Len(body) : out[i].id = next_rule_id + i /\ out[i].account_id = id
  <2> HIDE DEF n, body, id
  <2> QED  BY <1>1, <1>3, StoredRulesType
<1>5. /\ accounts' = [accounts EXCEPT ![n].rules = out]
      /\ versions' = [versions EXCEPT ![n] = Append(@, version)]
      /\ next_rule_id' = next_rule_id + Len(body)
      /\ UNCHANGED <<presets, next_account_id, next_upstream_id>>
  BY DEF FinishReplaceRules
<1>6. Len(body) \in Nat
  BY <1>1
<1> HIDE DEF out, body, id, n
<1>7. PICK new : /\ new = [accounts[n] EXCEPT !.rules = out]
  OBVIOUS
<1>8. /\ new \in AccountRecord /\ new.rules = out /\ new # None
      /\ new.account = accounts[n].account /\ new.upstreams = accounts[n].upstreams
  <2>1. new \in AccountRecord
    BY <1>3, <1>4, <1>7 DEF AccountRecord
  <2> QED  BY <1>3, <1>7, <2>1, NoneIsDistinct DEF AccountRecord
<1>9. accounts'[n] = new /\ \A m \in Numbers \ {n} : accounts'[m] = accounts[m]
  BY <1>2, <1>5, <1>7 DEF StoreTypes
<1>10. accounts' \in [Numbers -> AccountRecord \cup {None}]
  <2>1. accounts' = [accounts EXCEPT ![n] = new]
    BY <1>5, <1>7
  <2> QED  BY <1>2, <1>8, <2>1 DEF StoreTypes
<1>11. Live' = Live
  BY <1>2, <1>8, <1>9 DEF Live
<1>12. StoreTypes'
  BY <1>5, <1>6, <1>10, <1>3 DEF StoreTypes, Seeded
<1>13. AccountIds'
  <2>1. \A m \in Live : accounts'[m].account = accounts[m].account
    BY <1>8, <1>9 DEF Live
  <2> QED  BY <1>5, <1>11, <2>1 DEF AccountIds
<1>14. RuleIds'
  <2>1. next_rule_id' >= next_rule_id
    BY <1>3, <1>5, <1>6
  <2>2. \A m \in Live \ {n} : accounts'[m] = accounts[m]
    BY <1>9 DEF Live
  <2>3. accounts'[n].rules = out /\ accounts'[n].account = accounts[n].account
    BY <1>8, <1>9
  <2>4. DOMAIN out = 1..Len(body)
    BY <1>4
  <2>5. \A i \in DOMAIN out : /\ out[i].id = next_rule_id + i
                              /\ out[i].account_id = accounts[n].account.id
    BY <1>1, <1>4, <2>4
  <2>6. \A i \in DOMAIN out : out[i].id > next_rule_id /\ out[i].id =< next_rule_id'
    BY <1>3, <1>5, <1>6, <2>4, <2>5
  <2>7. \A m \in Live : \A i \in DOMAIN accounts[m].rules :
           accounts[m].rules[i].account_id = accounts[m].account.id
           /\ accounts[m].rules[i].id \in Nat /\ accounts[m].rules[i].id =< next_rule_id
    <3> TAKE m \in Live
    <3> TAKE i \in DOMAIN accounts[m].rules
    <3>1. accounts[m].rules[i] \in Rule
      BY LiveRecord
    <3> QED  BY <3>1 DEF RuleIds, Rule
  <2>8. \A m \in Live : \A i \in DOMAIN accounts'[m].rules :
          /\ accounts'[m].rules[i].account_id = accounts'[m].account.id
          /\ accounts'[m].rules[i].id =< next_rule_id'
    <3> TAKE m \in Live
    <3>1. CASE m = n
      BY <2>3, <2>5, <2>6, <3>1
    <3>2. CASE m # n
      BY <1>3, <1>5, <1>6, <2>2, <2>7, <3>2
    <3> QED  BY <3>1, <3>2
  <2>9. ASSUME NEW l \in Live, NEW m \in Live,
               NEW i \in DOMAIN accounts'[l].rules, NEW j \in DOMAIN accounts'[m].rules,
               accounts'[l].rules[i].id = accounts'[m].rules[j].id
        PROVE  l = m /\ i = j
    <3>1. CASE l = n /\ m = n
      BY <1>3, <2>3, <2>4, <2>5, <2>9, <3>1
    <3>2. CASE l = n /\ m # n
      BY <1>3, <2>2, <2>3, <2>6, <2>7, <2>9, <3>2
    <3>3. CASE l # n /\ m = n
      BY <1>3, <2>2, <2>3, <2>6, <2>7, <2>9, <3>3
    <3>4. CASE l # n /\ m # n
      BY <2>2, <2>9, <3>4 DEF RuleIds
    <3> QED  BY <3>1, <3>2, <3>3, <3>4
  <2> QED  BY <1>11, <2>8, <2>9 DEF RuleIds
<1>15. UpstreamIds'
  <2>1. \A m \in Live : accounts'[m].upstreams = accounts[m].upstreams
                        /\ accounts'[m].account = accounts[m].account
    BY <1>8, <1>9 DEF Live
  <2> QED  BY <1>5, <1>11, <2>1 DEF UpstreamIds
<1>16. version \in Version
  BY <1>4 DEF Version
<1>17. VersionTypes'
  BY <1>2, <1>5, <1>16 DEF VersionTypes
<1>18. LastIsStored'
  <2>1. PICK k, v : k = n /\ v = version
    OBVIOUS
  <2>2. RulesOf(k)' = out
    BY <1>8, <1>9, <2>1 DEF RulesOf
  <2>3. \A m \in Numbers \ {k} : RulesOf(m)' = RulesOf(m) /\ versions'[m] = versions[m]
    BY <1>5, <1>9, <2>1 DEF RulesOf, VersionTypes
  <2>4. versions'[k] # << >> /\ versions'[k][Len(versions'[k])] = v
    <3>1. versions'[k] = Append(versions[k], v) /\ versions[k] \in Seq(Version)
      BY <1>2, <1>5, <2>1 DEF VersionTypes
    <3>2. v \in Version
      BY <1>16, <2>1
    <3> QED  BY <3>1, <3>2
  <2>5. v.rules = out
    BY <2>1
  <2> QED  BY <2>2, <2>3, <2>4, <2>5 DEF LastIsStored
<1>19. \A m \in Numbers : accounts[m] # None =>
          accounts'[m] # None /\ accounts'[m].account = accounts[m].account
  BY <1>8, <1>9
<1> QED  BY <1>1, <1>2, <1>4, <1>5, <1>12, <1>13, <1>14, <1>15, <1>17, <1>18, <1>19
         DEF n, body, id, out

\* FinishReplaceUpstreams, likewise.
LEMMA ReplaceUpstreamsKeeps ==
    ASSUME NEW c \in Clients, Stored, Storing(c), CommandsAssumption,
           command[c] \in CommandsOf[c], FinishReplaceUpstreams(c)
    PROVE  /\ Stored'
           /\ \A m \in Numbers : accounts[m] # None =>
                 accounts'[m] # None /\ accounts'[m].account = accounts[m].account
<1> DEFINE n == wire[c].number
           body == wire[c].body
           id == wire[c].account_id
           out == StoredUpstreams(id, body)
           first == Len(PresetBodies) + 1
<1> USE DEF Stored, StoreInv
<1>1. /\ n = command[c].number /\ accounts[n] # None /\ id = accounts[n].account.id
      /\ body \in Seq(UpstreamBodies) /\ command[c].op = "replace_upstreams"
  BY DEF FinishReplaceUpstreams, Storing, Bodies, Routes
<1>2. n \in Numbers /\ n \in Live
  BY <1>1, CommandsAssumption DEF Live
<1>3. /\ accounts[n] \in AccountRecord /\ id \in Nat /\ next_upstream_id \in Nat
      /\ first \in Nat /\ first =< next_upstream_id + 1
  BY <1>1, <1>2, LiveRecord, AdminAssumption DEF StoreTypes
<1>4. /\ out \in Seq(Upstream) /\ Len(out) = Len(body)
      /\ \A i \in 1..Len(body) : out[i].id = next_upstream_id + i /\ out[i].account_id = id
  <2> HIDE DEF n, body, id
  <2> QED  BY <1>1, <1>3, StoredUpstreamsType
<1>5. /\ accounts' = [accounts EXCEPT ![n].upstreams = out]
      /\ next_upstream_id' = next_upstream_id + Len(body)
      /\ UNCHANGED <<presets, next_account_id, next_rule_id, versions>>
  BY DEF FinishReplaceUpstreams
<1>6. Len(body) \in Nat
  BY <1>1
<1> HIDE DEF out, body, id, n
<1>7. PICK new : /\ new = [accounts[n] EXCEPT !.upstreams = out]
  OBVIOUS
<1>8. /\ new \in AccountRecord /\ new.upstreams = out /\ new # None
      /\ new.account = accounts[n].account /\ new.rules = accounts[n].rules
  <2>1. new \in AccountRecord
    BY <1>3, <1>4, <1>7 DEF AccountRecord
  <2> QED  BY <1>3, <1>7, <2>1, NoneIsDistinct DEF AccountRecord
<1>9. accounts'[n] = new /\ \A m \in Numbers \ {n} : accounts'[m] = accounts[m]
  BY <1>2, <1>5, <1>7 DEF StoreTypes
<1>10. accounts' \in [Numbers -> AccountRecord \cup {None}]
  <2>1. accounts' = [accounts EXCEPT ![n] = new]
    BY <1>5, <1>7
  <2> QED  BY <1>2, <1>8, <2>1 DEF StoreTypes
<1>11. Live' = Live
  BY <1>2, <1>8, <1>9 DEF Live
<1>12. StoreTypes'
  BY <1>5, <1>6, <1>10, <1>3, AdminAssumption DEF StoreTypes, Seeded
<1>13. AccountIds'
  <2>1. \A m \in Live : accounts'[m].account = accounts[m].account
    BY <1>8, <1>9 DEF Live
  <2> QED  BY <1>5, <1>11, <2>1 DEF AccountIds
<1>14. UpstreamIds'
  <2>1. next_upstream_id' >= next_upstream_id
    BY <1>3, <1>5, <1>6
  <2>2. \A m \in Live \ {n} : accounts'[m] = accounts[m]
    BY <1>9 DEF Live
  <2>3. accounts'[n].upstreams = out /\ accounts'[n].account = accounts[n].account
    BY <1>8, <1>9
  <2>4. DOMAIN out = 1..Len(body)
    BY <1>4
  <2>5. \A i \in DOMAIN out : /\ out[i].id = next_upstream_id + i
                              /\ out[i].account_id = accounts[n].account.id
    BY <1>1, <1>4, <2>4
  <2> HIDE DEF first
  <2>6. \A i \in DOMAIN out : out[i].id > next_upstream_id /\ out[i].id \in first..next_upstream_id'
    BY <1>3, <1>5, <1>6, <2>4, <2>5
  <2>7. \A m \in Live : \A i \in DOMAIN accounts[m].upstreams :
           accounts[m].upstreams[i].account_id = accounts[m].account.id
           /\ accounts[m].upstreams[i].id \in first..next_upstream_id
    BY DEF UpstreamIds, first
  <2>8. \A m \in Live : \A i \in DOMAIN accounts'[m].upstreams :
          /\ accounts'[m].upstreams[i].account_id = accounts'[m].account.id
          /\ accounts'[m].upstreams[i].id \in first..next_upstream_id'
    <3> TAKE m \in Live
    <3>1. CASE m = n
      BY <2>3, <2>5, <2>6, <3>1
    <3>2. CASE m # n
      BY <1>3, <1>5, <1>6, <2>2, <2>7, <3>2
    <3> QED  BY <3>1, <3>2
  <2>9. ASSUME NEW l \in Live, NEW m \in Live,
               NEW i \in DOMAIN accounts'[l].upstreams, NEW j \in DOMAIN accounts'[m].upstreams,
               accounts'[l].upstreams[i].id = accounts'[m].upstreams[j].id
        PROVE  l = m /\ i = j
    <3>1. CASE l = n /\ m = n
      BY <1>3, <2>3, <2>4, <2>5, <2>9, <3>1
    <3>2. CASE l = n /\ m # n
      BY <1>3, <2>2, <2>3, <2>6, <2>7, <2>9, <3>2
    <3>3. CASE l # n /\ m = n
      BY <1>3, <2>2, <2>3, <2>6, <2>7, <2>9, <3>3
    <3>4. CASE l # n /\ m # n
      BY <2>2, <2>9, <3>4 DEF UpstreamIds
    <3> QED  BY <3>1, <3>2, <3>3, <3>4
  <2> QED  BY <1>11, <2>8, <2>9 DEF UpstreamIds, first
<1>15. RuleIds'
  <2>1. \A m \in Live : accounts'[m].rules = accounts[m].rules
                        /\ accounts'[m].account = accounts[m].account
    BY <1>8, <1>9 DEF Live
  <2> QED  BY <1>5, <1>11, <2>1 DEF RuleIds
<1>16. LastIsStored'
  <2>1. PICK k : k = n
    OBVIOUS
  <2>2. RulesOf(k)' = RulesOf(k)
    BY <1>1, <1>8, <1>9, <2>1 DEF RulesOf
  <2>3. \A m \in Numbers \ {k} : RulesOf(m)' = RulesOf(m)
    BY <1>9, <2>1 DEF RulesOf
  <2> QED  BY <1>5, <2>2, <2>3 DEF LastIsStored
<1>17. VersionTypes'
  BY <1>5 DEF VersionTypes
<1>18. \A m \in Numbers : accounts[m] # None =>
          accounts'[m] # None /\ accounts'[m].account = accounts[m].account
  BY <1>8, <1>9
<1> QED  BY <1>12, <1>13, <1>14, <1>15, <1>16, <1>17, <1>18

\* What the built-in upstreams look like.
LEMMA SeededType ==
    /\ Seeded \in Seq(Upstream) /\ Len(Seeded) = Len(PresetBodies)
    /\ \A i \in DOMAIN Seeded : Seeded[i].id = i
<1>1. \A i \in 1..Len(PresetBodies) :
         [id |-> i, account_id |-> None, body |-> PresetBodies[i]] \in Upstream
  BY AdminAssumption DEF Upstream
<1> QED  BY <1>1, AdminAssumption DEF Seeded

\* A restart ends every list that is not empty, and starts with nothing.
LEMMA RestartKeeps ==
    ASSUME Stored, Restart
    PROVE  /\ Stored'
           /\ \A n \in Numbers :
                 \/ versions'[n] = versions[n]
                 \/ versions'[n] = Append(versions[n], [rules |-> << >>, by |-> None])
<1> USE DEF Stored, StoreInv
<1>1. /\ \A n \in Numbers : accounts'[n] = None
      /\ accounts' \in [Numbers -> {None}]
      /\ presets' = Seeded
      /\ next_account_id' = 0 /\ next_rule_id' = 0 /\ next_upstream_id' = Len(PresetBodies)
  BY AdminAssumption DEF Restart, Defaults, AfterPresets
<1>2. \A n \in Numbers :
         \/ versions'[n] = versions[n] /\ RulesOf(n) = << >>
         \/ versions'[n] = Append(versions[n], [rules |-> << >>, by |-> None])
  BY DEF Restart
<1>3. StoreTypes'
  BY <1>1, AdminAssumption DEF StoreTypes, Seeded
<1>4. Live' = {}
  BY <1>1 DEF Live
<1>5. AccountIds' /\ RuleIds' /\ UpstreamIds'
  BY <1>4 DEF AccountIds, RuleIds, UpstreamIds
<1>6. [rules |-> << >>, by |-> None] \in Version
  BY DEF Version
<1>7. VersionTypes'
  <2>1. \A n \in Numbers : versions'[n] \in Seq(Version)
    <3> TAKE n \in Numbers
    <3>1. versions[n] \in Seq(Version)
      BY DEF VersionTypes
    <3> QED  BY <1>2, <1>6, <3>1
  <2>2. versions' = [n \in Numbers |-> versions'[n]]
    BY DEF Restart
  <2> QED  BY <2>1, <2>2 DEF VersionTypes
<1>8. LastIsStored'
  <2>1. \A n \in Numbers : RulesOf(n)' = << >>
    BY <1>1 DEF RulesOf
  <2>2. ASSUME NEW n \in Numbers
        PROVE  versions'[n] # << >> /\ versions'[n][Len(versions'[n])].rules = << >>
    <3>1. PICK v : v = [rules |-> << >>, by |-> None]
      OBVIOUS
    <3>2. versions[n] \in Seq(Version) /\ v \in Version /\ v.rules = << >>
      BY <1>6, <3>1 DEF VersionTypes
    <3>3. CASE versions'[n] = versions[n] /\ RulesOf(n) = << >>
      BY <3>3 DEF LastIsStored
    <3>4. CASE versions'[n] = Append(versions[n], v)
      BY <3>2, <3>4
    <3> QED  BY <1>2, <3>1, <3>3, <3>4
  <2> QED  BY <2>1, <2>2 DEF LastIsStored
<1> QED  BY <1>2, <1>3, <1>5, <1>7, <1>8

-----------------------------------------------------------------------------
(* What a step leaves of the history and of the clients it is not about.   *)

\* Versions are only added, and none of those added is c's.
Extended(c) ==
    \A n \in Numbers :
        /\ DOMAIN versions[n] \subseteq DOMAIN versions'[n]
        /\ \A v \in DOMAIN versions[n] : versions'[n][v] = versions[n][v]
        /\ \A v \in DOMAIN versions'[n] : versions'[n][v].by = c => v \in DOMAIN versions[n]

AccountsKept ==
    \A m \in Numbers : accounts[m] # None =>
        accounts'[m] # None /\ accounts'[m].account = accounts[m].account

Untouched(c) ==
    /\ command'[c] = command[c] /\ wire'[c] = wire[c] /\ exit'[c] = exit[c]
    /\ last'[c] = last[c] /\ read_at'[c] = read_at[c]

\* A version at the end of a list leaves those before it.
LEMMA AppendExtends ==
    ASSUME VersionTypes, NEW c \in Clients,
           \A n \in Numbers :
              \/ versions'[n] = versions[n]
              \/ \E new \in Version : new.by # c /\ versions'[n] = Append(versions[n], new)
    PROVE  Extended(c)
<1> SUFFICES ASSUME NEW n \in Numbers
             PROVE  /\ DOMAIN versions[n] \subseteq DOMAIN versions'[n]
                    /\ \A v \in DOMAIN versions[n] : versions'[n][v] = versions[n][v]
                    /\ \A v \in DOMAIN versions'[n] :
                          versions'[n][v].by = c => v \in DOMAIN versions[n]
  BY DEF Extended
<1>1. CASE versions'[n] = versions[n]
  BY <1>1
<1>2. CASE \E new \in Version : new.by # c /\ versions'[n] = Append(versions[n], new)
  <2>1. PICK new \in Version : new.by # c /\ versions'[n] = Append(versions[n], new)
    BY <1>2
  <2>2. versions[n] \in Seq(Version)
    BY DEF VersionTypes
  <2>3. /\ DOMAIN versions'[n] = DOMAIN versions[n] \cup {Len(versions[n]) + 1}
        /\ versions'[n][Len(versions[n]) + 1] = new
        /\ \A v \in DOMAIN versions[n] : versions'[n][v] = versions[n][v]
    BY <2>1, <2>2
  <2> QED  BY <2>1, <2>3
<1> QED  BY <1>1, <1>2

\* What c has stored stays what c has stored.
LEMMA StoredByKept ==
    ASSUME NEW c \in Clients, Extended(c)
    PROVE  /\ \A n \in Numbers : StoredBy(c, n)' = StoredBy(c, n)
           /\ StoredNothing(c)' <=> StoredNothing(c)
<1>1. \A n \in Numbers : StoredBy(c, n)' = StoredBy(c, n)
  BY DEF Extended, StoredBy
<1> QED  BY <1>1 DEF StoredNothing

\* What c read stays what c read.
LEMMA ExtendsKept ==
    ASSUME NEW c \in Clients, NEW body, Extended(c), Extends(c, body),
           command[c].number \in Numbers,
           command'[c] = command[c], read_at'[c] = read_at[c]
    PROVE  Extends(c, body)'
<1>1. PICK n \in Numbers : n = command[c].number
  OBVIOUS
<1>2. PICK r : r = read_at[c]
  OBVIOUS
<1>3. versions'[n][r] = versions[n][r] /\ r \in DOMAIN versions'[n]
  BY <1>1, <1>2 DEF Extended, Extends
<1>4. Contents(versions'[n][r].rules) = Contents(versions[n][r].rules)
  BY <1>3
<1> QED  BY <1>1, <1>2, <1>3, <1>4 DEF Extends, Contents

LEMMA ToldTrulyKept ==
    ASSUME NEW c \in Clients, NEW reply, Extended(c), ToldTruly(c, reply),
           command'[c] = command[c]
    PROVE  ToldTruly(c, reply)'
<1>1. PICK n \in Numbers : n = command[c].number
  BY DEF ToldTruly
<1>2. PICK v \in StoredBy(c, n) : versions[n][v].rules = reply.value
  BY <1>1 DEF ToldTruly
<1>3. v \in StoredBy(c, n)'
  BY StoredByKept
<1>4. versions'[n][v].rules = reply.value
  BY <1>2 DEF Extended, StoredBy
<1> QED  BY <1>1, <1>3, <1>4 DEF ToldTruly

\* What the versions of c are stays true of them.
LEMMA StoredTrulyKept ==
    ASSUME NEW c \in Clients, Extended(c), VersionTypes, StoredTruly(c),
           command'[c] = command[c], read_at'[c] = read_at[c] \/ StoredNothing(c)
    PROVE  StoredTruly(c)'
<1> SUFFICES ASSUME NEW n \in Numbers, NEW v \in StoredBy(c, n)'
             PROVE  /\ command'[c] # None /\ n = command'[c].number
                    /\ command'[c].op \in {"add", "replace_rules"}
                    /\ command'[c].op = "add" =>
                          /\ read_at'[c] \in 1..(v - 1)
                          /\ Contents(versions'[n][v].rules) =
                                Append(Contents(versions'[n][read_at'[c]].rules),
                                       NewRule(command'[c]))
  BY Zenon DEF StoredTruly, Contents, NewRule
<1>1. v \in StoredBy(c, n) /\ read_at'[c] = read_at[c]
  BY StoredByKept DEF StoredNothing
<1>2. /\ command[c] # None /\ n = command[c].number
      /\ command[c].op \in {"add", "replace_rules"}
      /\ command[c].op = "add" =>
            /\ read_at[c] \in 1..(v - 1)
            /\ Contents(versions[n][v].rules) =
                  Append(Contents(versions[n][read_at[c]].rules), NewRule(command[c]))
  BY <1>1, Zenon DEF StoredTruly
<1>3. v \in DOMAIN versions[n] /\ DOMAIN versions[n] = 1..Len(versions[n]) /\ Len(versions[n]) \in Nat
  BY <1>1 DEF StoredBy, VersionTypes
<1>4. versions'[n][v] = versions[n][v]
  BY <1>3 DEF Extended
<1>5. CASE command[c].op = "add"
  <2>1. read_at[c] \in DOMAIN versions[n]
    <3>1. PICK k, r : k = Len(versions[n]) /\ r = read_at[c]
      OBVIOUS
    <3>2. r \in 1..(v - 1) /\ v \in 1..k /\ k \in Nat
      BY <1>2, <1>3, <1>5, <3>1
    <3>3. r \in 1..k
      BY <3>2
    <3> QED  BY <1>3, <3>1, <3>3
  <2>2. versions'[n][read_at[c]] = versions[n][read_at[c]]
    BY <2>1 DEF Extended
  <2> QED  BY <1>1, <1>2, <1>4, <2>2
<1>6. CASE command[c].op # "add"
  BY <1>2, <1>6
<1> QED  BY <1>5, <1>6

\* The account a command is about, where it has one.
LEMMA CommandNumber ==
    ASSUME NEW c \in Clients, command[c] \in CommandsOf[c],
           command[c].op \notin {"healthz", "create_account", "list_presets"}
    PROVE  command[c].number \in Numbers
BY CommandsAssumption

\* A client that a step is not about.
LEMMA OtherClient ==
    ASSUME NEW c \in Clients, VersionTypes, ClientInv(c), Untouched(c), Extended(c),
           AccountsKept, api_token' = api_token
    PROVE  ClientInv(c)'
<1>0. /\ Beginning(c) /\ Asking(c) /\ Storing(c) /\ Reading(c) /\ Ended(c) /\ StoredTruly(c)
      /\ command'[c] = command[c] /\ wire'[c] = wire[c] /\ exit'[c] = exit[c]
      /\ last'[c] = last[c] /\ read_at'[c] = read_at[c]
  BY DEF ClientInv, Untouched
<1>1. StoredNothing(c)' <=> StoredNothing(c)
  BY StoredByKept
<1>2. Beginning(c)'
  BY <1>0, <1>1 DEF Beginning
<1>3. ASSUME NEW body, Extends(c, body), command[c] \in CommandsOf[c], command[c].op = "add"
      PROVE  Extends(c, body)'
  BY <1>0, <1>3, CommandNumber, ExtendsKept
<1>4. ASSUME NEW reply, ToldTruly(c, reply) PROVE ToldTruly(c, reply)'
  BY <1>0, <1>4, ToldTrulyKept
<1>5. Asking(c)'
  <2> SUFFICES ASSUME At(c, "request")' PROVE Asking(c)'
    BY DEF Asking
  <2>1. At(c, "request") /\ command[c] \in CommandsOf[c]
    BY <1>0 DEF At, Beginning
  <2>2. PICK w : w = wire[c]
    OBVIOUS
  <2>3. w.route = "replace_rules" /\ command[c].op = "add" => Extends(c, w.body)'
    BY <1>0, <1>3, <2>1, <2>2 DEF Asking
  <2> QED  BY <1>0, <1>1, <2>1, <2>2, <2>3 DEF Asking, Routes, Bodies
<1>6. Storing(c)'
  <2> SUFFICES ASSUME At(c, "storing")' PROVE Storing(c)'
    BY DEF Storing
  <2>1. At(c, "storing") /\ command[c] \in CommandsOf[c]
    BY <1>0 DEF At, Beginning
  <2>2. PICK w : w = wire[c]
    OBVIOUS
  <2>3. w.route = "replace_rules" /\ command[c].op = "add" => Extends(c, w.body)'
    BY <1>0, <1>3, <2>1, <2>2 DEF Storing
  <2>4. w.number \in Numbers
    BY <1>0, <2>1, <2>2, CommandNumber DEF Storing, Routes
  <2>5. accounts'[w.number] # None /\ w.account_id = accounts'[w.number].account.id
    BY <1>0, <2>1, <2>2, <2>4 DEF Storing, AccountsKept
  <2> QED  BY <1>0, <1>1, <2>1, <2>2, <2>3, <2>5 DEF Storing, Routes, Bodies, Acceptable
<1>7. Reading(c)'
  <2> SUFFICES ASSUME At(c, "reply")' PROVE Reading(c)'
    BY DEF Reading
  <2>1. At(c, "reply") /\ command[c] \in CommandsOf[c]
    BY <1>0 DEF At, Beginning
  <2>2. PICK w : w = wire[c]
    OBVIOUS
  <2>3. w.route = "replace_rules" /\ w.status = 200 => ToldTruly(c, w)'
    BY <1>0, <1>4, <2>1, <2>2 DEF Reading
  <2>4. ASSUME command[c].op = "add", w.route = "list_rules", IsSuccess(w.status)
        PROVE  /\ read_at'[c] \in DOMAIN versions'[command[c].number]
               /\ w.value = versions'[command[c].number][read_at'[c]].rules
    BY <1>0, <2>1, <2>2, <2>4, CommandNumber DEF Reading, Extended
  <2> QED  BY <1>0, <1>1, <2>1, <2>2, <2>3, <2>4 DEF Reading, Routes
<1>8. Ended(c)'
  <2>1. PICK l : l = last[c]
    OBVIOUS
  <2>2. exit[c] = "ok" /\ l.route = "replace_rules" => ToldTruly(c, l)'
    <3> SUFFICES ASSUME exit[c] = "ok", l.route = "replace_rules" PROVE ToldTruly(c, l)'
      OBVIOUS
    <3>1. ToldTruly(c, l)
      BY <1>0, <2>1 DEF Ended
    <3> QED  BY <1>0, <3>1, ToldTrulyKept
  <2> QED  BY <1>0, <1>1, <2>1, <2>2 DEF Ended
<1>9. StoredTruly(c)'
  BY <1>0, StoredTrulyKept
<1> QED  BY <1>2, <1>5, <1>6, <1>7, <1>8, <1>9 DEF ClientInv

-----------------------------------------------------------------------------
(* What a step does to the client it is about.                             *)

\* c is answered, and nothing was stored for it.
LEMMA Answered ==
    ASSUME NEW c \in Clients, ClientTypes, ClientInv(c), Extended(c),
           NEW status, NEW value, Respond(c, status, value),
           UNCHANGED <<command, exit, last, api_token>>,
           wire[c] # None, wire[c].route \in Routes(command[c]), StoredNothing(c),
           status \in {200, 201, 400, 401, 404, 422},
           wire[c].route = "replace_rules" => status \notin {200, 201},
           command[c].op = "add" /\ wire[c].route = "list_rules" /\ IsSuccess(status) =>
              /\ read_at'[c] \in DOMAIN versions'[command[c].number]
              /\ value = versions'[command[c].number][read_at'[c]].rules
    PROVE  ClientInv(c)'
<1>1. /\ wire'[c].stage = "reply" /\ wire'[c].route = wire[c].route
      /\ wire'[c].status = status /\ wire'[c].value = value
  BY DEF Respond, ClientTypes
<1>2. StoredNothing(c)'
  BY StoredByKept
<1>3. Beginning(c) /\ Ended(c) /\ command[c] \in CommandsOf[c] /\ command[c] # None
  BY DEF ClientInv, Beginning
<1>4. Beginning(c)'
  BY <1>3 DEF Beginning
<1>5. Asking(c)' /\ Storing(c)'
  BY <1>1 DEF Asking, Storing, At
<1>6. Reading(c)'
  BY <1>1, <1>2 DEF Reading, Routes
<1>7. Ended(c)'
  <2>1. PICK l : l = last[c]
    OBVIOUS
  <2>2. exit[c] = "ok" /\ l.route = "replace_rules" => ToldTruly(c, l)'
    BY <1>3, <2>1, ToldTrulyKept DEF Ended
  <2> QED  BY <1>2, <1>3, <2>1, <2>2 DEF Ended
<1>8. StoredTruly(c)'
  BY <1>2 DEF StoredTruly, StoredNothing
<1> QED  BY <1>4, <1>5, <1>6, <1>7, <1>8 DEF ClientInv

\* get_or_create has made the account, and c's handler waits for the lock again.
LEMMA Prepared ==
    ASSUME NEW c \in Clients, NEW route \in {"replace_rules", "replace_upstreams"},
           ClientTypes, ClientInv(c), StoreTypes', Extended(c), versions' = versions,
           Serving(c, route),
           wire[c].body # Junk,
           route = "replace_rules" => \A i \in DOMAIN wire[c].body : Acceptable(wire[c].body[i]),
           accounts'[wire[c].number] # None,
           wire' = [wire EXCEPT ![c] =
              [stage |-> "storing", route |-> route, number |-> wire[c].number,
               body |-> wire[c].body, account_id |-> accounts'[wire[c].number].account.id]],
           UNCHANGED <<command, exit, last, api_token, read_at>>
    PROVE  ClientInv(c)'
<1>1. PICK w : w = wire[c]
  OBVIOUS
<1>2. /\ At(c, "request") /\ Authorized(c) /\ w # None /\ w.route = route
      /\ w.route \in Routes(command[c]) /\ w.number = command[c].number
      /\ StoredNothing(c) /\ w.body \in Bodies(route)
      /\ w.route = "replace_rules" /\ command[c].op = "add" => Extends(c, w.body)
  BY <1>1 DEF Serving, ClientInv, Asking, At
<1>3. /\ wire'[c].stage = "storing" /\ wire'[c].route = route /\ wire'[c].number = w.number
      /\ wire'[c].body = w.body
      /\ wire'[c].account_id = accounts'[w.number].account.id
  BY <1>1 DEF ClientTypes
<1>4. StoredNothing(c)'
  BY <1>2, StoredByKept
<1>5. Beginning(c) /\ Ended(c) /\ command[c] \in CommandsOf[c] /\ command[c] # None
  BY <1>1, <1>2 DEF ClientInv, Beginning
<1>6. Beginning(c)'
  BY <1>1, <1>2, <1>5 DEF Beginning
<1>7. Asking(c)' /\ Reading(c)'
  BY <1>3 DEF Asking, Reading, At
<1>8. Storing(c)'
  <2>1. command'[c].token = api_token'
    BY <1>2 DEF Authorized
  <2>2. w.route = "replace_rules" /\ command[c].op = "add" => Extends(c, w.body)'
    BY <1>2, <1>5, CommandNumber, ExtendsKept
  <2>3. route = "replace_rules" => \A i \in DOMAIN w.body : Acceptable(w.body[i])
    BY <1>1
  <2> QED  BY <1>1, <1>2, <1>3, <1>4, <2>1, <2>2, <2>3 DEF Storing, Routes, Bodies, Acceptable
<1>9. Ended(c)'
  <2>1. PICK l : l = last[c]
    OBVIOUS
  <2>2. exit[c] = "ok" /\ l.route = "replace_rules" => ToldTruly(c, l)'
    BY <1>5, <2>1, ToldTrulyKept DEF Ended
  <2> QED  BY <1>4, <1>5, <2>1, <2>2 DEF Ended
<1>10. StoredTruly(c)'
  BY <1>4 DEF StoredTruly, StoredNothing
<1> QED  BY <1>6, <1>7, <1>8, <1>9, <1>10 DEF ClientInv

\* c's list is stored, and c is told so.
LEMMA ListStored ==
    ASSUME NEW c \in Clients, Stored, Stored', ClientTypes, ClientInv(c), FinishReplaceRules(c)
    PROVE  ClientInv(c)'
<1>1. Beginning(c) /\ Storing(c) /\ Ended(c) /\ command[c] \in CommandsOf[c] /\ command[c] # None
      /\ exit[c] = None
  BY DEF ClientInv, Beginning, FinishReplaceRules, At
<1>2. PICK n, out, body :
         /\ n = wire[c].number /\ body = wire[c].body
         /\ out = StoredRules(wire[c].account_id, wire[c].body)
  OBVIOUS
<1>3. /\ n \in Numbers /\ n = command[c].number
      /\ versions' = [versions EXCEPT ![n] = Append(@, [rules |-> out, by |-> c])]
      /\ out \in Seq(Rule) /\ Contents(out) = body
  BY <1>1, <1>2, CommandsAssumption, ReplaceRulesKeeps
<1>4. /\ StoredNothing(c) /\ command[c].token = api_token
      /\ command[c].op \in {"add", "replace_rules"} /\ wire[c].route = "replace_rules"
      /\ command[c].op = "add" => Extends(c, body)
  BY <1>1, <1>2 DEF FinishReplaceRules, Storing, Routes
<1>5. /\ UNCHANGED <<command, exit, last, api_token, read_at>>
      /\ wire'[c].stage = "reply" /\ wire'[c].route = "replace_rules"
      /\ wire'[c].status = 200 /\ wire'[c].value = out
  BY <1>2, <1>4 DEF FinishReplaceRules, Respond, config, cli, ClientTypes
<1>6. PICK v : v = Len(versions[n]) + 1
  OBVIOUS
<1>7. PICK new : new = [rules |-> out, by |-> c]
  OBVIOUS
<1>8. /\ new \in Version /\ new.rules = out /\ new.by = c
      /\ versions[n] \in Seq(Version) /\ versions'[n] = Append(versions[n], new)
      /\ \A m \in Numbers \ {n} : versions'[m] = versions[m]
  BY <1>3, <1>7 DEF Stored, VersionTypes, Version
<1>9. /\ DOMAIN versions'[n] = DOMAIN versions[n] \cup {v} /\ versions'[n][v] = new
      /\ \A u \in DOMAIN versions[n] : versions'[n][u] = versions[n][u]
      /\ DOMAIN versions[n] = 1..(v - 1) /\ v \in Nat
  BY <1>6, <1>8
<1>10. StoredBy(c, n)' = {v} /\ \A m \in Numbers \ {n} : StoredBy(c, m)' = {}
  BY <1>3, <1>4, <1>8, <1>9 DEF StoredNothing, StoredBy
<1>11. Beginning(c)'
  BY <1>1, <1>5 DEF Beginning
<1>12. Asking(c)' /\ Storing(c)'
  BY <1>5 DEF Asking, Storing, At
<1>13. Reading(c)'
  <2>1. ToldTruly(c, wire[c])'
    BY <1>3, <1>5, <1>8, <1>9, <1>10 DEF ToldTruly
  <2> QED  BY <1>4, <1>5, <2>1 DEF Reading, Routes
<1>14. Ended(c)'
  BY <1>1, <1>4, <1>5, NoneIsDistinct DEF Ended
<1>15. StoredTruly(c)'
  <2>1. ASSUME command[c].op = "add"
        PROVE  /\ read_at[c] \in 1..(v - 1)
               /\ Contents(versions'[n][v].rules) =
                     Append(Contents(versions'[n][read_at[c]].rules), NewRule(command[c]))
    BY <1>3, <1>4, <1>8, <1>9, <2>1 DEF Extends
  <2> SUFFICES ASSUME NEW m \in Numbers, NEW u \in StoredBy(c, m)'
               PROVE  /\ command'[c] # None /\ m = command'[c].number
                      /\ command'[c].op \in {"add", "replace_rules"}
                      /\ command'[c].op = "add" =>
                            /\ read_at'[c] \in 1..(u - 1)
                            /\ Contents(versions'[m][u].rules) =
                                  Append(Contents(versions'[m][read_at'[c]].rules),
                                         NewRule(command'[c]))
    BY Zenon DEF StoredTruly, Contents, NewRule
  <2>2. m = n /\ u = v
    BY <1>10
  <2>3. command' = command /\ read_at' = read_at
    BY <1>5
  <2> QED  BY <1>1, <1>3, <1>4, <2>1, <2>2, <2>3
<1> QED  BY <1>11, <1>12, <1>13, <1>14, <1>15 DEF ClientInv

\* c begins.
LEMMA Started ==
    ASSUME NEW c \in Clients, ClientTypes, ClientInv(c), Extended(c),
           NEW cmd \in CommandsOf[c], Start(c, cmd)
    PROVE  ClientInv(c)'
<1>1. /\ wire[c] = None /\ exit[c] = None /\ last[c] = None /\ StoredNothing(c)
      /\ command'[c] = cmd /\ cmd # None /\ last' = last
  BY CommandsAssumption DEF ClientInv, Beginning, Start, ClientTypes
<1>2. StoredNothing(c)'
  BY <1>1, StoredByKept
<1>3. CASE exit' = [exit EXCEPT ![c] = "error"] /\ UNCHANGED wire
  <2>1. exit'[c] = "error" /\ wire'[c] = None
    BY <1>1, <1>3 DEF ClientTypes
  <2> QED  BY <1>1, <1>2, <2>1, NoneIsDistinct
           DEF ClientInv, Beginning, Asking, Storing, Reading, At, Ended, StoredTruly, StoredNothing
<1>4. CASE ~(cmd.token = NoToken \/ cmd.body = Unreadable)
  <2> DEFINE route == IF cmd.op = "add" THEN "list_rules" ELSE cmd.op
  <2>1. /\ wire'[c] = [stage |-> "request", route |-> route, number |-> cmd.number,
                       body |-> cmd.body]
        /\ UNCHANGED exit
    BY <1>4 DEF Start, Send, ClientTypes
  <2>2. Beginning(c)'
    BY <1>1, <2>1 DEF Beginning
  <2>3. Asking(c)'
    <3>1. /\ cmd.op = "replace_rules" => cmd.body \in Seq(RuleBody) \cup {Junk}
          /\ cmd.op = "replace_upstreams" => cmd.body \in Seq(UpstreamBodies) \cup {Junk}
      BY <1>4, CommandsAssumption
    <3> QED  BY <1>1, <1>2, <2>1, <3>1 DEF Asking, Routes, Bodies
  <2>4. Storing(c)' /\ Reading(c)'
    BY <2>1 DEF Storing, Reading, At
  <2>5. Ended(c)' /\ StoredTruly(c)'
    BY <1>1, <1>2, <2>1, NoneIsDistinct DEF Ended, StoredTruly, StoredNothing
  <2> QED  BY <2>2, <2>3, <2>4, <2>5 DEF ClientInv
<1> QED  BY <1>3, <1>4 DEF Start

\* A rule that was listed is a body like any other, and so is the new rule.
LEMMA BodiesType ==
    ASSUME NEW rules \in Seq(Rule), NEW c \in Clients, NEW cmd \in CommandsOf[c], cmd.op = "add"
    PROVE  /\ BodiesOf(rules) = Contents(rules)
           /\ Append(BodiesOf(rules), NewRule(cmd)) \in Seq(RuleBody)
<1>1. BodiesOf(rules) = Contents(rules)
  BY DEF BodiesOf, BodyOf, Contents
<1>2. \A i \in 1..Len(rules) : BodyOf(rules[i]) \in RuleBody
  <2> TAKE i \in 1..Len(rules)
  <2>1. rules[i] \in Rule
    OBVIOUS
  <2> QED  BY <2>1, AdminAssumption DEF BodyOf, RuleBody, Rule
<1>3. BodiesOf(rules) \in Seq(RuleBody)
  BY <1>2 DEF BodiesOf
<1>4. NewRule(cmd) \in RuleBody
  <2>1. cmd.body \in Seq(RuleBody) /\ cmd.body # << >>
    BY CommandsAssumption
  <2>2. cmd.body[1] \in RuleBody
    BY <2>1
  <2> QED  BY <2>2 DEF NewRule, RuleBody
<1> QED  BY <1>1, <1>3, <1>4

\* c reads its answer, and goes on or ends.
LEMMA ReplyIsRead ==
    ASSUME NEW c \in Clients, ClientTypes, VersionTypes, ClientInv(c), Extended(c), ReadReply(c)
    PROVE  ClientInv(c)'
<1>1. PICK w : w = wire[c]
  OBVIOUS
<1>2. /\ w # None /\ exit[c] = None /\ command[c] \in CommandsOf[c] /\ command[c] # None
      /\ w.route \in Routes(command[c])
      /\ w.status \in {200, 201, 400, 401, 404, 422}
      /\ w.route # "replace_rules" \/ w.status # 200 => StoredNothing(c)
      /\ w.route = "replace_rules" => w.status # 201
      /\ w.route = "replace_rules" /\ w.status = 200 => ToldTruly(c, w)
      /\ command[c].op = "add" /\ w.route = "list_rules" /\ IsSuccess(w.status) =>
            /\ read_at[c] \in DOMAIN versions[command[c].number]
            /\ w.value = versions[command[c].number][read_at[c]].rules
      /\ StoredNothing(c) \/ command[c].token = api_token
  BY <1>1 DEF ClientInv, Beginning, Reading, Ended, ReadReply, At
<1>3. /\ last'[c] = w /\ UNCHANGED <<command, read_at, api_token, versions>>
  BY <1>1 DEF ReadReply, ClientTypes, config, store
<1>4. StoredNothing(c)' <=> StoredNothing(c)
  BY StoredByKept
<1>5. StoredTruly(c)'
  BY <1>3, StoredTrulyKept DEF ClientInv
<1>6. CASE IsSuccess(w.status) /\ command[c].op = "add" /\ w.route = "list_rules"
  <2>1. PICK body : body = Append(BodiesOf(w.value), NewRule(command[c]))
    OBVIOUS
  <2>2. /\ wire'[c] = [stage |-> "request", route |-> "replace_rules",
                       number |-> command[c].number, body |-> body]
        /\ exit' = exit
    BY <1>1, <1>6, <2>1 DEF ReadReply, Send, ClientTypes, Listed
  <2>3. command[c].number \in Numbers
    BY <1>2, <1>6, CommandNumber
  <2>4. w.value \in Seq(Rule)
    <3>1. PICK n, r : n = command[c].number /\ r = read_at[c]
      OBVIOUS
    <3>2. versions[n] \in Seq(Version) /\ r \in DOMAIN versions[n]
      BY <1>2, <1>6, <2>3, <3>1 DEF VersionTypes
    <3>3. versions[n][r] \in Version
      BY <3>2
    <3> QED  BY <1>2, <1>6, <3>1, <3>3 DEF Version
  <2>5. body \in Seq(RuleBody) /\ Extends(c, body)
    BY <1>2, <1>6, <2>1, <2>4, BodiesType DEF Extends
  <2>6. Extends(c, body)'
    BY <1>3, <2>3, <2>5, ExtendsKept
  <2>7. Beginning(c)'
    BY <1>2, <1>3, <2>2 DEF Beginning
  <2>8. Asking(c)'
    BY <1>2, <1>3, <1>4, <1>6, <2>2, <2>5, <2>6 DEF Asking, Routes, Bodies
  <2>9. Storing(c)' /\ Reading(c)'
    BY <2>2 DEF Storing, Reading, At
  <2>10. Ended(c)'
    BY <1>2, <1>3, <1>4, <1>6, <2>2, NoneIsDistinct DEF Ended, IsSuccess
  <2> QED  BY <1>5, <2>7, <2>8, <2>9, <2>10 DEF ClientInv
<1>7. CASE ~(IsSuccess(w.status) /\ command[c].op = "add" /\ w.route = "list_rules")
  <2>1. /\ wire'[c] = None
        /\ exit'[c] = IF IsSuccess(w.status) THEN "ok" ELSE "error"
    BY <1>1, <1>7 DEF ReadReply, ClientTypes
  <2>2. Beginning(c)'
    BY <1>2, <1>3, <2>1 DEF Beginning
  <2>3. Asking(c)' /\ Storing(c)' /\ Reading(c)'
    BY <2>1 DEF Asking, Storing, Reading, At
  <2>4. ToldTruly(c, w) => ToldTruly(c, w)'
    BY <1>3, ToldTrulyKept
  <2>5. Ended(c)'
    BY <1>2, <1>3, <1>4, <1>7, <2>1, <2>4 DEF Ended, IsSuccess, Routes
  <2> QED  BY <1>5, <2>2, <2>3, <2>5 DEF ClientInv
<1> QED  BY <1>6, <1>7

\* c loses its connection or its server, and with it its request.
LEMMA Lost ==
    ASSUME NEW c \in Clients, VersionTypes, ClientInv(c), Extended(c),
           wire[c] # None, wire'[c] = None, exit'[c] = "error",
           command'[c] = command[c], last'[c] = last[c], read_at'[c] = read_at[c],
           api_token' = api_token
    PROVE  ClientInv(c)'
<1>1. command[c] \in CommandsOf[c] /\ command[c] # None /\ Ended(c)
  BY DEF ClientInv, Beginning
<1>2. StoredNothing(c)' <=> StoredNothing(c)
  BY StoredByKept
<1>3. Beginning(c)'
  BY <1>1 DEF Beginning
<1>4. Asking(c)' /\ Storing(c)' /\ Reading(c)'
  BY DEF Asking, Storing, Reading, At
<1>5. Ended(c)'
  BY <1>1, <1>2 DEF Ended
<1>6. StoredTruly(c)'
  BY StoredTrulyKept DEF ClientInv
<1> QED  BY <1>3, <1>4, <1>5, <1>6 DEF ClientInv

-----------------------------------------------------------------------------
(* Steps.                                                                  *)

ClientStep(c) ==
    (\E cmd \in CommandsOf[c] : Start(c, cmd)) \/ Serve(c) \/ ReadReply(c) \/ Lose(c)

LEMMA SameStore ==
    ASSUME Stored, UNCHANGED store
    PROVE  Stored' /\ AccountsKept
<1>1. UNCHANGED <<accounts, presets, next_account_id, next_rule_id, next_upstream_id, versions>>
  BY DEF store
<1>2. Stored'
  BY <1>1 DEF Stored, StoreInv, StoreTypes, AccountIds, RuleIds, UpstreamIds, Live, VersionTypes,
     LastIsStored, RulesOf, Seeded
<1> QED  BY <1>1, <1>2 DEF AccountsKept

\* A step of c leaves the store in order and the other clients alone.
LEMMA StepStore ==
    ASSUME Stored, ClientTypes, NEW c \in Clients, ClientInv(c), ClientStep(c)
    PROVE  /\ Stored' /\ AccountsKept /\ ClientTypes'
           /\ \A d \in Clients \ {c} : Untouched(d)
           /\ api_token' = api_token
           /\ versions' = versions \/ FinishReplaceRules(c)
<1> DEFINE Rest == /\ ClientTypes' /\ api_token' = api_token
                   /\ \A d \in Clients \ {c} : Untouched(d)
<1>1. ASSUME NEW cmd \in CommandsOf[c], Start(c, cmd)
      PROVE  UNCHANGED store /\ Rest
  BY <1>1 DEF Start, Send, ClientTypes, Untouched, config
<1>2. CASE Refuse(c) \/ healthz(c) \/ get_account(c) \/ list_upstreams(c) \/ list_presets(c)
  <2>1. UNCHANGED <<config, store, cli, read_at>>
        /\ \E status, value : Respond(c, status, value)
    BY <1>2, Zenon DEF Refuse, healthz, get_account, list_upstreams, list_presets
  <2>2. Rest
    BY <2>1 DEF Respond, ClientTypes, Untouched, config, cli
  <2> QED  BY <2>1, <2>2, SameStore DEF store
<1>3. CASE list_rules(c)
  <2>1. PICK n : n = wire[c].number
    OBVIOUS
  <2>2. n \in Numbers
    <3>1. wire[c].route = "list_rules" /\ wire[c].number = command[c].number
          /\ command[c] \in CommandsOf[c] /\ command[c].op \in {"list_rules", "add"}
      BY <1>3 DEF list_rules, Serving, ClientInv, Asking, Beginning, At, Routes
    <3> QED  BY <2>1, <3>1, CommandNumber
  <2>3. Len(versions[n]) \in Nat
    BY <2>2 DEF Stored, VersionTypes
  <2>4. Rest
    BY <1>3, <2>1, <2>3 DEF list_rules, Respond, ClientTypes, Untouched, config, cli
  <2> QED  BY <1>3, <2>4, SameStore DEF list_rules, store
<1>4. CASE create_account(c)
  <2>1. Rest
    BY <1>4 DEF create_account, Respond, ClientTypes, Untouched, config, cli
  <2>2. PICK n \in IF wire[c].number = None THEN Generated ELSE {wire[c].number} :
          IF n \notin ValidNumbers
          THEN Respond(c, 400, None) /\ UNCHANGED store
          ELSE /\ get_or_create(n)
               /\ Respond(c, 201, accounts'[n].account)
               /\ UNCHANGED <<presets, next_rule_id, next_upstream_id, versions>>
    BY <1>4, Zenon DEF create_account
  <2>3. CASE n \notin ValidNumbers
    BY <2>1, <2>2, <2>3, SameStore DEF store
  <2>4. CASE n \in ValidNumbers
    <3>1. n \in Numbers
      BY <2>4, AdminAssumption
    <3>2. get_or_create(n) /\ UNCHANGED <<presets, next_rule_id, next_upstream_id, versions>>
      BY <2>2, <2>4
    <3> QED  BY <2>1, <3>1, <3>2, CreateKeeps DEF AccountsKept
  <2> QED  BY <2>3, <2>4
<1>5. ASSUME NEW route \in {"replace_rules", "replace_upstreams"}, BeginReplace(c, route)
      PROVE  Stored' /\ AccountsKept /\ Rest /\ versions' = versions
  <2>1. Rest
    BY <1>5 DEF BeginReplace, Respond, ClientTypes, Untouched, config, cli
  <2>2. PICK n : n = wire[c].number
    OBVIOUS
  <2>3. n \in Numbers
    <3>1. wire[c].route = route /\ wire[c].number = command[c].number
          /\ command[c] \in CommandsOf[c] /\ command[c].op \in {route, "add"}
      BY <1>5 DEF BeginReplace, Serving, ClientInv, Asking, Beginning, At, Routes
    <3> QED  BY <2>2, <3>1, CommandNumber
  <2>4. \/ UNCHANGED store
        \/ get_or_create(n) /\ UNCHANGED <<presets, next_rule_id, next_upstream_id, versions>>
    BY <1>5, <2>2 DEF BeginReplace
  <2>5. CASE UNCHANGED store
    BY <2>1, <2>5, SameStore DEF store
  <2>6. CASE get_or_create(n) /\ UNCHANGED <<presets, next_rule_id, next_upstream_id, versions>>
    BY <2>1, <2>3, <2>6, CreateKeeps DEF AccountsKept
  <2> QED  BY <2>4, <2>5, <2>6
<1>6. CASE FinishReplaceRules(c)
  <2>1. Rest
    BY <1>6 DEF FinishReplaceRules, Respond, ClientTypes, Untouched, config, cli
  <2>2. Storing(c) /\ command[c] \in CommandsOf[c]
    BY <1>6 DEF FinishReplaceRules, ClientInv, Beginning, At
  <2> QED  BY <1>6, <2>1, <2>2, CommandsAssumption, ReplaceRulesKeeps DEF AccountsKept
<1>7. CASE FinishReplaceUpstreams(c)
  <2>1. Rest /\ versions' = versions
    BY <1>7 DEF FinishReplaceUpstreams, Respond, ClientTypes, Untouched, config, cli
  <2>2. Storing(c) /\ command[c] \in CommandsOf[c]
    BY <1>7 DEF FinishReplaceUpstreams, ClientInv, Beginning, At
  <2> QED  BY <1>7, <2>1, <2>2, CommandsAssumption, ReplaceUpstreamsKeeps DEF AccountsKept
<1>8. CASE ReadReply(c) \/ Lose(c)
  <2>1. Rest /\ UNCHANGED store
    BY <1>8 DEF ReadReply, Send, Lose, ClientTypes, Untouched, config
  <2> QED  BY <2>1, SameStore DEF store
<1>9. ASSUME UNCHANGED store PROVE Stored' /\ AccountsKept /\ versions' = versions
  BY <1>9, SameStore DEF store
<1> QED  BY <1>1, <1>2, <1>3, <1>4, <1>5, <1>6, <1>7, <1>8, <1>9 DEF ClientStep, Serve

\* A step of c keeps what is known of c.
LEMMA StepOwn ==
    ASSUME Stored, Stored', ClientTypes, NEW c \in Clients, ClientInv(c), ClientStep(c)
    PROVE  ClientInv(c)'
<1>1. CASE FinishReplaceRules(c)
  BY <1>1, ListStored
<1>2. CASE ~FinishReplaceRules(c)
  <2>1. versions' = versions
    BY <1>2, StepStore
  <2>2. Extended(c) /\ VersionTypes
    BY <2>1 DEF Extended, Stored
  <2>3. ASSUME NEW cmd \in CommandsOf[c], Start(c, cmd) PROVE ClientInv(c)'
    BY <2>2, <2>3, Started
  <2>4. CASE ReadReply(c)
    BY <2>2, <2>4, ReplyIsRead
  <2>5. CASE Lose(c)
    <3>1. /\ wire[c] # None /\ wire'[c] = None /\ exit'[c] = "error"
          /\ UNCHANGED <<command, last, read_at, api_token>>
      BY <2>5 DEF Lose, At, ClientTypes, config
    <3> QED  BY <2>2, <3>1, Lost
  <2>6. CASE Serve(c)
    <3>1. \A route : Serving(c, route) =>
             /\ At(c, "request") /\ wire[c] # None /\ wire[c].route = route
             /\ wire[c].route \in Routes(command[c]) /\ StoredNothing(c)
             /\ wire[c].number = command[c].number
             /\ command[c] \in CommandsOf[c] /\ command[c] # None
      BY DEF Serving, At, ClientInv, Asking, Beginning
    <3>2. CASE Refuse(c)
      <4>1. /\ wire[c] # None /\ wire[c].route \in Routes(command[c]) /\ StoredNothing(c)
            /\ Respond(c, 401, None) /\ UNCHANGED <<command, exit, last, api_token>>
        BY <3>2 DEF Refuse, At, ClientInv, Asking, config, cli
      <4> QED  BY <2>2, <4>1, Answered DEF IsSuccess
    <3>3. CASE healthz(c) \/ list_upstreams(c) \/ list_presets(c)
      <4>1. /\ UNCHANGED <<command, exit, last, api_token>>
            /\ \E value : Respond(c, 200, value)
            /\ \E route \in {"healthz", "list_upstreams", "list_presets"} : Serving(c, route)
        BY <3>3, Zenon DEF healthz, list_upstreams, list_presets, config, cli
      <4> QED  BY <2>2, <3>1, <4>1, Answered
    <3>4. CASE create_account(c)
      <4>1. /\ UNCHANGED <<command, exit, last, api_token>> /\ Serving(c, "create_account")
            /\ \E value : Respond(c, 400, value) \/ Respond(c, 201, value)
        BY <3>4 DEF create_account, config, cli
      <4> QED  BY <2>2, <3>1, <4>1, Answered
    <3>5. CASE get_account(c)
      <4>1. /\ UNCHANGED <<command, exit, last, api_token>> /\ Serving(c, "get_account")
            /\ \E value : Respond(c, 404, value) \/ Respond(c, 200, value)
        BY <3>5 DEF get_account, config, cli
      <4> QED  BY <2>2, <3>1, <4>1, Answered
    <3>6. CASE list_rules(c)
      <4>1. /\ UNCHANGED <<command, exit, last, api_token>> /\ Serving(c, "list_rules")
            /\ Respond(c, 200, RulesOf(wire[c].number))
            /\ read_at'[c] = Len(versions[wire[c].number])
        BY <3>6 DEF list_rules, config, cli, ClientTypes
      <4>2. wire[c].number = command[c].number /\ command[c].op \in {"add", "list_rules"}
        BY <3>1, <4>1 DEF Routes
      <4>3. PICK n : n = command[c].number
        OBVIOUS
      <4>4. n \in Numbers
        BY <3>1, <4>1, <4>2, <4>3, CommandNumber
      <4>5. /\ Len(versions[n]) \in DOMAIN versions[n]
            /\ RulesOf(n) = versions[n][Len(versions[n])].rules
        BY <4>4 DEF Stored, VersionTypes, LastIsStored
      <4> QED  BY <2>1, <2>2, <3>1, <4>1, <4>2, <4>3, <4>5, Answered
    <3>7. ASSUME NEW route \in {"replace_rules", "replace_upstreams"}, BeginReplace(c, route)
          PROVE  ClientInv(c)'
      <4>1. /\ UNCHANGED <<command, exit, last, api_token, read_at>> /\ Serving(c, route)
        BY <3>7 DEF BeginReplace, config, cli
      <4>2. ASSUME NEW status \in {400, 422}, Respond(c, status, None) PROVE ClientInv(c)'
        BY <2>2, <3>1, <4>1, <4>2, Answered DEF IsSuccess
      <4>3. PICK n, body : n = wire[c].number /\ body = wire[c].body
        OBVIOUS
      <4>4. CASE body = Junk
        BY <3>7, <4>2, <4>3, <4>4 DEF BeginReplace
      <4>5. CASE body # Junk /\ route = "replace_rules" /\ \E i \in DOMAIN body : ~Acceptable(body[i])
        BY <3>7, <4>2, <4>3, <4>5 DEF BeginReplace
      <4>6. CASE /\ body # Junk
                 /\ route = "replace_rules" => \A i \in DOMAIN body : Acceptable(body[i])
        <5>0. /\ wire[c].body # Junk
              /\ ~(/\ wire[c].body # Junk /\ route = "replace_rules"
                   /\ \E i \in DOMAIN wire[c].body : ~Acceptable(wire[c].body[i]))
          BY <4>3, <4>6
        <5>1. /\ get_or_create(wire[c].number)
              /\ UNCHANGED <<presets, next_rule_id, next_upstream_id, versions>>
              /\ wire' = [wire EXCEPT ![c] =
                    [stage |-> "storing", route |-> route, number |-> wire[c].number,
                     body |-> wire[c].body, account_id |-> accounts'[wire[c].number].account.id]]
          BY <3>7, <5>0 DEF BeginReplace
        <5>2. n \in Numbers
          <6>1. command[c].op \in {route, "add"} /\ command[c] \in CommandsOf[c]
                /\ n = command[c].number
            BY <3>1, <4>1, <4>3 DEF Routes
          <6> QED  BY <6>1, CommandNumber
        <5>3. accounts'[n] # None
          BY <4>3, <5>1, <5>2, CreateKeeps
        <5>4. StoreTypes'
          BY DEF Stored, StoreInv
        <5> QED  BY <2>1, <2>2, <4>1, <4>3, <4>6, <5>1, <5>3, <5>4, Prepared
      <4> QED  BY <4>4, <4>5, <4>6
    <3>8. CASE FinishReplaceUpstreams(c)
      <4>1. /\ wire[c] # None /\ wire[c].route = "replace_upstreams"
            /\ wire[c].route \in Routes(command[c]) /\ StoredNothing(c)
            /\ UNCHANGED <<command, exit, last, api_token>>
            /\ \E value : Respond(c, 200, value)
        BY <3>8 DEF FinishReplaceUpstreams, At, ClientInv, Storing, config, cli
      <4> QED  BY <2>2, <4>1, Answered
    <3> QED  BY <1>2, <2>6, <3>2, <3>3, <3>4, <3>5, <3>6, <3>7, <3>8 DEF Serve
  <2> QED  BY <2>3, <2>4, <2>5, <2>6 DEF ClientStep
<1> QED  BY <1>1, <1>2

\* A restart keeps what is known of every client.
LEMMA RestartOwn ==
    ASSUME Stored, ClientTypes, NEW c \in Clients, ClientInv(c), Restart
    PROVE  ClientInv(c)'
<1>1. VersionTypes /\ Extended(c)
  <2>1. None # c /\ [rules |-> << >>, by |-> None] \in Version
    BY NoneIsDistinct DEF Version
  <2>2. PICK new \in Version : new = [rules |-> << >>, by |-> None]
    BY <2>1
  <2>3. new.by = None
    BY <2>2
  <2>4. \A n \in Numbers : versions'[n] = versions[n] \/ versions'[n] = Append(versions[n], new)
    BY <2>2, RestartKeeps
  <2> QED  BY <2>1, <2>3, <2>4, AppendExtends DEF Stored
<1>2. /\ UNCHANGED <<api_token, command, last, read_at>>
      /\ exit'[c] = IF At(c, "request") \/ At(c, "storing") THEN "error" ELSE exit[c]
      /\ wire'[c] = IF At(c, "reply") THEN wire[c] ELSE None
  BY DEF Restart
<1>3. CASE At(c, "request") \/ At(c, "storing")
  <2>1. wire[c] # None /\ wire'[c] = None /\ exit'[c] = "error"
    BY <1>2, <1>3 DEF At
  <2> QED  BY <1>1, <1>2, <2>1, Lost
<1>4. CASE ~(At(c, "request") \/ At(c, "storing"))
  <2>2. wire'[c] # None => At(c, "reply") /\ wire'[c] = wire[c]
    BY <1>2 DEF At
  <2>3. StoredTruly(c)'
    BY <1>1, <1>2, StoredTrulyKept DEF ClientInv
  <2>4. exit'[c] = exit[c]
    BY <1>2, <1>4
  <2>5. StoredNothing(c)' <=> StoredNothing(c)
    BY <1>1, StoredByKept
  <2>6. Beginning(c) /\ Reading(c) /\ Ended(c)
    BY DEF ClientInv
  <2>7. Beginning(c)'
    BY <1>2, <2>2, <2>4, <2>5, <2>6 DEF Beginning, At
  <2>8. Asking(c)' /\ Storing(c)'
    BY <2>2 DEF Asking, Storing, At
  <2>9. Reading(c)'
    <3> SUFFICES ASSUME At(c, "reply")' PROVE Reading(c)'
      BY DEF Reading
    <3>1. At(c, "reply") /\ wire'[c] = wire[c] /\ command[c] \in CommandsOf[c]
      BY <2>2, <2>6 DEF At, Beginning
    <3>2. PICK w : w = wire[c]
      OBVIOUS
    <3>3. w.route = "replace_rules" /\ w.status = 200 => ToldTruly(c, w)'
      BY <1>1, <1>2, <2>6, <3>1, <3>2, ToldTrulyKept DEF Reading
    <3>4. ASSUME command[c].op = "add", w.route = "list_rules", IsSuccess(w.status)
          PROVE  /\ read_at[c] \in DOMAIN versions'[command[c].number]
                 /\ w.value = versions'[command[c].number][read_at[c]].rules
      BY <1>1, <2>6, <3>1, <3>2, <3>4, CommandNumber DEF Reading, Extended
    <3> QED  BY <1>2, <2>5, <2>6, <3>1, <3>2, <3>3, <3>4 DEF Reading, Routes
  <2>10. Ended(c)'
    <3>1. PICK l : l = last[c]
      OBVIOUS
    <3>2. exit[c] = "ok" /\ l.route = "replace_rules" => ToldTruly(c, l)'
      BY <1>1, <1>2, <2>6, <3>1, ToldTrulyKept DEF Ended
    <3> QED  BY <1>2, <2>4, <2>5, <2>6, <3>1, <3>2 DEF Ended
  <2> QED  BY <2>3, <2>7, <2>8, <2>9, <2>10 DEF ClientInv
<1> QED  BY <1>3, <1>4

\* What every step does to the store and the clients.
LEMMA StepClients ==
    ASSUME Stored, Clientele, [Next]_vars
    PROVE  /\ Stored' /\ Clientele'
           /\ \A n \in Numbers :
                 versions'[n] = versions[n] \/ \E new \in Version : versions'[n] = Append(versions[n], new)
<1>1. ClientTypes /\ VersionTypes /\ \A c \in Clients : ClientInv(c)
  BY DEF Clientele, Stored
<1>2. ASSUME NEW c \in Clients, ClientStep(c)
      PROVE  /\ Stored' /\ Clientele'
             /\ \A n \in Numbers :
                   versions'[n] = versions[n] \/ \E new \in Version : versions'[n] = Append(versions[n], new)
  <2>1. /\ Stored' /\ AccountsKept /\ ClientTypes'
        /\ \A d \in Clients \ {c} : Untouched(d)
        /\ api_token' = api_token
        /\ versions' = versions \/ FinishReplaceRules(c)
    BY <1>1, <1>2, StepStore
  <2>2. ClientInv(c)'
    BY <1>1, <1>2, <2>1, StepOwn
  <2>3. \A n \in Numbers :
           versions'[n] = versions[n]
             \/ \E new \in Version : new.by = c /\ versions'[n] = Append(versions[n], new)
    <3>1. CASE versions' = versions
      BY <3>1
    <3>2. CASE FinishReplaceRules(c)
      <4>1. PICK n, out : n = wire[c].number /\ out = StoredRules(wire[c].account_id, wire[c].body)
        OBVIOUS
      <4>2. Storing(c) /\ command[c] \in CommandsOf[c]
        BY <1>1, <3>2 DEF FinishReplaceRules, ClientInv, Beginning, At
      <4>3. /\ n \in Numbers /\ out \in Seq(Rule)
            /\ versions' = [versions EXCEPT ![n] = Append(@, [rules |-> out, by |-> c])]
        BY <3>2, <4>1, <4>2, CommandsAssumption, ReplaceRulesKeeps
      <4>4. [rules |-> out, by |-> c] \in Version
        BY <4>3 DEF Version
      <4>5. PICK new \in Version : new = [rules |-> out, by |-> c]
        BY <4>4
      <4>6. new.by = c /\ versions'[n] = Append(versions[n], new)
            /\ \A m \in Numbers \ {n} : versions'[m] = versions[m]
        BY <1>1, <4>3, <4>5 DEF VersionTypes
      <4> QED  BY <4>6
    <3> QED  BY <2>1, <3>1, <3>2
  <2>4. ASSUME NEW d \in Clients \ {c} PROVE ClientInv(d)'
    <3>1. Extended(d)
      BY <1>1, <2>3, AppendExtends
    <3> QED  BY <1>1, <2>1, <3>1, OtherClient
  <2>5. \A d \in Clients : ClientInv(d)'
    BY <2>2, <2>4
  <2> QED  BY <2>1, <2>3, <2>5 DEF Clientele
<1>3. CASE Restart
  <2>1. /\ Stored'
        /\ \A n \in Numbers :
              \/ versions'[n] = versions[n]
              \/ versions'[n] = Append(versions[n], [rules |-> << >>, by |-> None])
    BY <1>3, RestartKeeps
  <2>2. [rules |-> << >>, by |-> None] \in Version
    BY DEF Version
  <2>3. \A c \in Clients : ClientInv(c)'
    BY <1>1, <1>3, RestartOwn
  <2>4. ClientTypes'
    BY <1>1, <1>3 DEF Restart, ClientTypes
  <2> QED  BY <2>1, <2>2, <2>3, <2>4 DEF Clientele
<1>4. CASE UNCHANGED vars
  <2>1. UNCHANGED store /\ UNCHANGED <<api_token, command, wire, exit, last, read_at, versions>>
    BY <1>4 DEF vars, config, store, cli
  <2>2. Stored' /\ AccountsKept
    BY <2>1, SameStore
  <2>3. ClientTypes'
    BY <1>1, <2>1 DEF ClientTypes
  <2>4. ASSUME NEW c \in Clients PROVE ClientInv(c)'
    <3>1. Extended(c) /\ Untouched(c)
      BY <2>1 DEF Extended, Untouched
    <3> QED  BY <1>1, <2>1, <2>2, <3>1, OtherClient
  <2> QED  BY <2>1, <2>2, <2>3, <2>4 DEF Clientele
<1> QED  BY <1>2, <1>3, <1>4 DEF Next, ClientStep

-----------------------------------------------------------------------------
(* What `rules add` has added.                                             *)

\* The last of a list is in it, and so is everything before.
LEMMA InAppend ==
    ASSUME NEW S, NEW s \in Seq(S), NEW x \in S
    PROVE  x \in ToSet(Append(s, x)) /\ ToSet(s) \subseteq ToSet(Append(s, x))
<1>1. /\ DOMAIN Append(s, x) = DOMAIN s \cup {Len(s) + 1}
      /\ Append(s, x)[Len(s) + 1] = x /\ \A i \in DOMAIN s : Append(s, x)[i] = s[i]
  OBVIOUS
<1> QED  BY <1>1 DEF ToSet

\* The contents of a version, and of one that a command added.
LEMMA ContentsType ==
    ASSUME NEW rules \in Seq(Rule)
    PROVE  Contents(rules) \in Seq(RuleBody)
<1>1. \A i \in 1..Len(rules) :
         [target |-> rules[i].target, limit_count |-> rules[i].limit_count,
          enabled |-> rules[i].enabled] \in RuleBody
  <2> TAKE i \in 1..Len(rules)
  <2>1. rules[i] \in Rule
    OBVIOUS
  <2> QED  BY <2>1, AdminAssumption DEF Rule, RuleBody
<1> QED  BY <1>1 DEF Contents

\* The rule a command adds is a body.
LEMMA NewRuleType ==
    ASSUME NEW c \in Clients, NEW cmd \in CommandsOf[c], cmd.op = "add"
    PROVE  NewRule(cmd) \in RuleBody
<1>1. cmd.body \in Seq(RuleBody) /\ cmd.body # << >>
  BY CommandsAssumption
<1>2. cmd.body[1] \in RuleBody
  BY <1>1
<1> QED  BY <1>2 DEF NewRule, RuleBody

\* Version v of a list is there because of one of these commands.
Explained(list, commands, reads, v) ==
    list[v].by # None =>
        /\ commands[list[v].by] \in CommandsOf[list[v].by]
        /\ commands[list[v].by].op \in {"add", "replace_rules"}
        /\ commands[list[v].by].op = "add" =>
              /\ reads[list[v].by] \in 1..(v - 1)
              /\ Contents(list[v].rules) =
                    Append(Contents(list[reads[list[v].by]].rules), NewRule(commands[list[v].by]))

\* A new version, too, has what was added, or ends what was promised: what
\* its command read is an older version, from before or after the addition.
LEMMA AppendStays ==
    ASSUME NEW list \in Seq(Version), NEW new \in Version, NEW commands, NEW reads,
           AllStay(list, commands, reads),
           \A v \in 1..(Len(list) + 1) : Explained(Append(list, new), commands, reads, v)
    PROVE  AllStay(Append(list, new), commands, reads)
<1> DEFINE long == Append(list, new)
           last_at == Len(list) + 1
<1>1. /\ DOMAIN long = 1..last_at /\ DOMAIN list = 1..Len(list) /\ long[last_at] = new
      /\ \A i \in DOMAIN list : long[i] = list[i]
      /\ Len(list) \in Nat /\ last_at \in Nat
      /\ \A i \in 1..last_at : long[i] \in Version
  OBVIOUS
<1>2. \A v \in 1..last_at : Explained(long, commands, reads, v)
  OBVIOUS
<1> HIDE DEF long
<1> SUFFICES ASSUME NEW v \in DOMAIN long, NEW w \in DOMAIN long, v < w,
                    long[v].by # None, commands[long[v].by].op = "add"
             PROVE  Stays(long, commands, reads, v, w)
  BY DEF AllStay, long
<1> DEFINE mine == NewRule(commands[long[v].by])
<1>3. \A x \in DOMAIN list : v < x =>
         /\ v \in DOMAIN list /\ long[v] = list[v] /\ long[x] = list[x]
         /\ \/ mine \in ToSet(Contents(long[x].rules))
            \/ \E y \in (v + 1)..x : Excused(long, commands, reads, y, v)
  <2> SUFFICES ASSUME NEW x \in DOMAIN list, v < x
               PROVE  /\ v \in DOMAIN list /\ long[v] = list[v] /\ long[x] = list[x]
                      /\ \/ mine \in ToSet(Contents(long[x].rules))
                         \/ \E y \in (v + 1)..x : Excused(long, commands, reads, y, v)
    BY Zenon
  <2>1. v \in DOMAIN list /\ long[v] = list[v] /\ long[x] = list[x]
    BY <1>1
  <2>2. Stays(list, commands, reads, v, x)
    BY <2>1 DEF AllStay
  <2>3. \A y \in (v + 1)..x : list[y] = long[y]
    BY <1>1
  <2>4. \A y \in (v + 1)..x : Excused(list, commands, reads, y, v) => Excused(long, commands, reads, y, v)
    BY <2>3 DEF Excused
  <2> QED  BY <2>1, <2>2, <2>4 DEF Stays
<1>4. CASE w \in DOMAIN list
  BY <1>3, <1>4 DEF Stays
<1>5. CASE w = last_at
  <2>1. CASE long[w].by = None
    BY <1>1, <1>5, <2>1 DEF Stays, Excused
  <2>2. CASE long[w].by # None /\ commands[long[w].by].op = "replace_rules"
    BY <1>1, <1>5, <2>2 DEF Stays, Excused
  <2>3. CASE long[w].by # None /\ commands[long[w].by].op = "add"
    <3>1. PICK r, his : r = reads[long[w].by] /\ his = NewRule(commands[long[w].by])
      OBVIOUS
    <3>2. /\ r \in 1..(w - 1) /\ commands[long[w].by] \in CommandsOf[long[w].by]
          /\ Contents(long[w].rules) = Append(Contents(long[r].rules), his)
      BY <1>1, <1>2, <1>5, <2>3, <3>1 DEF Explained
    <3>3. r \in 1..last_at /\ r \in Int
      BY <1>1, <1>5, <3>2
    <3>4. CASE r < v
      <4>1. Excused(long, commands, reads, w, v)
        BY <2>3, <3>1, <3>4 DEF Excused
      <4> QED  BY <1>1, <1>5, <4>1 DEF Stays
    <3>5. CASE ~(r < v)
      <4>1. Contents(long[r].rules) \in Seq(RuleBody)
        BY <1>1, <3>3, ContentsType DEF Version
      <4>2. his \in RuleBody
        <5>1. long[w].by \in Clients
          BY <1>1, <2>3 DEF Version
        <5> QED  BY <3>1, <3>2, <2>3, <5>1, NewRuleType
      <4>3. ToSet(Contents(long[r].rules)) \subseteq ToSet(Contents(long[w].rules))
        BY <3>2, <4>1, <4>2, InAppend
      <4>4. mine \in ToSet(Contents(long[r].rules)) => Stays(long, commands, reads, v, w)
        BY <4>3 DEF Stays
      <4>5. CASE r = v
        <5>1. PICK q : q = reads[long[v].by]
          OBVIOUS
        <5>2. /\ q \in 1..(v - 1) /\ commands[long[v].by] \in CommandsOf[long[v].by]
              /\ Contents(long[v].rules) = Append(Contents(long[q].rules), mine)
          BY <1>1, <1>2, <5>1 DEF Explained
        <5>3. q \in 1..last_at
          BY <1>1, <5>2
        <5>4. Contents(long[q].rules) \in Seq(RuleBody)
          BY <1>1, <5>3, ContentsType DEF Version
        <5>5. long[v].by \in Clients
          BY <1>1 DEF Version
        <5>6. mine \in RuleBody
          BY <5>2, <5>5, NewRuleType
        <5>7. mine \in ToSet(Contents(long[v].rules))
          BY <5>2, <5>4, <5>6, InAppend
        <5> QED  BY <4>4, <4>5, <5>7
      <4>6. CASE v < r
        <5>1. r \in DOMAIN list
          BY <1>1, <1>5, <3>2
        <5>2. CASE mine \in ToSet(Contents(long[r].rules))
          BY <4>4, <5>2
        <5>3. CASE \E y \in (v + 1)..r : Excused(long, commands, reads, y, v)
          <6>1. PICK y \in (v + 1)..r : Excused(long, commands, reads, y, v)
            BY <5>3
          <6>2. y \in (v + 1)..w
            BY <1>1, <1>5, <3>2
          <6> QED  BY <6>1, <6>2 DEF Stays
        <5> QED  BY <1>3, <4>6, <5>1, <5>2, <5>3
      <4>7. v \in Int
        BY <1>1
      <4> QED  BY <3>3, <3>5, <4>5, <4>6, <4>7
    <3> QED  BY <3>4, <3>5
  <2>4. commands[long[w].by].op \in {"add", "replace_rules"} \/ long[w].by = None
    BY <1>1, <1>2 DEF Explained
  <2> QED  BY <2>1, <2>2, <2>3, <2>4
<1> QED  BY <1>1, <1>4, <1>5

\* Once a client has stored a list its command and what it read are settled.
LEMMA Settled ==
    ASSUME Stored, Clientele, [Next]_vars, NEW c \in Clients, ~StoredNothing(c)
    PROVE  command'[c] = command[c] /\ read_at'[c] = read_at[c]
<1>1. ClientTypes /\ Beginning(c) /\ Asking(c)
  BY DEF Clientele, ClientInv
<1>2. command[c] # None /\ ~At(c, "request")
  BY <1>1 DEF Beginning, Asking
<1>3. ASSUME NEW d \in Clients, ClientStep(d)
      PROVE  command'[c] = command[c] /\ read_at'[c] = read_at[c]
  <2>1. CASE c # d
    <3>1. ClientInv(d)
      BY DEF Clientele
    <3> QED  BY <1>1, <1>3, <2>1, <3>1, StepStore DEF Untouched
  <2>2. CASE c = d
    <3>1. ~\E cmd \in CommandsOf[c] : Start(c, cmd)
      BY <1>2 DEF Start
    <3>2. ~\E route : Serving(c, route)
      BY <1>2 DEF Serving
    <3>3. CASE Serve(c)
      BY <3>2, <3>3 DEF Serve, Refuse, Serving, healthz, create_account, get_account, list_rules,
         list_upstreams, list_presets, BeginReplace, FinishReplaceRules, FinishReplaceUpstreams,
         cli
    <3>4. CASE ReadReply(c) \/ Lose(c)
      BY <3>4 DEF ReadReply, Lose
    <3> QED  BY <1>3, <2>2, <3>1, <3>3, <3>4 DEF ClientStep
  <2> QED  BY <2>1, <2>2
<1>4. CASE Restart
  BY <1>4 DEF Restart
<1>5. CASE UNCHANGED vars
  BY <1>5 DEF vars, cli
<1> QED  BY <1>3, <1>4, <1>5 DEF Next, ClientStep

AllExplained ==
    \A n \in Numbers : \A v \in DOMAIN versions[n] : Explained(versions[n], command, read_at, v)

\* Every version is one of a command that the history explains.
LEMMA VersionsExplained == Stored /\ Clientele => AllExplained
<1> SUFFICES ASSUME Stored, Clientele, NEW n \in Numbers, NEW v \in DOMAIN versions[n]
             PROVE  Explained(versions[n], command, read_at, v)
  BY DEF AllExplained
<1> SUFFICES ASSUME versions[n][v].by # None
             PROVE  Explained(versions[n], command, read_at, v)
  BY DEF Explained
<1>1. PICK c : c = versions[n][v].by
  OBVIOUS
<1>2. versions[n][v] \in Version
  BY DEF Stored, VersionTypes
<1>3. c \in Clients /\ v \in StoredBy(c, n)
  BY <1>1, <1>2 DEF Version, StoredBy
<1>4. StoredTruly(c) /\ Beginning(c)
  BY <1>3 DEF Clientele, ClientInv
<1>5. command[c] \in CommandsOf[c] /\ n = command[c].number
  BY <1>3, <1>4 DEF StoredTruly, Beginning
<1> QED  BY <1>1, <1>3, <1>4, <1>5 DEF StoredTruly, Explained

\* Additions stay when a step adds a version, or none.
LEMMA AdditionsKept ==
    ASSUME Stored, Stored', Clientele, Clientele', AdditionsStay, [Next]_vars
    PROVE  AdditionsStay'
<1> SUFFICES ASSUME NEW n \in Numbers
             PROVE  AllStay(versions'[n], command', read_at')
  BY DEF AdditionsStay
<1>1. PICK list, commands, reads :
         list = versions[n] /\ commands = command' /\ reads = read_at'
  OBVIOUS
<1>2. list \in Seq(Version) /\ AllStay(list, command, read_at)
  BY <1>1 DEF Stored, VersionTypes, AdditionsStay
<1>3. AllStay(list, commands, reads)
  <2>1. ASSUME NEW x \in DOMAIN list, list[x].by # None
        PROVE  /\ commands[list[x].by] = command[list[x].by]
               /\ reads[list[x].by] = read_at[list[x].by]
    <3>1. PICK c : c = list[x].by
      OBVIOUS
    <3>2. c \in Clients
      <4>1. list[x] \in Version
        BY <1>2
      <4> QED  BY <2>1, <3>1, <4>1 DEF Version
    <3>3. ~StoredNothing(c)
      BY <1>1, <3>1 DEF StoredNothing, StoredBy
    <3> QED  BY <1>1, <3>1, <3>2, <3>3, Settled
  <2> SUFFICES ASSUME NEW v \in DOMAIN list, NEW w \in DOMAIN list, v < w,
                      list[v].by # None, commands[list[v].by].op = "add"
               PROVE  Stays(list, commands, reads, v, w)
    BY DEF AllStay
  <2>2. Stays(list, command, read_at, v, w)
    BY <1>2, <2>1 DEF AllStay
  <2>3. \A y \in (v + 1)..w : y \in DOMAIN list
    BY <1>2
  <2>4. \A y \in (v + 1)..w : Excused(list, command, read_at, y, v) => Excused(list, commands, reads, y, v)
    BY <2>1, <2>3 DEF Excused
  <2> QED  BY <2>1, <2>2, <2>4 DEF Stays
<1>4. CASE versions'[n] = versions[n]
  BY <1>1, <1>3, <1>4
<1>5. CASE \E new \in Version : versions'[n] = Append(versions[n], new)
  <2>1. PICK new \in Version : versions'[n] = Append(list, new)
    BY <1>1, <1>5
  <2>2. DOMAIN versions'[n] = 1..(Len(list) + 1)
    BY <1>2, <2>1
  <2>3. \A v \in DOMAIN versions'[n] : Explained(versions'[n], command', read_at', v)
    <3>1. AllExplained'
      BY VersionsExplained, PTL
    <3> QED  BY <3>1 DEF AllExplained, Explained, Contents, NewRule
  <2>4. \A v \in 1..(Len(list) + 1) : Explained(Append(list, new), commands, reads, v)
    BY <1>1, <2>1, <2>2, <2>3
  <2>5. AllStay(Append(list, new), commands, reads)
    BY <1>2, <1>3, <2>4, AppendStays
  <2> QED  BY <1>1, <2>1, <2>5
<1> QED  BY <1>4, <1>5, StepClients

-----------------------------------------------------------------------------
(* The theorems.                                                           *)

LEMMA InvInitially == Init => Inv
<1> SUFFICES ASSUME Init PROVE Inv
  OBVIOUS
<1> USE DEF Init
<1>1. StoreInv
  <2>1. StoreTypes
    BY AdminAssumption DEF StoreTypes, AfterPresets
  <2>2. Live = {}
    BY DEF Live
  <2> QED  BY <2>1, <2>2 DEF StoreInv, AccountIds, RuleIds, UpstreamIds
<1>2. [rules |-> << >>, by |-> None] \in Version
  BY DEF Version
<1>3. VersionTypes
  BY <1>2 DEF VersionTypes
<1>4. LastIsStored
  BY DEF LastIsStored, RulesOf
<1>5. \A n \in Numbers : DOMAIN versions[n] = {1} /\ versions[n][1].by = None
  OBVIOUS
<1>6. \A c \in Clients : StoredNothing(c)
  BY <1>5, NoneIsDistinct DEF StoredNothing, StoredBy
<1>7. ClientTypes
  BY DEF ClientTypes
<1>8. \A c \in Clients : ClientInv(c)
  BY <1>6, NoneIsDistinct DEF ClientInv, Beginning, Asking, Storing, Reading, Ended, StoredTruly,
     StoredNothing, At
<1>9. AdditionsStay
  BY <1>5 DEF AdditionsStay, AllStay
<1> QED  BY <1>1, <1>3, <1>4, <1>7, <1>8, <1>9 DEF Inv, Stored, Clientele

\* The invariant of the store and of all its clients together.
THEOREM Inductive == Spec => []Inv
<1>1. Inv /\ [Next]_vars => Inv'
  BY StepClients, AdditionsKept DEF Inv
<1> QED  BY <1>1, InvInitially, PTL DEF Spec

\* The store is well typed, what is in it passed the validation of
\* replace_rules, and a client that waits has not ended (rules.rs:30-39).
THEOREM TypeCorrect == Spec => []TypeOK
<1>1. Inv => TypeOK
  <2> SUFFICES ASSUME Inv PROVE TypeOK
    OBVIOUS
  <2>1. StoreTypes /\ AccountIds /\ UpstreamIds /\ VersionTypes /\ LastIsStored /\ ClientTypes
    BY DEF Inv, Stored, StoreInv, Clientele
  <2>2. ASSUME NEW n \in Numbers, accounts[n] # None
        PROVE  /\ accounts[n].account.account_number = n
               /\ accounts[n].account.id \in 1..next_account_id
               /\ accounts[n].rules \in Seq(Rule)
               /\ \A i \in DOMAIN accounts[n].upstreams :
                     accounts[n].upstreams[i].id \in 1..next_upstream_id
    <3>1. n \in Live
      BY <2>2 DEF Live
    <3>2. Len(PresetBodies) \in Nat
      BY AdminAssumption
    <3> QED  BY <2>1, <3>1, <3>2, LiveRecord DEF AccountIds, UpstreamIds
  <2>3. \A n \in Numbers : versions[n] # << >> /\ Last(versions[n]).rules = RulesOf(n)
    BY <2>1 DEF LastIsStored, Last
  <2>4. \A c \in Clients : wire[c] # None => command[c] # None /\ exit[c] = None
    BY DEF Inv, Clientele, ClientInv, Beginning
  <2> QED  BY <2>1, <2>2, <2>3, <2>4 DEF TypeOK, ClientTypes
<1> QED  BY <1>1, Inductive, PTL

\* Ids are never given out twice, and what is listed under an account carries
\* its id, whatever requests overlap (inmem.rs:58-77, 134-196).
THEOREM DistinctIds == Spec => []IdsAreDistinct
<1>1. Inv => IdsAreDistinct
  <2> SUFFICES ASSUME Inv PROVE IdsAreDistinct
    OBVIOUS
  <2>1. StoreTypes /\ AccountIds /\ RuleIds /\ UpstreamIds /\ presets = Seeded
    BY DEF Inv, Stored, StoreInv, StoreTypes
  <2>2. \A n \in Live : RulesOf(n) = accounts[n].rules /\ UpstreamsOf(n) = accounts[n].upstreams
    BY DEF Live, RulesOf, UpstreamsOf
  <2> DEFINE Items(list) == {list[i] : i \in DOMAIN list}
             Others == UNION {Items(UpstreamsOf(n)) : n \in Live}
             Listed_ == UNION {Items(RulesOf(n)) : n \in Live}
  <2>3. \A m, n \in Live : accounts[m].account.id = accounts[n].account.id => m = n
    BY <2>1 DEF AccountIds
  <2>4. \A n \in Live : \A x \in Items(RulesOf(n)) \cup Items(UpstreamsOf(n)) :
           x.account_id = accounts[n].account.id
    BY <2>1, <2>2 DEF RuleIds, UpstreamIds
  <2>5. ASSUME NEW x \in Listed_, NEW y \in Listed_, x.id = y.id PROVE x = y
    <3>1. PICK m \in Live : \E i \in DOMAIN accounts[m].rules : x = accounts[m].rules[i]
      BY <2>2
    <3>2. PICK n \in Live : \E j \in DOMAIN accounts[n].rules : y = accounts[n].rules[j]
      BY <2>2
    <3> QED  BY <2>1, <2>5, <3>1, <3>2 DEF RuleIds
  <2>6. ASSUME NEW x \in Others, NEW y \in Others, x.id = y.id PROVE x = y
    <3>1. PICK m \in Live : \E i \in DOMAIN accounts[m].upstreams : x = accounts[m].upstreams[i]
      BY <2>2
    <3>2. PICK n \in Live : \E j \in DOMAIN accounts[n].upstreams : y = accounts[n].upstreams[j]
      BY <2>2
    <3> QED  BY <2>1, <2>6, <3>1, <3>2 DEF UpstreamIds
  <2>7. \A x \in Items(presets) : \A y \in Items(presets) : x.id = y.id => x = y
    BY <2>1, SeededType
  <2>8. \A x \in Items(presets) : \A y \in Others : x.id # y.id
    <3> SUFFICES ASSUME NEW x \in Items(presets), NEW y \in Others PROVE x.id # y.id
      OBVIOUS
    <3>1. PICK n \in Live : \E j \in DOMAIN accounts[n].upstreams : y = accounts[n].upstreams[j]
      BY <2>2
    <3>2. y.id \in (Len(PresetBodies) + 1)..next_upstream_id
      BY <2>1, <3>1 DEF UpstreamIds
    <3>3. x.id \in 1..Len(PresetBodies) /\ Len(PresetBodies) \in Nat
      BY <2>1, SeededType, AdminAssumption
    <3> QED  BY <3>2, <3>3
  <2> DEFINE Ups == Items(presets) \cup Others
  <2>9. \A x, y \in Ups : x.id = y.id => x = y
    <3> HIDE DEF Items, Others
    <3> QED  BY <2>6, <2>7, <2>8
  <2>10. \A x, y \in Listed_ : x.id = y.id => x = y
    <3> HIDE DEF Listed_
    <3> QED  BY <2>5
  <2> QED  BY <2>3, <2>4, <2>9, <2>10, Zenon DEF IdsAreDistinct, Live
<1> QED  BY <1>1, Inductive, PTL

\* A client that ends well was told what was stored, and one that was refused
\* or has another token has stored nothing (auth.rs:18-38).
THEOREM TrueExits == Spec => []ExitsAreTrue
<1>1. Inv => ExitsAreTrue
  <2> SUFFICES ASSUME Inv, NEW c \in Clients, NEW n \in Numbers
      PROVE  LET Refused == last[c] # None /\ last[c].status >= 400
             IN  /\ exit[c] = "ok" /\ last[c].route = "replace_rules" /\ command[c].number = n =>
                       \E v \in StoredBy(c, n) : versions[n][v].rules = last[c].value
                 /\ Refused \/ (command[c] # None /\ command[c].token # api_token) =>
                       StoredBy(c, n) = {}
                 /\ Refused => exit[c] = "error"
    BY Zenon DEF ExitsAreTrue
  <2>1. Ended(c)
    BY DEF Inv, Clientele, ClientInv
  <2> QED  BY <2>1 DEF Ended, StoredNothing, ToldTruly
<1> QED  BY <1>1, Inductive, PTL

\* `rules add` stores the list it read, rule for rule, and its own behind it:
\* "Append a rule to the end of the list." (admin.rs:55)
THEOREM AddsExtend == Spec => []AddsExtendWhatTheyRead
<1>1. Inv => AddsExtendWhatTheyRead
  <2> SUFFICES ASSUME Inv, NEW n \in Numbers, NEW c \in Clients, NEW v \in StoredBy(c, n),
                      command[c].op = "add"
      PROVE  /\ read_at[c] < v
             /\ Contents(versions[n][v].rules) =
                   Append(Contents(versions[n][read_at[c]].rules), NewRule(command[c]))
    BY DEF AddsExtendWhatTheyRead
  <2>1. StoredTruly(c)
    BY DEF Inv, Clientele, ClientInv
  <2>2. v \in 1..Len(versions[n]) /\ Len(versions[n]) \in Nat
    BY DEF StoredBy, Inv, Stored, VersionTypes
  <2>3. /\ read_at[c] \in 1..(v - 1)
        /\ Contents(versions[n][v].rules) =
              Append(Contents(versions[n][read_at[c]].rules), NewRule(command[c]))
    BY <2>1 DEF StoredTruly
  <2> QED  BY <2>2, <2>3
<1> QED  BY <1>1, Inductive, PTL

\* A rule that was added stays, unless the list was replaced as a whole, the
\* server restarted, or another `rules add` had read it before (admin.rs:207).
THEOREM AdditionsAreKept == Spec => []AddedRulesStay
<1>1. Inv => AddedRulesStay
  <2> SUFFICES ASSUME Inv, NEW c \in Clients, command[c] # None, command[c].op = "add",
                      exit[c] = "ok"
      PROVE  LET n == command[c].number
                 Excuses(x, v) ==
                     LET by == versions[n][x].by
                     IN  \/ by = None
                         \/ command[by].op = "replace_rules"
                         \/ command[by].op = "add" /\ read_at[by] < v
             IN  /\ StoredBy(c, n) # {}
                 /\ \A v \in StoredBy(c, n), w \in DOMAIN versions[n] : w > v =>
                       \/ NewRule(command[c]) \in ToSet(Contents(versions[n][w].rules))
                       \/ \E x \in (v + 1)..w : Excuses(x, v)
    BY DEF AddedRulesStay
  <2>1. Ended(c) /\ Beginning(c)
    BY DEF Inv, Clientele, ClientInv
  <2>2. PICK n : n = command[c].number
    OBVIOUS
  <2>3. n \in Numbers
    BY <2>1, <2>2, CommandNumber DEF Beginning
  <2>4. StoredBy(c, n) # {}
    BY <2>1, <2>2 DEF Ended, ToldTruly
  <2>5. ASSUME NEW v \in StoredBy(c, n), NEW w \in DOMAIN versions[n], w > v
        PROVE  Stays(versions[n], command, read_at, v, w)
    <3>1. v \in DOMAIN versions[n] /\ versions[n][v].by = c /\ c # None
      BY NoneIsDistinct DEF StoredBy
    <3>2. DOMAIN versions[n] = 1..Len(versions[n]) /\ Len(versions[n]) \in Nat
      BY <2>3 DEF Inv, Stored, VersionTypes
    <3>3. AllStay(versions[n], command, read_at)
      BY <2>3 DEF Inv, AdditionsStay
    <3>4. v < w
      BY <2>5, <3>1, <3>2
    <3> QED  BY <3>1, <3>3, <3>4 DEF AllStay
  <2>6. \A v \in StoredBy(c, n) : versions[n][v].by = c
    BY DEF StoredBy
  <2> QED  BY <2>2, <2>4, <2>5, <2>6 DEF Stays, Excused
<1> QED  BY <1>1, Inductive, PTL
=============================================================================
