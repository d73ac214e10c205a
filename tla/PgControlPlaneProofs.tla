------------------------ MODULE PgControlPlaneProofs ------------------------
(***************************************************************************)
(* Proofs about PostgresControlPlane: for any number of requests, queries, *)
(* accounts and lists, what a request stores is there all or not at all,   *)
(* what is served was stored, and no rule admits more queries than its     *)
(* budget.  The invariant has five parts, each of which needs those before *)
(* it: types; requests write and delete whole lists under numbers of their *)
(* own; what was read is in the history; ids are of one rule each; and     *)
(* counters count what went through.                                       *)
(***************************************************************************)
EXTENDS PgControlPlane, FiniteSetTheorems, WellFoundedInduction, TLAPS

-----------------------------------------------------------------------------
(* The inductive invariant, in parts.                                      *)

Tx == [table : Tables, account : Accounts, new : Seq(Body), op : Nat,
       step : {"delete", "lock", "insert"},
       doomed : SUBSET Row, deleted : SUBSET Row, inserted : SUBSET Row]

Types ==
    /\ accounts \subseteq Accounts /\ rows \subseteq Row
    /\ next_id \in [Tables -> Nat] /\ requests \in Nat
    /\ tx \in [Editors -> Tx \cup {None}]
    /\ \A e \in Open : tx[e].new \in Lists[tx[e].table] /\ IsFiniteSet(tx[e].inserted)
    /\ got \in [accounts : (SUBSET Accounts) \cup {None}, rules : (SUBSET Row) \cup {None},
                upstreams : (SUBSET Row) \cup {None}]
    /\ got.upstreams # None => got.rules # None
    /\ cache \in [Accounts -> Policy \cup {None}]
    /\ held \in [Queries -> Row \cup {None}]
    /\ outcome \in [Queries -> {"within", "over", "error", None}]
    /\ counters \in [DOMAIN counters -> Nat]
    /\ log \in Seq([Accounts -> Policy \cup {None}]) /\ log # << >>

\* Every request has a number of its own, and no open one has rows stored.
Numbered ==
    /\ \A e \in Open : tx[e].op <= requests
    /\ \A e, f \in Open : tx[e].op = tx[f].op => e = f
    /\ \A r \in rows : r.op <= requests /\ \A e \in Open : r.op # tx[e].op

\* A request writes under its own number, for its own account and table.
Written ==
    \A e \in Open : \A r \in tx[e].inserted :
        /\ r.table = tx[e].table /\ r.account = tx[e].account
        /\ r.op = tx[e].op /\ r.size = Len(tx[e].new)

SameRequest(r, s) == r.table = s.table /\ r.op = s.op

\* T has all rows of S that were written by a request which wrote one of T's.
ClosedIn(T, S) == \A r \in T, s \in S : SameRequest(r, s) => s \in T

\* What a DELETE picks is the whole of requests that were committed.
DeletesWhole ==
    \A e \in Open :
        /\ ClosedIn(tx[e].doomed, rows) /\ ClosedIn(tx[e].deleted, rows)
        /\ \A r \in tx[e].doomed \cup tx[e].deleted :
              r.op <= requests /\ \A f \in Open : r.op # tx[f].op

\* The rows of a request are of one account.
OneAccount(S) == \A r, s \in S : SameRequest(r, s) => r.account = s.account

\* The three statements of a snapshot read the tables they name.
Snapshot ==
    /\ got.rules # None => OneAccount(got.rules) /\ \A r \in got.rules : r.table = "rules"
    /\ got.upstreams # None => \A r \in got.upstreams : r.table = "upstreams"

Groups == Numbered /\ Written /\ DeletesWhole /\ OneAccount(rows) /\ Snapshot /\ AllOrNothing

Version == [Accounts -> Policy \cup {None}]

\* The last version is what is stored, and a version has an account's own rules.
Latest ==
    /\ log[Len(log)] = PoliciesIn(accounts, rows)
    /\ \A r \in rows : r.account \in accounts
    /\ \A e \in Open : tx[e].account \in accounts
    /\ \A v \in DOMAIN log, a \in Accounts : log[v][a] # None =>
          \A r \in log[v][a].rules : r.table = "rules" /\ r.account = a

RulesAre(version, accts, S) ==
    \A a \in accts : version[a] # None /\ version[a].rules = RowsOf(S, "rules", a)
UpstreamsAre(version, accts, S) ==
    \A a \in accts : version[a] # None /\ version[a].upstream = Active(S, a)

\* What a snapshot has read so far is of one version, or of two in their order.
ReadLogged ==
    /\ got.accounts # None => got.accounts \subseteq accounts
    /\ got.rules # None =>
          got.accounts # None /\ \E v \in DOMAIN log : RulesAre(log[v], got.accounts, got.rules)
    /\ got.upstreams # None =>
          \E v, w \in DOMAIN log : /\ v <= w /\ RulesAre(log[v], got.accounts, got.rules)
                                   /\ UpstreamsAre(log[w], got.accounts, got.upstreams)

\* The rules that an account ever had.
Issued == {r \in Row : \E v \in DOMAIN log, a \in Accounts :
                           log[v][a] # None /\ r \in log[v][a].rules}

\* A query is charged for a limit rule that was in force.
HeldLogged == \A q \in Queries : held[q] # None => held[q].body.action = "limit" /\ held[q] \in Issued

Logged == Latest /\ ReadLogged /\ HalvesWereStored /\ HeldLogged

RuleRows(S) == {r \in S : r.table = "rules"}

Genuine(r) == r.id < next_id[r.table] /\ Accepted(r) /\ (r.table = "rules" => r.body \in RuleBody)

\* An id is given to one rule, and every rule passed the table's constraint.
IssuedIds ==
    /\ \A r \in Issued : Genuine(r)
    /\ \A r, s \in Issued : r.id = s.id => r = s

\* A row that is about to be stored has an id that no other has.
NewIds ==
    \A e \in Open : \A r \in tx[e].inserted :
        Genuine(r) /\ (r.table = "rules" => \A s \in Issued : r.id # s.id)
Apart ==
    \A e, f \in Open : \A r \in tx[e].inserted, s \in tx[f].inserted :
        r.table = s.table /\ r.id = s.id => r = s

\* Only rules that were stored are deleted.
DeletesIssued ==
    \A e \in Open : RuleRows(tx[e].doomed \cup tx[e].deleted) \subseteq Issued

Ids == IssuedIds /\ NewIds /\ Apart /\ DeletesIssued

Through(r) == {p \in Queries : outcome[p] = "within" /\ held[p] = r}

\* Only a query that was decided is charged.
Decided == \A q \in Queries : outcome[q] # None => held[q] # None

\* A counter counts what its rule let through.
Counted ==
    /\ \A q \in Queries : outcome[q] = "within" /\ held[q] \in rows => held[q].id \in DOMAIN counters
    /\ \A r \in RuleRows(rows) : r.id \in DOMAIN counters => counters[r.id] = Cardinality(Through(r))

Charges == Decided /\ BudgetHolds /\ ChargesFollowRules /\ Counted

IInv == Types /\ Groups /\ Logged /\ Ids /\ Charges

-----------------------------------------------------------------------------
(* Types.                                                                  *)

\* A set of rows that is not empty has an oldest one.
LEMMA OldestRow ==
    ASSUME NEW S \in SUBSET Row, S # {}
    PROVE  \E r \in S : \A s \in S : r.id <= s.id
<1> DEFINE ids == {r.id : r \in S}
<1>1. ids \subseteq Nat /\ ids # {}
  BY DEF Row
<1> HIDE DEF ids
<1>2. PICK n \in ids : \A m \in ids : <<m, n>> \notin OpToRel(<, Nat)
  BY <1>1, WFMin, NatLessThanWellFounded, Zenon
<1>3. \A m \in ids : ~(m < n)
  BY <1>1, <1>2, Zenon DEF OpToRel
<1>4. \A m \in ids : n <= m
  <2> TAKE m \in ids
  <2>1. m \in Nat /\ n \in Nat /\ ~(m < n)
    BY <1>1, <1>2, <1>3
  <2> QED  BY <2>1
<1> QED  BY <1>2, <1>4 DEF ids

LEMMA PolicyType ==
    ASSUME NEW accts, NEW stored \in SUBSET Row, NEW a \in Accounts
    PROVE  /\ Active(stored, a) \in Row \cup {None}
           /\ a \in accts => /\ PolicyIn(accts, stored, a) \in Policy
                             /\ PolicyIn(accts, stored, a) # None
                             /\ PolicyIn(accts, stored, a).rules = RowsOf(stored, "rules", a)
                             /\ PolicyIn(accts, stored, a).upstream = Active(stored, a)
           /\ a \notin accts => PolicyIn(accts, stored, a) = None
<1> DEFINE own == RowsOf(stored, "upstreams", a)
<1>1. own \subseteq Row /\ RowsOf(stored, "rules", a) \subseteq Row
  BY DEF RowsOf
<1>2. Active(stored, a) \in Row \cup {None}
  <2>1. CASE own = {}
    BY <2>1 DEF Active
  <2>2. CASE own # {}
    <3>1. Active(stored, a) = CHOOSE r \in own : \A s \in own : r.id <= s.id
      BY <2>2 DEF Active
    <3>2. \E r \in own : \A s \in own : r.id <= s.id
      BY <1>1, <2>2, OldestRow
    <3> QED  BY <1>1, <3>1, <3>2
  <2> QED  BY <2>1, <2>2
<1> QED  BY <1>1, <1>2, NoneIsDistinct DEF PolicyIn, Policy

Oldest(own) == IF own = {} THEN None ELSE CHOOSE r \in own : \A s \in own : r.id <= s.id

\* The active upstream depends on the account's upstreams alone.
LEMMA SameActive ==
    ASSUME NEW S, NEW T, NEW a, RowsOf(S, "upstreams", a) = RowsOf(T, "upstreams", a)
    PROVE  Active(S, a) = Active(T, a)
<1>1. /\ Active(S, a) = Oldest(RowsOf(S, "upstreams", a))
      /\ Active(T, a) = Oldest(RowsOf(T, "upstreams", a))
  BY Zenon DEF Active, Oldest
<1> QED  BY <1>1

LEMMA PoliciesType ==
    ASSUME NEW accts, NEW stored \in SUBSET Row
    PROVE  PoliciesIn(accts, stored) \in [Accounts -> Policy \cup {None}]
BY PolicyType DEF PoliciesIn

\* The history after a change: it is what it was, or has one more version.
LEMMA ChangeType ==
    ASSUME Types, NEW accts \in SUBSET Accounts, NEW stored \in SUBSET Row, Change(accts, stored)
    PROVE  /\ accounts' \subseteq Accounts /\ rows' \subseteq Row
           /\ log' \in Seq([Accounts -> Policy \cup {None}]) /\ log' # << >>
<1>1. CASE log' = log
  BY <1>1 DEF Change, Types
<1>2. CASE log' = Append(log, PoliciesIn(accts, stored))
  <2>1. PoliciesIn(accts, stored) \in [Accounts -> Policy \cup {None}]
    BY PoliciesType
  <2> QED  BY <1>2, <2>1 DEF Change, Types
<1> QED  BY <1>1, <1>2 DEF Change

LEMMA NextRowType ==
    ASSUME Types, NEW e \in Open, Cardinality(tx[e].inserted) < Len(tx[e].new)
    PROVE  /\ NextRow(e) \in Row
           /\ NextRow(e).table = "rules" => NextRow(e).body \in RuleBody
<1> DEFINE t == tx[e]
           i == Cardinality(t.inserted)
<1>1. t \in Tx /\ t.new \in Lists[t.table] /\ i \in Nat
  BY FS_CardinalityType DEF Types, Open
<1>2. t.new \in Seq(Body) /\ t.new[i + 1] \in Body
  BY <1>1 DEF Tx
<1>3. t.table = "rules" => t.new[i + 1] \in RuleBody
  BY <1>1, PgAssumption
<1>4. next_id[t.table] \in Nat /\ Len(t.new) \in Nat
  BY <1>1, <1>2 DEF Types, Tx
<1> HIDE DEF i
<1>5. NextRow(e) = [table |-> t.table, id |-> next_id[t.table], account |-> t.account,
                    position |-> i, body |-> t.new[i + 1], op |-> t.op, size |-> Len(t.new)]
  BY DEF NextRow, i
<1> QED  BY <1>1, <1>2, <1>3, <1>4, <1>5 DEF Row, Tx

\* A request's transaction is of its type when it begins.
LEMMA NewTxType ==
    ASSUME NEW table \in Tables, NEW a \in Accounts, NEW new \in Lists[table], NEW n \in Nat
    PROVE  [table |-> table, account |-> a, new |-> new, op |-> n, step |-> "delete",
            doomed |-> {}, deleted |-> {}, inserted |-> {}] \in Tx
<1>1. new \in Seq(Range(new)) /\ Range(new) \subseteq Body
  <2>1. CASE table = "rules"
    BY <2>1, PgAssumption DEF Body, Range
  <2>2. CASE table = "upstreams"
    BY <2>2, PgAssumption DEF Body
  <2> QED  BY <2>1, <2>2 DEF Tables
<1>2. new \in Seq(Body)
  BY <1>1
<1> QED  BY <1>2 DEF Tx

LEMMA InitialTypes == Init => Types
<1> SUFFICES ASSUME Init PROVE Types
  OBVIOUS
<1>1. log = <<[a \in Accounts |-> None]>> /\ [a \in Accounts |-> None] \in [Accounts -> Policy \cup {None}]
  BY DEF Init
<1>2. log \in Seq([Accounts -> Policy \cup {None}]) /\ log # << >>
  BY <1>1
<1>3. Open = {}
  BY DEF Init, Open
<1>4. counters \in [DOMAIN counters -> Nat]
  BY DEF Init
<1>5. /\ got \in [accounts : (SUBSET Accounts) \cup {None}, rules : (SUBSET Row) \cup {None},
                 upstreams : (SUBSET Row) \cup {None}]
      /\ got.upstreams # None => got.rules # None
  BY DEF Init, Nothing
<1>6. /\ tx \in [Editors -> Tx \cup {None}] /\ cache \in [Accounts -> Policy \cup {None}]
      /\ held \in [Queries -> Row \cup {None}]
      /\ outcome \in [Queries -> {"within", "over", "error", None}]
  BY DEF Init
<1>7. /\ accounts \subseteq Accounts /\ rows \subseteq Row
      /\ next_id \in [Tables -> Nat] /\ requests \in Nat
  BY DEF Init
<1> QED  BY <1>2, <1>3, <1>4, <1>5, <1>6, <1>7 DEF Types

\* The transactions of the other requests are as they were.
LEMMA TxStep ==
    ASSUME Types, NEW e \in Editors, NEW t \in Tx \cup {None},
           t # None => t.new \in Lists[t.table] /\ IsFiniteSet(t.inserted),
           tx' = [tx EXCEPT ![e] = t]
    PROVE  /\ tx' \in [Editors -> Tx \cup {None}] /\ tx'[e] = t
           /\ \A f \in Editors : f # e => tx'[f] = tx[f]
           /\ Open' = (Open \ {e}) \cup (IF t = None THEN {} ELSE {e})
           /\ \A f \in Open' : tx'[f].new \in Lists[tx'[f].table] /\ IsFiniteSet(tx'[f].inserted)
<1>1. /\ tx' \in [Editors -> Tx \cup {None}] /\ tx'[e] = t
      /\ \A f \in Editors : f # e => tx'[f] = tx[f]
  BY DEF Types
<1>2. Open' = (Open \ {e}) \cup (IF t = None THEN {} ELSE {e})
  BY <1>1 DEF Open
<1>3. ASSUME NEW f \in Open'
      PROVE  tx'[f].new \in Lists[tx'[f].table] /\ IsFiniteSet(tx'[f].inserted)
  <2>1. CASE f = e
    BY <1>1, <1>2, <1>3, <2>1
  <2>2. CASE f # e
    BY <1>1, <1>2, <1>3, <2>2 DEF Types, Open
  <2> QED  BY <2>1, <2>2
<1> QED  BY <1>1, <1>2, <1>3

\* What each statement of a request leaves in its transaction.
LEMMA BeginTx ==
    ASSUME Types, NEW e \in Editors, NEW table \in Tables, NEW a \in Accounts,
           NEW new \in Lists[table], Begin(e, table, a, new)
    PROVE  \E t \in Tx : /\ tx' = [tx EXCEPT ![e] = t]
                         /\ t = [table |-> table, account |-> a, new |-> new, op |-> requests + 1,
                                 step |-> "delete", doomed |-> {}, deleted |-> {}, inserted |-> {}]
<1>1. requests' = requests + 1 /\ requests + 1 \in Nat
  BY DEF Begin, Types
<1> QED  BY <1>1, NewTxType DEF Begin

LEMMA StartDeleteTx ==
    ASSUME Types, NEW e \in Editors, StartDelete(e)
    PROVE  \E t \in Tx : /\ tx' = [tx EXCEPT ![e] = t]
                         /\ t = [tx[e] EXCEPT !.step = "lock",
                                              !.doomed = RowsOf(rows, tx[e].table, tx[e].account)]
<1>1. tx[e] \in Tx /\ RowsOf(rows, tx[e].table, tx[e].account) \in SUBSET Row
  BY DEF StartDelete, Types, RowsOf
<1>2. [tx[e] EXCEPT !.step = "lock", !.doomed = RowsOf(rows, tx[e].table, tx[e].account)] \in Tx
  BY <1>1 DEF Tx
<1> QED  BY <1>2 DEF StartDelete, Types

LEMMA FinishDeleteTx ==
    ASSUME Types, NEW e \in Editors, FinishDelete(e)
    PROVE  \E t \in Tx : /\ tx' = [tx EXCEPT ![e] = t]
                         /\ t = [tx[e] EXCEPT !.step = "insert", !.doomed = {},
                                              !.deleted = tx[e].doomed \cap rows]
<1>1. tx[e] \in Tx /\ tx[e].doomed \cap rows \in SUBSET Row
  BY DEF FinishDelete, Types
<1>2. [tx[e] EXCEPT !.step = "insert", !.doomed = {}, !.deleted = tx[e].doomed \cap rows] \in Tx
  BY <1>1 DEF Tx
<1> QED  BY <1>2 DEF FinishDelete, Types

LEMMA InsertTx ==
    ASSUME Types, NEW e \in Editors, Insert(e)
    PROVE  /\ NextRow(e) \in Row /\ e \in Open
           /\ NextRow(e).table = tx[e].table
           /\ next_id' = [next_id EXCEPT ![tx[e].table] = @ + 1] /\ next_id' \in [Tables -> Nat]
           /\ \/ tx' = [tx EXCEPT ![e] = None]
              \/ /\ Accepted(NextRow(e))
                 /\ \E t \in Tx : /\ tx' = [tx EXCEPT ![e] = t]
                                  /\ t = [tx[e] EXCEPT !.inserted = tx[e].inserted \cup {NextRow(e)}]
<1>1. e \in Open /\ tx[e] \in Tx /\ Cardinality(tx[e].inserted) < Len(tx[e].new)
  BY DEF Insert, Open, Types
<1>2. NextRow(e) \in Row
  BY <1>1, NextRowType
<1>3. NextRow(e).table = tx[e].table
  BY DEF NextRow
<1>4. [tx[e] EXCEPT !.inserted = tx[e].inserted \cup {NextRow(e)}] \in Tx
  BY <1>1, <1>2 DEF Tx
<1>5. next_id' = [next_id EXCEPT ![tx[e].table] = @ + 1] /\ next_id' \in [Tables -> Nat]
  BY <1>1, <1>3 DEF Insert, Types, Tx
<1>6. \/ tx' = [tx EXCEPT ![e] = None]
      \/ /\ Accepted(NextRow(e))
         /\ tx' = [tx EXCEPT ![e] = [tx[e] EXCEPT !.inserted = tx[e].inserted \cup {NextRow(e)}]]
  BY DEF Insert, Types
<1> QED  BY <1>1, <1>2, <1>3, <1>4, <1>5, <1>6

\* What a commit stores, and that it leaves the request without a transaction.
LEMMA CommitTypes ==
    ASSUME Types, NEW e \in Editors, Commit(e)
    PROVE  /\ e \in Open /\ tx' = [tx EXCEPT ![e] = None]
           /\ rows' = (rows \ tx[e].deleted) \cup tx[e].inserted
           /\ accounts' = accounts
           /\ Types'
<1>1. e \in Open /\ tx[e] \in Tx /\ tx' = [tx EXCEPT ![e] = None]
  BY DEF Commit, Open, Types
<1>2. (rows \ tx[e].deleted) \cup tx[e].inserted \in SUBSET Row
  BY <1>1 DEF Types, Tx
<1>3. Change(accounts, (rows \ tx[e].deleted) \cup tx[e].inserted)
  BY DEF Commit
<1>4. /\ accounts' \subseteq Accounts /\ rows' \subseteq Row
      /\ log' \in Seq([Accounts -> Policy \cup {None}]) /\ log' # << >>
  BY <1>2, <1>3, ChangeType DEF Types
<1>5. counters' \in [DOMAIN counters' -> Nat]
  BY DEF Commit, Cascaded, Restrict, Types
<1>6. /\ tx' \in [Editors -> Tx \cup {None}]
      /\ \A f \in Open' : tx'[f].new \in Lists[tx'[f].table] /\ IsFiniteSet(tx'[f].inserted)
  BY <1>1, TxStep
<1>7. UNCHANGED <<next_id, requests, got, cache, held, outcome>>
  BY DEF Commit, reader, query
<1>8. Types'
  BY <1>4, <1>5, <1>6, <1>7 DEF Types
<1>9. rows' = (rows \ tx[e].deleted) \cup tx[e].inserted /\ accounts' = accounts
  BY <1>3 DEF Change
<1> QED  BY <1>1, <1>8, <1>9

LEMMA TypesStep == Types /\ [Next]_vars => Types'
<1> SUFFICES ASSUME Types, [Next]_vars PROVE Types'
  OBVIOUS
<1>1. ASSUME NEW e \in Editors, NEW table \in Tables, NEW a \in Accounts,
             NEW new \in Lists[table], Begin(e, table, a, new)
      PROVE  Types'
  <2>1. PICK t \in Tx : /\ tx' = [tx EXCEPT ![e] = t]
                        /\ t = [table |-> table, account |-> a, new |-> new, op |-> requests + 1,
                                step |-> "delete", doomed |-> {}, deleted |-> {}, inserted |-> {}]
    BY <1>1, BeginTx
  <2>2. t.new \in Lists[t.table] /\ IsFiniteSet(t.inserted)
    BY <2>1, FS_EmptySet
  <2>3. /\ tx' \in [Editors -> Tx \cup {None}]
        /\ \A f \in Open' : tx'[f].new \in Lists[tx'[f].table] /\ IsFiniteSet(tx'[f].inserted)
    BY <2>1, <2>2, TxStep
  <2>4. accounts \cup {a} \in SUBSET Accounts /\ rows \in SUBSET Row
    BY DEF Types
  <2>5. /\ accounts' \subseteq Accounts /\ rows' \subseteq Row
        /\ log' \in Seq([Accounts -> Policy \cup {None}]) /\ log' # << >>
    BY <1>1, <2>4, ChangeType DEF Begin
  <2>6. requests' \in Nat /\ UNCHANGED <<next_id, counters, got, cache, held, outcome>>
    BY <1>1 DEF Begin, reader, query, Types
  <2> QED  BY <2>3, <2>5, <2>6 DEF Types
<1>2. ASSUME NEW e \in Editors, StartDelete(e) PROVE Types'
  <2>1. PICK t \in Tx : /\ tx' = [tx EXCEPT ![e] = t]
                        /\ t = [tx[e] EXCEPT !.step = "lock",
                                             !.doomed = RowsOf(rows, tx[e].table, tx[e].account)]
    BY <1>2, StartDeleteTx
  <2>2. e \in Open /\ tx[e] \in Tx
    BY <1>2 DEF StartDelete, Open, Types
  <2>3. t.new \in Lists[t.table] /\ IsFiniteSet(t.inserted)
    <3>1. t.new = tx[e].new /\ t.table = tx[e].table /\ t.inserted = tx[e].inserted
      BY <2>1, <2>2 DEF Tx
    <3> QED  BY <2>2, <3>1 DEF Types
  <2>4. /\ tx' \in [Editors -> Tx \cup {None}]
        /\ \A f \in Open' : tx'[f].new \in Lists[tx'[f].table] /\ IsFiniteSet(tx'[f].inserted)
    BY <2>1, <2>3, TxStep
  <2>5. UNCHANGED <<accounts, rows, next_id, requests, got, cache, held, outcome, counters, log>>
    BY <1>2 DEF StartDelete, tables, reader, query
  <2> QED  BY <2>4, <2>5 DEF Types
<1>3. ASSUME NEW e \in Editors, FinishDelete(e) PROVE Types'
  <2>1. PICK t \in Tx : /\ tx' = [tx EXCEPT ![e] = t]
                        /\ t = [tx[e] EXCEPT !.step = "insert", !.doomed = {},
                                             !.deleted = tx[e].doomed \cap rows]
    BY <1>3, FinishDeleteTx
  <2>2. e \in Open /\ tx[e] \in Tx
    BY <1>3 DEF FinishDelete, Open, Types
  <2>3. t.new \in Lists[t.table] /\ IsFiniteSet(t.inserted)
    <3>1. t.new = tx[e].new /\ t.table = tx[e].table /\ t.inserted = tx[e].inserted
      BY <2>1, <2>2 DEF Tx
    <3> QED  BY <2>2, <3>1 DEF Types
  <2>4. /\ tx' \in [Editors -> Tx \cup {None}]
        /\ \A f \in Open' : tx'[f].new \in Lists[tx'[f].table] /\ IsFiniteSet(tx'[f].inserted)
    BY <2>1, <2>3, TxStep
  <2>5. UNCHANGED <<accounts, rows, next_id, requests, got, cache, held, outcome, counters, log>>
    BY <1>3 DEF FinishDelete, tables, reader, query
  <2> QED  BY <2>4, <2>5 DEF Types
<1>4. ASSUME NEW e \in Editors, Insert(e) PROVE Types'
  <2>1. e \in Open /\ tx[e] \in Tx /\ next_id' \in [Tables -> Nat]
    BY <1>4, InsertTx DEF Open, Types
  <2>2. UNCHANGED <<accounts, rows, requests, got, cache, held, outcome, counters, log>>
    BY <1>4 DEF Insert, tables, reader, query
  <2>3. /\ tx' \in [Editors -> Tx \cup {None}]
        /\ \A f \in Open' : tx'[f].new \in Lists[tx'[f].table] /\ IsFiniteSet(tx'[f].inserted)
    <3>1. CASE tx' = [tx EXCEPT ![e] = None]
      BY <3>1, TxStep
    <3>2. ASSUME NEW t \in Tx, tx' = [tx EXCEPT ![e] = t],
                 t = [tx[e] EXCEPT !.inserted = tx[e].inserted \cup {NextRow(e)}]
          PROVE  /\ tx' \in [Editors -> Tx \cup {None}]
                 /\ \A f \in Open' : tx'[f].new \in Lists[tx'[f].table] /\ IsFiniteSet(tx'[f].inserted)
      <4>1. t.new = tx[e].new /\ t.table = tx[e].table /\ t.inserted = tx[e].inserted \cup {NextRow(e)}
        BY <2>1, <3>2 DEF Tx
      <4>2. t.new \in Lists[t.table] /\ IsFiniteSet(t.inserted)
        <5>1. IsFiniteSet(tx[e].inserted) /\ tx[e].new \in Lists[tx[e].table]
          BY <2>1 DEF Types
        <5>2. IsFiniteSet(tx[e].inserted \cup {NextRow(e)})
          BY <5>1, FS_AddElement, Zenon
        <5> QED  BY <4>1, <5>1, <5>2, Zenon
      <4> QED  BY <3>2, <4>2, TxStep
    <3> QED  BY <1>4, <3>1, <3>2, InsertTx
  <2> QED  BY <2>1, <2>2, <2>3 DEF Types
<1>5. ASSUME NEW e \in Editors, Commit(e) PROVE Types'
  BY <1>5, CommitTypes
<1>6. ASSUME NEW e \in Editors, Rollback(e) PROVE Types'
  <2>1. /\ tx' \in [Editors -> Tx \cup {None}]
        /\ \A f \in Open' : tx'[f].new \in Lists[tx'[f].table] /\ IsFiniteSet(tx'[f].inserted)
    BY <1>6, TxStep DEF Rollback
  <2>2. UNCHANGED <<accounts, rows, next_id, requests, got, cache, held, outcome, counters, log>>
    BY <1>6 DEF Rollback, tables, reader, query
  <2> QED  BY <2>1, <2>2 DEF Types
<1>7. CASE ReadAccounts \/ ReadRules \/ ReadUpstreams
  <2>1. /\ got' \in [accounts : (SUBSET Accounts) \cup {None}, rules : (SUBSET Row) \cup {None},
                     upstreams : (SUBSET Row) \cup {None}]
        /\ got'.upstreams # None => got'.rules # None
    BY <1>7 DEF ReadAccounts, ReadRules, ReadUpstreams, Types, Nothing
  <2>2. UNCHANGED <<accounts, rows, next_id, requests, tx, cache, held, outcome, counters, log>>
    BY <1>7 DEF ReadAccounts, ReadRules, ReadUpstreams, tables, query
  <2> QED  BY <2>1, <2>2 DEF Types, Open
<1>8. CASE Install
  <2>1. /\ got' \in [accounts : (SUBSET Accounts) \cup {None}, rules : (SUBSET Row) \cup {None},
                     upstreams : (SUBSET Row) \cup {None}]
        /\ got'.upstreams # None => got'.rules # None
    BY <1>8 DEF Install, Nothing
  <2>2. cache' \in [Accounts -> Policy \cup {None}]
    <3>1. got.rules \cup got.upstreams \in SUBSET Row
      BY <1>8 DEF Install, Types
    <3> QED  BY <1>8, <3>1, PoliciesType DEF Install
  <2>3. UNCHANGED <<accounts, rows, next_id, requests, tx, held, outcome, counters, log>>
    BY <1>8 DEF Install, tables, query
  <2> QED  BY <2>1, <2>2, <2>3 DEF Types, Open
<1>9. ASSUME NEW q \in Queries, NEW a \in Accounts, Decide(q, a) PROVE Types'
  <2>1. held' \in [Queries -> Row \cup {None}]
    <3>1. cache[a] \in Policy
      BY <1>9 DEF Decide, Types
    <3> QED  BY <1>9, <3>1 DEF Decide, Types, Policy
  <2>2. UNCHANGED <<accounts, rows, next_id, requests, tx, got, cache, outcome, counters, log>>
    BY <1>9 DEF Decide, tables, reader
  <2> QED  BY <2>1, <2>2 DEF Types, Open
<1>10. ASSUME NEW q \in Queries, RecordQuota(q) PROVE Types'
  <2>1. outcome' \in [Queries -> {"within", "over", "error", None}]
    BY <1>10 DEF RecordQuota, Types
  <2>2. counters' \in [DOMAIN counters' -> Nat]
    BY <1>10 DEF RecordQuota, Types
  <2>3. UNCHANGED <<accounts, rows, next_id, requests, tx, got, cache, held, log>>
    BY <1>10 DEF RecordQuota, reader
  <2> QED  BY <2>1, <2>2, <2>3 DEF Types, Open
<1>11. CASE UNCHANGED vars
  BY <1>11 DEF vars, Types, Open
<1> QED  BY <1>1, <1>2, <1>3, <1>4, <1>5, <1>6, <1>7, <1>8, <1>9, <1>10, <1>11 DEF Next

-----------------------------------------------------------------------------
(* Requests are whole.                                                     *)

\* Whoever has all of the requests he has rows of has whole requests.
LEMMA WholePart ==
    ASSUME NEW S, Whole(S), NEW T \in SUBSET S, ClosedIn(T, S)
    PROVE  Whole(T)
<1> SUFFICES ASSUME NEW r \in T
             PROVE  Cardinality({s \in T : s.table = r.table /\ s.op = r.op}) = r.size
  BY DEF Whole
<1>1. {s \in T : s.table = r.table /\ s.op = r.op} = {s \in S : s.table = r.table /\ s.op = r.op}
  BY DEF ClosedIn, SameRequest
<1> QED  BY <1>1 DEF Whole

\* A step that leaves the tables and opens no request.
LEMMA QuietStep ==
    ASSUME Types, Groups, UNCHANGED <<rows, requests, got, cache>>, Open' \subseteq Open,
           \A f \in Open' : tx'[f].op = tx[f].op
    PROVE  Numbered' /\ OneAccount(rows)' /\ Snapshot' /\ AllOrNothing'
<1>1. Numbered'
  BY DEF Groups, Numbered
<1>2. OneAccount(rows)' /\ Snapshot' /\ AllOrNothing'
  BY DEF Groups, OneAccount, SameRequest, Snapshot, AllOrNothing, Whole
<1> QED  BY <1>1, <1>2

LEMMA BeginGroups ==
    ASSUME Types, Groups, NEW e \in Editors, NEW table \in Tables, NEW a \in Accounts,
           NEW new \in Lists[table], Begin(e, table, a, new)
    PROVE  Groups'
<1>1. PICK t \in Tx : /\ tx' = [tx EXCEPT ![e] = t]
                      /\ t = [table |-> table, account |-> a, new |-> new, op |-> requests + 1,
                              step |-> "delete", doomed |-> {}, deleted |-> {}, inserted |-> {}]
  BY BeginTx
<1>2. t.op = requests + 1 /\ t.doomed = {} /\ t.deleted = {} /\ t.inserted = {}
  BY <1>1
<1>3. rows' = rows /\ requests' = requests + 1 /\ requests \in Nat /\ UNCHANGED <<got, cache>>
  BY DEF Begin, Change, Types, reader
<1>4. e \notin Open
  BY DEF Begin, Open
<1>5. /\ tx'[e] = t /\ \A f \in Open : tx'[f] = tx[f] /\ tx[f] \in Tx
      /\ Open' \subseteq Open \cup {e}
  BY <1>1, <1>4 DEF Open, Types
<1>6. Numbered'
  <2>1. \A f \in Open : tx[f].op \in Nat /\ tx[f].op <= requests
    BY <1>5 DEF Groups, Numbered, Tx
  <2>2. \A r \in rows : r.op \in Nat /\ r.op <= requests
    BY DEF Groups, Numbered, Types, Row
  <2>3. \A f \in Open' : tx'[f].op <= requests'
    BY <1>2, <1>3, <1>5, <2>1
  <2>4. \A f, g \in Open' : tx'[f].op = tx'[g].op => f = g
    BY <1>2, <1>3, <1>5, <2>1 DEF Groups, Numbered
  <2>5. \A r \in rows' : r.op <= requests' /\ \A f \in Open' : r.op # tx'[f].op
    BY <1>2, <1>3, <1>5, <2>2 DEF Groups, Numbered
  <2> QED  BY <2>3, <2>4, <2>5 DEF Numbered
<1>7. Written'
  BY <1>2, <1>5 DEF Groups, Written
<1>8. DeletesWhole'
  <2>1. ASSUME NEW f \in Open, NEW r \in tx[f].doomed \cup tx[f].deleted
        PROVE  r.op <= requests' /\ \A g \in Open' : r.op # tx'[g].op
    <3>1. r.op \in Nat /\ r.op <= requests /\ \A g \in Open : r.op # tx[g].op
      BY <1>5 DEF Groups, DeletesWhole, Tx, Row
    <3> QED  BY <1>2, <1>3, <1>5, <3>1
  <2>2. ASSUME NEW f \in Open'
        PROVE  /\ ClosedIn(tx'[f].doomed, rows') /\ ClosedIn(tx'[f].deleted, rows')
               /\ \A r \in tx'[f].doomed \cup tx'[f].deleted :
                     r.op <= requests' /\ \A g \in Open' : r.op # tx'[g].op
    <3>1. CASE f = e
      BY <1>2, <1>5, <3>1 DEF ClosedIn
    <3>2. CASE f \in Open
      BY <1>3, <1>5, <2>1, <3>2 DEF Groups, DeletesWhole
    <3> QED  BY <1>5, <3>1, <3>2
  <2> QED  BY <2>2 DEF DeletesWhole, ClosedIn, SameRequest
<1>9. OneAccount(rows)' /\ Snapshot' /\ AllOrNothing'
  BY <1>3 DEF Groups, OneAccount, SameRequest, Snapshot, AllOrNothing, Whole
<1> QED  BY <1>6, <1>7, <1>8, <1>9 DEF Groups

\* A request that is open goes on as t, which keeps its number.
LEMMA GoOn ==
    ASSUME Types, Groups, NEW e \in Open, NEW t \in Tx, tx' = [tx EXCEPT ![e] = t], t.op = tx[e].op,
           UNCHANGED <<rows, requests, got, cache>>
    PROVE  /\ tx'[e] = t /\ Open' \subseteq Open
           /\ \A f \in Open : tx'[f].op = tx[f].op /\ (f # e => tx'[f] = tx[f])
           /\ Numbered' /\ OneAccount(rows)' /\ Snapshot' /\ AllOrNothing'
<1>1. tx'[e] = t /\ \A f \in Open : tx'[f].op = tx[f].op /\ (f # e => tx'[f] = tx[f])
  BY DEF Open, Types
<1>2. Open' \subseteq Open
  BY DEF Open, Types
<1> QED  BY <1>1, <1>2, QuietStep

LEMMA StartDeleteGroups ==
    ASSUME Types, Groups, NEW e \in Editors, StartDelete(e)
    PROVE  Groups'
<1> DEFINE picked == RowsOf(rows, tx[e].table, tx[e].account)
<1>1. PICK t \in Tx : tx' = [tx EXCEPT ![e] = t] /\ t = [tx[e] EXCEPT !.step = "lock", !.doomed = picked]
  BY StartDeleteTx
<1>2. e \in Open /\ tx[e] \in Tx /\ UNCHANGED <<rows, requests, got, cache>>
  BY DEF StartDelete, Open, Types, tables, reader
<1>3. /\ t.op = tx[e].op /\ t.table = tx[e].table /\ t.account = tx[e].account /\ t.new = tx[e].new
      /\ t.doomed = picked /\ t.deleted = tx[e].deleted /\ t.inserted = tx[e].inserted
  BY <1>1, <1>2 DEF Tx
<1>4. /\ tx'[e] = t /\ Open' \subseteq Open
      /\ \A f \in Open : tx'[f].op = tx[f].op /\ (f # e => tx'[f] = tx[f])
      /\ Numbered' /\ OneAccount(rows)' /\ Snapshot' /\ AllOrNothing'
  BY <1>1, <1>2, <1>3, GoOn
<1>5. Written'
  BY <1>2, <1>3, <1>4 DEF Groups, Written
<1>6. DeletesWhole'
  <2>1. ClosedIn(picked, rows) /\ \A r \in picked : r.op <= requests /\ \A f \in Open : r.op # tx[f].op
    BY DEF ClosedIn, SameRequest, RowsOf, Groups, OneAccount, Numbered
  <2>2. ASSUME NEW f \in Open'
        PROVE  /\ ClosedIn(tx'[f].doomed, rows) /\ ClosedIn(tx'[f].deleted, rows)
               /\ \A r \in tx'[f].doomed \cup tx'[f].deleted :
                     r.op <= requests /\ \A g \in Open : r.op # tx[g].op
    BY <1>2, <1>3, <1>4, <2>1 DEF Groups, DeletesWhole
  <2> QED  BY <1>2, <1>4, <2>2 DEF DeletesWhole, ClosedIn, SameRequest
<1> QED  BY <1>4, <1>5, <1>6 DEF Groups

LEMMA FinishDeleteGroups ==
    ASSUME Types, Groups, NEW e \in Editors, FinishDelete(e)
    PROVE  Groups'
<1> DEFINE found == tx[e].doomed \cap rows
<1>1. PICK t \in Tx : /\ tx' = [tx EXCEPT ![e] = t]
                      /\ t = [tx[e] EXCEPT !.step = "insert", !.doomed = {}, !.deleted = found]
  BY FinishDeleteTx
<1>2. e \in Open /\ tx[e] \in Tx /\ UNCHANGED <<rows, requests, got, cache>>
  BY DEF FinishDelete, Open, Types, tables, reader
<1>3. /\ t.op = tx[e].op /\ t.table = tx[e].table /\ t.account = tx[e].account /\ t.new = tx[e].new
      /\ t.doomed = {} /\ t.deleted = found /\ t.inserted = tx[e].inserted
  BY <1>1, <1>2 DEF Tx
<1>4. /\ tx'[e] = t /\ Open' \subseteq Open
      /\ \A f \in Open : tx'[f].op = tx[f].op /\ (f # e => tx'[f] = tx[f])
      /\ Numbered' /\ OneAccount(rows)' /\ Snapshot' /\ AllOrNothing'
  BY <1>1, <1>2, <1>3, GoOn
<1>5. Written'
  BY <1>2, <1>3, <1>4 DEF Groups, Written
<1>6. DeletesWhole'
  <2>1. /\ ClosedIn({}, rows) /\ ClosedIn(found, rows)
        /\ \A r \in found : r.op <= requests /\ \A f \in Open : r.op # tx[f].op
    BY <1>2 DEF ClosedIn, SameRequest, Groups, DeletesWhole
  <2>2. ASSUME NEW f \in Open'
        PROVE  /\ ClosedIn(tx'[f].doomed, rows) /\ ClosedIn(tx'[f].deleted, rows)
               /\ \A r \in tx'[f].doomed \cup tx'[f].deleted :
                     r.op <= requests /\ \A g \in Open : r.op # tx[g].op
    <3>1. CASE f = e
      BY <1>3, <1>4, <2>1, <3>1
    <3>2. CASE f # e
      BY <1>4, <3>2 DEF Groups, DeletesWhole
    <3> QED  BY <3>1, <3>2
  <2> QED  BY <1>2, <1>4, <2>2 DEF DeletesWhole, ClosedIn, SameRequest
<1> QED  BY <1>4, <1>5, <1>6 DEF Groups

\* What a request leaves when it rolls back is what there was.
LEMMA LeaveGroups ==
    ASSUME Types, Groups, NEW e \in Editors, tx' = [tx EXCEPT ![e] = None],
           UNCHANGED <<rows, requests, got, cache>>
    PROVE  Groups'
<1>1. Open' \subseteq Open /\ \A f \in Open' : tx'[f] = tx[f]
  BY DEF Open, Types
<1>2. Numbered' /\ OneAccount(rows)' /\ Snapshot' /\ AllOrNothing'
  BY <1>1, QuietStep
<1>3. Written'
  BY <1>1 DEF Groups, Written
<1>4. DeletesWhole'
  BY <1>1 DEF Groups, DeletesWhole, ClosedIn, SameRequest
<1> QED  BY <1>2, <1>3, <1>4 DEF Groups

LEMMA InsertGroups ==
    ASSUME Types, Groups, NEW e \in Editors, Insert(e)
    PROVE  Groups'
<1>1. e \in Open /\ tx[e] \in Tx /\ UNCHANGED <<rows, requests, got, cache>>
  BY DEF Insert, Open, Types, tables, reader
<1>2. CASE tx' = [tx EXCEPT ![e] = None]
  BY <1>1, <1>2, LeaveGroups
<1>3. ASSUME NEW t \in Tx, tx' = [tx EXCEPT ![e] = t],
             t = [tx[e] EXCEPT !.inserted = tx[e].inserted \cup {NextRow(e)}]
      PROVE  Groups'
  <2>1. /\ t.op = tx[e].op /\ t.table = tx[e].table /\ t.account = tx[e].account /\ t.new = tx[e].new
        /\ t.doomed = tx[e].doomed /\ t.deleted = tx[e].deleted
        /\ t.inserted = tx[e].inserted \cup {NextRow(e)}
    BY <1>1, <1>3 DEF Tx
  <2>2. /\ tx'[e] = t /\ Open' \subseteq Open
        /\ \A f \in Open : tx'[f].op = tx[f].op /\ (f # e => tx'[f] = tx[f])
        /\ Numbered' /\ OneAccount(rows)' /\ Snapshot' /\ AllOrNothing'
    BY <1>1, <1>3, <2>1, GoOn
  <2>3. Written'
    <3>1. /\ NextRow(e).table = tx[e].table /\ NextRow(e).account = tx[e].account
          /\ NextRow(e).op = tx[e].op /\ NextRow(e).size = Len(tx[e].new)
      BY DEF NextRow
    <3>2. ASSUME NEW f \in Open', NEW r \in tx'[f].inserted
          PROVE  /\ r.table = tx'[f].table /\ r.account = tx'[f].account
                 /\ r.op = tx'[f].op /\ r.size = Len(tx'[f].new)
      <4>1. CASE f = e
        BY <1>1, <2>1, <2>2, <3>1, <4>1 DEF Groups, Written
      <4>2. CASE f # e
        BY <2>2, <4>2 DEF Groups, Written
      <4> QED  BY <4>1, <4>2
    <3> QED  BY <3>2 DEF Written
  <2>4. DeletesWhole'
    BY <1>1, <2>1, <2>2 DEF Groups, DeletesWhole, ClosedIn, SameRequest
  <2> QED  BY <2>2, <2>3, <2>4 DEF Groups
<1> QED  BY <1>2, <1>3, InsertTx

LEMMA CommitGroups ==
    ASSUME Types, Groups, NEW e \in Editors, Commit(e)
    PROVE  Groups'
<1> DEFINE kept == rows \ tx[e].deleted
           written == tx[e].inserted
<1>1. /\ e \in Open /\ tx' = [tx EXCEPT ![e] = None] /\ rows' = kept \cup written
      /\ UNCHANGED <<requests, got, cache>>
  BY CommitTypes DEF Commit, reader
<1>2. /\ Open' \subseteq Open \ {e} /\ \A f \in Open' : tx'[f] = tx[f]
      /\ tx[e] \in Tx /\ kept \subseteq Row /\ written \subseteq Row
  BY <1>1 DEF Open, Types, Tx
<1>3. /\ kept \subseteq rows
      /\ \A r \in written : /\ r.table = tx[e].table /\ r.account = tx[e].account
                            /\ r.op = tx[e].op /\ r.size = Len(tx[e].new)
      /\ \A r \in rows : r.op # tx[e].op
  BY <1>1 DEF Groups, Numbered, Written
<1>4. Numbered'
  <2>1. /\ \A f \in Open' : tx'[f].op <= requests'
        /\ \A f, g \in Open' : tx'[f].op = tx'[g].op => f = g
    BY <1>1, <1>2 DEF Groups, Numbered
  <2>2. \A r \in written : r.op <= requests /\ \A f \in Open' : r.op # tx[f].op
    BY <1>1, <1>2, <1>3 DEF Groups, Numbered
  <2>3. \A r \in kept : r.op <= requests /\ \A f \in Open' : r.op # tx[f].op
    BY <1>2, <1>3 DEF Groups, Numbered
  <2> QED  BY <1>1, <1>2, <2>1, <2>2, <2>3 DEF Numbered
<1>5. Written'
  BY <1>2 DEF Groups, Written
<1>6. DeletesWhole'
  <2>1. ASSUME NEW f \in Open'
        PROVE  /\ ClosedIn(tx[f].doomed, rows') /\ ClosedIn(tx[f].deleted, rows')
               /\ \A r \in tx[f].doomed \cup tx[f].deleted :
                     r.op <= requests /\ \A g \in Open : r.op # tx[g].op
    <3>1. /\ ClosedIn(tx[f].doomed, rows) /\ ClosedIn(tx[f].deleted, rows)
          /\ \A r \in tx[f].doomed \cup tx[f].deleted :
                r.op <= requests /\ \A g \in Open : r.op # tx[g].op
      BY <1>2 DEF Groups, DeletesWhole
    <3>2. \A r \in tx[f].doomed \cup tx[f].deleted, s \in written : ~SameRequest(r, s)
      BY <1>1, <1>3, <3>1 DEF SameRequest
    <3> QED  BY <1>1, <1>3, <3>1, <3>2 DEF ClosedIn
  <2> QED  BY <1>1, <1>2, <2>1 DEF DeletesWhole, ClosedIn, SameRequest
<1>7. \A r \in kept, s \in written : ~SameRequest(r, s) /\ ~SameRequest(s, r)
  BY <1>3 DEF SameRequest
<1>8. OneAccount(rows)'
  <2>1. ASSUME NEW r \in rows', NEW s \in rows', SameRequest(r, s) PROVE r.account = s.account
    BY <1>1, <1>3, <1>7, <2>1 DEF Groups, OneAccount
  <2> QED  BY <2>1 DEF OneAccount, SameRequest
<1>9. Whole(rows')
  <2>1. Whole(kept)
    <3>1. ClosedIn(kept, rows)
      BY <1>1 DEF Groups, DeletesWhole, ClosedIn, SameRequest
    <3> QED  BY <1>3, <3>1, WholePart DEF Groups, AllOrNothing
  <2>2. ASSUME NEW r \in kept
        PROVE  Cardinality({s \in rows' : s.table = r.table /\ s.op = r.op}) = r.size
    <3>1. {s \in rows' : s.table = r.table /\ s.op = r.op} = {s \in kept : s.table = r.table /\ s.op = r.op}
      BY <1>1, <1>7 DEF SameRequest
    <3> QED  BY <2>1, <3>1 DEF Whole
  <2>3. ASSUME NEW r \in written
        PROVE  Cardinality({s \in rows' : s.table = r.table /\ s.op = r.op}) = r.size
    <3>1. {s \in rows' : s.table = r.table /\ s.op = r.op} = written
      BY <1>1, <1>3, <1>7 DEF SameRequest
    <3> QED  BY <1>3, <3>1 DEF Commit
  <2> QED  BY <1>1, <2>2, <2>3 DEF Whole
<1>10. Snapshot' /\ AllOrNothing'
  BY <1>1, <1>9 DEF Groups, Snapshot, OneAccount, SameRequest, AllOrNothing, Whole
<1> QED  BY <1>4, <1>5, <1>6, <1>8, <1>10 DEF Groups

\* A step that leaves the tables and the requests alone.
LEMMA ReadOnly ==
    ASSUME Types, Groups, UNCHANGED <<rows, requests, tx>>, Snapshot', AllOrNothing'
    PROVE  Groups'
BY DEF Groups, Numbered, Written, DeletesWhole, ClosedIn, SameRequest, OneAccount, Open

LEMMA ReadGroups ==
    ASSUME Types, Groups, ReadAccounts \/ ReadRules \/ ReadUpstreams
    PROVE  Groups'
<1>1. UNCHANGED <<rows, requests, tx, cache>>
  BY DEF ReadAccounts, ReadRules, ReadUpstreams, tables
<1>2. CASE ReadAccounts \/ ReadUpstreams
  <2>1. got'.rules = got.rules
    BY <1>2 DEF ReadAccounts, ReadUpstreams, Types, Nothing
  <2>2. got'.upstreams # None => \A r \in got'.upstreams : r.table = "upstreams"
    BY <1>2 DEF ReadAccounts, ReadUpstreams, Types, Nothing, Groups, Snapshot
  <2>3. Snapshot' /\ AllOrNothing'
    BY <1>1, <2>1, <2>2 DEF Groups, Snapshot, OneAccount, SameRequest, AllOrNothing, Whole
  <2> QED  BY <1>1, <2>3, ReadOnly
<1>3. CASE ReadRules
  <2> DEFINE read == {r \in rows : r.table = "rules"}
  <2>1. got'.rules = read /\ got'.upstreams = got.upstreams
    BY <1>3 DEF ReadRules, Types
  <2>2. OneAccount(read) /\ \A r \in read : r.table = "rules"
    BY DEF Groups, OneAccount, SameRequest
  <2>3. Whole(read)
    <3>1. ClosedIn(read, rows) /\ read \subseteq rows
      BY DEF ClosedIn, SameRequest
    <3> HIDE DEF read
    <3> QED  BY <3>1, WholePart DEF Groups, AllOrNothing
  <2> HIDE DEF read
  <2>4. Snapshot' /\ AllOrNothing'
    BY <1>1, <2>1, <2>2, <2>3 DEF Groups, Snapshot, OneAccount, SameRequest, AllOrNothing, Whole
  <2> QED  BY <1>1, <2>4, ReadOnly
<1> QED  BY <1>2, <1>3

LEMMA InstallGroups ==
    ASSUME Types, Groups, Install
    PROVE  Groups'
<1> DEFINE read == got.rules \cup got.upstreams
<1>1. /\ got' = Nothing /\ cache' = PoliciesIn(got.accounts, read)
      /\ UNCHANGED <<rows, requests, tx>>
      /\ got.rules # None /\ got.upstreams # None
      /\ got.rules \in SUBSET Row /\ read \in SUBSET Row
  BY DEF Install, tables, Types
<1>2. \A r \in got.upstreams : r.table = "upstreams"
  BY <1>1 DEF Groups, Snapshot
<1>3. ASSUME NEW a \in Accounts, cache'[a] # None
      PROVE  Whole(cache'[a].rules)
  <2>1. cache'[a] = PolicyIn(got.accounts, read, a)
    BY <1>1 DEF PoliciesIn
  <2>2. cache'[a].rules = RowsOf(read, "rules", a)
    BY <1>1, <1>3, <2>1, PolicyType
  <2>3. RowsOf(read, "rules", a) = RowsOf(got.rules, "rules", a)
    BY <1>2 DEF RowsOf
  <2>4. ClosedIn(RowsOf(got.rules, "rules", a), got.rules) /\ RowsOf(got.rules, "rules", a) \subseteq got.rules
    BY <1>1 DEF ClosedIn, SameRequest, RowsOf, Groups, Snapshot, OneAccount
  <2>5. Whole(got.rules)
    BY <1>1 DEF Groups, AllOrNothing
  <2> QED  BY <2>2, <2>3, <2>4, <2>5, WholePart
<1>4. Snapshot' /\ AllOrNothing'
  <2>1. got'.rules = None /\ got'.upstreams = None
    BY <1>1 DEF Nothing
  <2> QED  BY <1>1, <1>3, <2>1 DEF Groups, Snapshot, AllOrNothing, Whole
<1> QED  BY <1>1, <1>4, ReadOnly

LEMMA GroupsStep == Types /\ Groups /\ [Next]_vars => Groups'
<1> SUFFICES ASSUME Types, Groups, [Next]_vars PROVE Groups'
  OBVIOUS
<1>1. ASSUME NEW e \in Editors, Rollback(e) PROVE Groups'
  <2>1. tx' = [tx EXCEPT ![e] = None] /\ UNCHANGED <<rows, requests, got, cache>>
    BY <1>1 DEF Rollback, tables, reader
  <2> QED  BY <2>1, LeaveGroups
<1>2. ASSUME UNCHANGED <<rows, requests, tx, got, cache>> PROVE Groups'
  BY <1>2, ReadOnly DEF Groups, Snapshot, OneAccount, SameRequest, AllOrNothing, Whole
<1>3. ASSUME NEW q \in Queries, NEW a \in Accounts, Decide(q, a) PROVE Groups'
  BY <1>2, <1>3 DEF Decide, tables, reader
<1>4. ASSUME NEW q \in Queries, RecordQuota(q) PROVE Groups'
  BY <1>2, <1>4 DEF RecordQuota, reader
<1>5. CASE UNCHANGED vars
  BY <1>2, <1>5 DEF vars
<1> QED  BY <1>1, <1>3, <1>4, <1>5, BeginGroups, StartDeleteGroups, FinishDeleteGroups,
            InsertGroups, CommitGroups, ReadGroups, InstallGroups DEF Next

LEMMA InitialGroups == Init => Groups
<1> SUFFICES ASSUME Init PROVE Groups
  OBVIOUS
<1>1. Open = {} /\ rows = {} /\ got.rules = None /\ got.upstreams = None
  BY DEF Init, Open, Nothing
<1>2. \A a \in Accounts : cache[a] = None
  BY DEF Init
<1> QED  BY <1>1, <1>2 DEF Groups, Numbered, Written, DeletesWhole, OneAccount, Snapshot,
            AllOrNothing, Whole

-----------------------------------------------------------------------------
(* What is cached was stored.                                              *)

\* No version is ever lost.
LogGrows == /\ DOMAIN log \subseteq DOMAIN log'
            /\ \A v \in DOMAIN log : log'[v] = log[v]

LEMMA ChangeGrows ==
    ASSUME Types, Latest, NEW accts \in SUBSET Accounts, NEW stored \in SUBSET Row, Change(accts, stored)
    PROVE  /\ LogGrows /\ accounts' = accts /\ rows' = stored
           /\ log'[Len(log')] = PoliciesIn(accts, stored)
           /\ \A v \in DOMAIN log' : v \in DOMAIN log \/ log'[v] = PoliciesIn(accts, stored)
<1>1. accounts' = accts /\ rows' = stored
  BY DEF Change
<1>2. CASE log' = log /\ PoliciesIn(accts, stored) = PoliciesIn(accounts, rows)
  BY <1>1, <1>2 DEF LogGrows, Latest
<1>3. CASE log' = Append(log, PoliciesIn(accts, stored))
  <2> DEFINE version == PoliciesIn(accts, stored)
  <2>1. log \in Seq(Version) /\ version \in Version
    BY PoliciesType DEF Types, Version
  <2> HIDE DEF version
  <2>2. /\ Len(log') = Len(log) + 1 /\ Len(log) \in Nat /\ DOMAIN log = 1..Len(log)
        /\ DOMAIN log' = 1..(Len(log) + 1) /\ log'[Len(log) + 1] = version
        /\ \A v \in DOMAIN log : log'[v] = log[v]
    BY <1>3, <2>1 DEF version
  <2> QED  BY <1>1, <2>2 DEF LogGrows, version
<1> QED  BY <1>2, <1>3 DEF Change

\* In a version made from what is stored, an account has its own rules.
LEMMA OwnRules ==
    ASSUME NEW accts, NEW stored \in SUBSET Row, NEW a \in Accounts, PoliciesIn(accts, stored)[a] # None
    PROVE  /\ a \in accts
           /\ PoliciesIn(accts, stored)[a].rules = RowsOf(stored, "rules", a)
           /\ PoliciesIn(accts, stored)[a].upstream = Active(stored, a)
           /\ \A r \in PoliciesIn(accts, stored)[a].rules : r.table = "rules" /\ r.account = a
<1>1. PoliciesIn(accts, stored)[a] = PolicyIn(accts, stored, a)
  BY DEF PoliciesIn
<1>2. a \in accts
  BY <1>1, PolicyType
<1>3. /\ PoliciesIn(accts, stored)[a].rules = RowsOf(stored, "rules", a)
      /\ PoliciesIn(accts, stored)[a].upstream = Active(stored, a)
  BY <1>1, <1>2, PolicyType
<1> QED  BY <1>2, <1>3 DEF RowsOf

\* A step that lets the history grow and leaves the reader.
LEMMA ReaderKept ==
    ASSUME Types, Logged, LogGrows, accounts \subseteq accounts', UNCHANGED <<got, cache>>
    PROVE  ReadLogged' /\ HalvesWereStored' /\ Issued \subseteq Issued'
<1>1. ReadLogged'
  <2>1. got.rules # None =>
           got.accounts # None /\ \E v \in DOMAIN log' : RulesAre(log'[v], got.accounts, got.rules)
    BY DEF Logged, ReadLogged, LogGrows
  <2>2. got.upstreams # None =>
          \E v, w \in DOMAIN log' : /\ v <= w /\ RulesAre(log'[v], got.accounts, got.rules)
                                    /\ UpstreamsAre(log'[w], got.accounts, got.upstreams)
    BY DEF Logged, ReadLogged, LogGrows
  <2> QED  BY <2>1, <2>2 DEF Logged, ReadLogged, RulesAre, UpstreamsAre
<1>2. HalvesWereStored'
  BY DEF Logged, HalvesWereStored, LogGrows
<1>3. Issued \subseteq Issued'
  BY DEF Issued, LogGrows
<1> QED  BY <1>1, <1>2, <1>3

\* ... and the queries.
LEMMA HistoryKept ==
    ASSUME Types, Logged, LogGrows, accounts \subseteq accounts', UNCHANGED <<got, cache, held>>
    PROVE  ReadLogged' /\ HalvesWereStored' /\ HeldLogged' /\ Issued \subseteq Issued'
<1>1. ReadLogged' /\ HalvesWereStored' /\ Issued \subseteq Issued'
  BY ReaderKept
<1>2. HeldLogged'
  BY <1>1 DEF Logged, HeldLogged
<1> QED  BY <1>1, <1>2


LEMMA BeginLogged ==
    ASSUME Types, Logged, NEW e \in Editors, NEW table \in Tables, NEW a \in Accounts,
           NEW new \in Lists[table], Begin(e, table, a, new)
    PROVE  LogGrows /\ Logged'
<1> DEFINE accts == accounts \cup {a}
<1>1. accts \in SUBSET Accounts /\ rows \in SUBSET Row /\ Change(accts, rows)
  BY DEF Types, Begin
<1>2. /\ LogGrows /\ accounts' = accts /\ rows' = rows
      /\ log'[Len(log')] = PoliciesIn(accts, rows)
      /\ \A v \in DOMAIN log' : v \in DOMAIN log \/ log'[v] = PoliciesIn(accts, rows)
  BY <1>1, ChangeGrows DEF Logged
<1> HIDE DEF accts
<1>3. \A f \in Open' : tx'[f].account \in accounts'
  <2>1. PICK t \in Tx : tx' = [tx EXCEPT ![e] = t] /\ t.account = a
    BY BeginTx
  <2>2. \A f \in Open' : f = e \/ (f \in Open /\ tx'[f] = tx[f])
    BY <2>1 DEF Open, Types
  <2>3. tx'[e].account = a
    BY <2>1 DEF Types
  <2> QED  BY <1>2, <2>2, <2>3 DEF Logged, Latest, accts
<1>4. \A v \in DOMAIN log', b \in Accounts : log'[v][b] # None =>
          \A r \in log'[v][b].rules : r.table = "rules" /\ r.account = b
  BY <1>1, <1>2, OwnRules DEF Logged, Latest, LogGrows
<1>5. accounts \subseteq accounts' /\ \A r \in rows' : r.account \in accounts'
  BY <1>2 DEF Logged, Latest, accts
<1>6. Latest'
  <2>1. log'[Len(log')] = PoliciesIn(accounts', rows')
    BY <1>2
  <2> QED  BY <1>3, <1>4, <1>5, <2>1 DEF Latest, PoliciesIn, PolicyIn, RowsOf, Active
<1>7. UNCHANGED <<got, cache, held>>
  BY DEF Begin, reader, query
<1> QED  BY <1>2, <1>5, <1>6, <1>7, HistoryKept DEF Logged

LEMMA CommitLogged ==
    ASSUME Types, Groups, Logged, NEW e \in Editors, Commit(e)
    PROVE  /\ LogGrows /\ Logged'
           /\ Issued' \subseteq Issued \cup RuleRows(rows')
<1>1. /\ e \in Open /\ tx' = [tx EXCEPT ![e] = None]
      /\ rows' = (rows \ tx[e].deleted) \cup tx[e].inserted /\ rows' \in SUBSET Row
      /\ accounts' = accounts
  BY CommitTypes DEF Types
<1>2. Change(accounts, rows') /\ accounts \in SUBSET Accounts
  BY <1>1 DEF Commit, Types
<1>3. /\ LogGrows
      /\ log'[Len(log')] = PoliciesIn(accounts, rows')
      /\ \A v \in DOMAIN log' : v \in DOMAIN log \/ log'[v] = PoliciesIn(accounts, rows')
  BY <1>1, <1>2, ChangeGrows DEF Logged
<1>4. \A f \in Open' : tx'[f].account \in accounts'
  BY <1>1 DEF Open, Types, Logged, Latest
<1>5. \A v \in DOMAIN log', b \in Accounts : log'[v][b] # None =>
          \A r \in log'[v][b].rules : r.table = "rules" /\ r.account = b
  BY <1>1, <1>3, OwnRules DEF Logged, Latest, LogGrows
<1>6. \A r \in rows' : r.account \in accounts'
  BY <1>1 DEF Logged, Latest, Groups, Written
<1>7. Latest'
  <2>1. log'[Len(log')] = PoliciesIn(accounts', rows')
    BY <1>1, <1>3
  <2> QED  BY <1>4, <1>5, <1>6, <2>1 DEF Latest, PoliciesIn, PolicyIn, RowsOf, Active
<1>8. UNCHANGED <<got, cache, held>>
  BY DEF Commit, reader, query
<1>9. Issued' \subseteq Issued \cup RuleRows(rows')
  <2>1. ASSUME NEW r \in Issued', r \notin Issued PROVE r \in RuleRows(rows')
    <3>1. PICK v \in DOMAIN log', b \in Accounts : log'[v][b] # None /\ r \in log'[v][b].rules
      BY <2>1 DEF Issued
    <3>2. r \in Row
      BY <2>1 DEF Issued
    <3>3. v \notin DOMAIN log
      BY <1>3, <2>1, <3>1, <3>2 DEF Issued, LogGrows
    <3>4. PoliciesIn(accounts, rows')[b] # None /\ r \in PoliciesIn(accounts, rows')[b].rules
      BY <1>3, <3>1, <3>3
    <3>5. r \in RowsOf(rows', "rules", b)
      BY <1>1, <3>4, OwnRules
    <3> QED  BY <3>5 DEF RowsOf, RuleRows
  <2> QED  BY <2>1
<1> QED  BY <1>1, <1>3, <1>7, <1>8, <1>9, HistoryKept DEF Logged

LEMMA SameLog ==
    ASSUME Types, UNCHANGED log
    PROVE  LogGrows /\ Issued' = Issued
BY DEF LogGrows, Issued

LEMMA LatestKept ==
    ASSUME Types, Latest, UNCHANGED <<accounts, rows, log>>, Open' \subseteq Open,
           \A f \in Open' : tx'[f].account = tx[f].account
    PROVE  Latest'
BY DEF Latest, PoliciesIn, PolicyIn, RowsOf, Active

\* A statement of a request that does not commit it.
LEMMA StatementLogged ==
    ASSUME Types, Logged, NEW e \in Editors,
           StartDelete(e) \/ FinishDelete(e) \/ Insert(e) \/ Rollback(e)
    PROVE  LogGrows /\ Issued' = Issued /\ Logged'
<1>1. UNCHANGED <<accounts, rows, counters, got, cache, held, outcome, log>>
  BY DEF StartDelete, FinishDelete, Insert, Rollback, tables, reader, query
<1>2. e \in Open /\ tx[e] \in Tx
  BY DEF StartDelete, FinishDelete, Insert, Rollback, Open, Types
<1>3. tx' = [tx EXCEPT ![e] = None] \/ \E t \in Tx : tx' = [tx EXCEPT ![e] = t] /\ t.account = tx[e].account
  <2>1. CASE StartDelete(e)
    <3>1. PICK t \in Tx : /\ tx' = [tx EXCEPT ![e] = t]
                          /\ t = [tx[e] EXCEPT !.step = "lock",
                                               !.doomed = RowsOf(rows, tx[e].table, tx[e].account)]
      BY <2>1, StartDeleteTx
    <3>2. t.account = tx[e].account
      BY <1>2, <3>1 DEF Tx
    <3> QED  BY <3>1, <3>2
  <2>2. CASE FinishDelete(e)
    <3>1. PICK t \in Tx : /\ tx' = [tx EXCEPT ![e] = t]
                          /\ t = [tx[e] EXCEPT !.step = "insert", !.doomed = {},
                                               !.deleted = tx[e].doomed \cap rows]
      BY <2>2, FinishDeleteTx
    <3>2. t.account = tx[e].account
      BY <1>2, <3>1 DEF Tx
    <3> QED  BY <3>1, <3>2
  <2>3. CASE Insert(e)
    <3>1. ASSUME NEW t \in Tx, tx' = [tx EXCEPT ![e] = t],
                 t = [tx[e] EXCEPT !.inserted = tx[e].inserted \cup {NextRow(e)}]
          PROVE  \E u \in Tx : tx' = [tx EXCEPT ![e] = u] /\ u.account = tx[e].account
      <4>1. t.account = tx[e].account
        BY <1>2, <3>1 DEF Tx
      <4> QED  BY <3>1, <4>1
    <3> QED  BY <2>3, <3>1, InsertTx
  <2>4. CASE Rollback(e)
    BY <2>4 DEF Rollback
  <2> QED  BY <2>1, <2>2, <2>3, <2>4
<1>4. Open' \subseteq Open /\ \A f \in Open' : tx'[f].account = tx[f].account
  BY <1>2, <1>3 DEF Open, Types
<1>5. Latest' /\ LogGrows /\ Issued' = Issued
  BY <1>1, <1>4, LatestKept, SameLog DEF Logged
<1> QED  BY <1>1, <1>5, HistoryKept DEF Logged

LEMMA SnapshotLogged ==
    ASSUME Types, Groups, Logged, ReadAccounts \/ ReadRules \/ ReadUpstreams
    PROVE  LogGrows /\ Issued' = Issued /\ Logged'
<1>1. UNCHANGED <<accounts, rows, counters, tx, cache, held, outcome, log>>
  BY DEF ReadAccounts, ReadRules, ReadUpstreams, tables, query
<1>2. Latest' /\ LogGrows /\ Issued' = Issued
  BY <1>1, LatestKept, SameLog DEF Logged, Open
<1>3. HalvesWereStored' /\ HeldLogged'
  BY <1>1, <1>2 DEF Logged, HalvesWereStored, HeldLogged
<1> DEFINE n == Len(log)
<1>4. n \in DOMAIN log /\ \A v \in DOMAIN log : v <= n
  BY DEF Types
<1>5. ASSUME got.accounts # None, NEW a \in got.accounts
      PROVE  /\ log[n][a] # None
             /\ log[n][a].rules = RowsOf(rows, "rules", a)
             /\ log[n][a].upstream = Active(rows, a)
  <2>1. a \in accounts /\ a \in Accounts /\ rows \in SUBSET Row
    BY <1>5 DEF Logged, ReadLogged, Types
  <2>2. log[n][a] = PolicyIn(accounts, rows, a)
    BY <2>1 DEF Logged, Latest, PoliciesIn
  <2> QED  BY <2>1, <2>2, PolicyType
<1> HIDE DEF n
<1>6. CASE ReadAccounts
  <2>1. got'.accounts = accounts /\ got'.rules = None /\ got'.upstreams = None
    BY <1>6 DEF ReadAccounts, Nothing
  <2>2. ReadLogged'
    BY <1>1, <2>1 DEF ReadLogged
  <2> QED  BY <1>2, <1>3, <2>2 DEF Logged
<1>7. CASE ReadRules
  <2> DEFINE read == {r \in rows : r.table = "rules"}
  <2>1. /\ got.accounts # None /\ got'.accounts = got.accounts
        /\ got'.rules = read /\ got'.upstreams = None
    BY <1>7 DEF ReadRules, Types
  <2>2. \A a \in got.accounts : RowsOf(read, "rules", a) = RowsOf(rows, "rules", a)
    BY DEF RowsOf
  <2> HIDE DEF read
  <2>3. RulesAre(log[n], got.accounts, read)
    BY <1>5, <2>1, <2>2 DEF RulesAre
  <2>4. ReadLogged'
    BY <1>1, <1>4, <2>1, <2>3 DEF Logged, ReadLogged, RulesAre, RowsOf
  <2> QED  BY <1>2, <1>3, <2>4 DEF Logged
<1>8. CASE ReadUpstreams
  <2> DEFINE read == {r \in rows : r.table = "upstreams"}
  <2>1. /\ got.rules # None /\ got'.accounts = got.accounts
        /\ got'.rules = got.rules /\ got'.upstreams = read
    BY <1>8 DEF ReadUpstreams, Types
  <2>2. \A a \in got.accounts : Active(read, a) = Active(rows, a)
    <3>1. \A a \in got.accounts : RowsOf(read, "upstreams", a) = RowsOf(rows, "upstreams", a)
      BY DEF RowsOf
    <3> QED  BY <3>1, SameActive
  <2> HIDE DEF read
  <2>3. PICK v \in DOMAIN log : RulesAre(log[v], got.accounts, got.rules)
    BY <2>1 DEF Logged, ReadLogged
  <2>4. got.accounts # None /\ UpstreamsAre(log[n], got.accounts, read)
    BY <1>5, <2>1, <2>2 DEF UpstreamsAre, Logged, ReadLogged
  <2>5. /\ got'.accounts # None => got'.accounts \subseteq accounts
        /\ got'.accounts # None /\ \E u \in DOMAIN log : RulesAre(log[u], got'.accounts, got'.rules)
        /\ \E u, w \in DOMAIN log : /\ u <= w /\ RulesAre(log[u], got'.accounts, got'.rules)
                                    /\ UpstreamsAre(log[w], got'.accounts, got'.upstreams)
    BY <1>4, <2>1, <2>3, <2>4 DEF Logged, ReadLogged
  <2>6. ReadLogged'
    BY <1>1, <2>5 DEF ReadLogged, RulesAre, UpstreamsAre
  <2> QED  BY <1>2, <1>3, <2>6 DEF Logged
<1> QED  BY <1>2, <1>6, <1>7, <1>8

LEMMA InstallLogged ==
    ASSUME Types, Groups, Logged, Install
    PROVE  LogGrows /\ Issued' = Issued /\ Logged'
<1> DEFINE read == got.rules \cup got.upstreams
<1>1. /\ got' = Nothing /\ cache' = PoliciesIn(got.accounts, read)
      /\ UNCHANGED <<accounts, rows, counters, tx, held, outcome, log>>
      /\ got.rules # None /\ got.upstreams # None /\ read \in SUBSET Row
  BY DEF Install, tables, query, Types
<1>2. Latest' /\ LogGrows /\ Issued' = Issued
  BY <1>1, LatestKept, SameLog DEF Logged, Open
<1>3. ReadLogged' /\ HeldLogged'
  <2>1. got'.accounts = None /\ got'.rules = None /\ got'.upstreams = None
    BY <1>1 DEF Nothing
  <2> QED  BY <1>1, <1>2, <2>1 DEF ReadLogged, Logged, HeldLogged
<1>4. PICK v \in DOMAIN log, w \in DOMAIN log :
          /\ v <= w /\ RulesAre(log[v], got.accounts, got.rules)
          /\ UpstreamsAre(log[w], got.accounts, got.upstreams)
  BY <1>1 DEF Logged, ReadLogged
<1>5. ASSUME NEW a \in Accounts, cache'[a] # None
      PROVE  /\ log[v][a] # None /\ log[w][a] # None
             /\ cache'[a].rules = log[v][a].rules /\ cache'[a].upstream = log[w][a].upstream
  <2>1. /\ a \in got.accounts /\ cache'[a].rules = RowsOf(read, "rules", a)
        /\ cache'[a].upstream = Active(read, a)
    BY <1>1, <1>5, OwnRules
  <2>2. /\ RowsOf(read, "rules", a) = RowsOf(got.rules, "rules", a)
        /\ RowsOf(read, "upstreams", a) = RowsOf(got.upstreams, "upstreams", a)
    BY <1>1 DEF RowsOf, Groups, Snapshot
  <2>3. Active(read, a) = Active(got.upstreams, a)
    BY <2>2, SameActive
  <2> QED  BY <1>4, <2>1, <2>2, <2>3 DEF RulesAre, UpstreamsAre
<1>6. HalvesWereStored'
  BY <1>1, <1>4, <1>5 DEF HalvesWereStored
<1> QED  BY <1>2, <1>3, <1>6 DEF Logged

LEMMA DecideLogged ==
    ASSUME Types, Logged, NEW q \in Queries, NEW a \in Accounts, Decide(q, a)
    PROVE  LogGrows /\ Issued' = Issued /\ Logged'
<1>1. UNCHANGED <<accounts, rows, counters, tx, got, cache, outcome, log>>
  BY DEF Decide, tables, reader
<1>2. Latest' /\ LogGrows /\ Issued' = Issued
  BY <1>1, LatestKept, SameLog DEF Logged, Open
<1>3. ReadLogged' /\ HalvesWereStored'
  BY <1>1, <1>2, ReaderKept
<1>4. PICK r \in cache[a].rules : r.body.action = "limit" /\ held' = [held EXCEPT ![q] = r]
  BY DEF Decide
<1>5. cache[a] # None /\ cache[a] \in Policy
  BY DEF Decide, Types
<1>6. r \in Issued
  <2>1. r \in Row
    BY <1>4, <1>5 DEF Policy
  <2>2. \E v \in DOMAIN log : log[v][a] # None /\ r \in log[v][a].rules
    BY <1>4, <1>5 DEF Logged, HalvesWereStored
  <2> QED  BY <2>1, <2>2 DEF Issued
<1>7. HeldLogged'
  BY <1>2, <1>4, <1>6 DEF Logged, HeldLogged, Types
<1> QED  BY <1>2, <1>3, <1>7 DEF Logged

\* A step that leaves the history and the queries' rules.
LEMMA StillLogged ==
    ASSUME Types, Logged, UNCHANGED <<accounts, rows, tx, got, cache, held, log>>
    PROVE  LogGrows /\ Issued' = Issued /\ Logged'
<1>1. Latest' /\ LogGrows /\ Issued' = Issued
  BY LatestKept, SameLog DEF Logged, Open
<1> QED  BY <1>1, HistoryKept DEF Logged

LEMMA LoggedStep == Types /\ Groups /\ Logged /\ [Next]_vars => Logged'
<1> SUFFICES ASSUME Types, Groups, Logged, [Next]_vars PROVE Logged'
  OBVIOUS
<1>1. ASSUME NEW q \in Queries, RecordQuota(q) PROVE Logged'
  BY <1>1, StillLogged DEF RecordQuota, reader
<1>2. CASE UNCHANGED vars
  BY <1>2, StillLogged DEF vars
<1> QED  BY <1>1, <1>2, BeginLogged, CommitLogged, StatementLogged, SnapshotLogged,
            InstallLogged, DecideLogged DEF Next



-----------------------------------------------------------------------------
(* Every rule has an id of its own.                                        *)

\* A rule that is stored is in the history.
LEMMA StoredIssued ==
    ASSUME Types, Latest
    PROVE  RuleRows(rows) \subseteq Issued
<1> SUFFICES ASSUME NEW r \in rows, r.table = "rules" PROVE r \in Issued
  BY DEF RuleRows
<1>1. r \in Row /\ r.account \in accounts /\ r.account \in Accounts /\ rows \in SUBSET Row
  BY DEF Types, Latest
<1>2. log[Len(log)][r.account] = PolicyIn(accounts, rows, r.account)
  BY <1>1 DEF Latest, PoliciesIn
<1>3. log[Len(log)][r.account] # None /\ r \in log[Len(log)][r.account].rules
  BY <1>1, <1>2, PolicyType DEF RowsOf
<1>4. Len(log) \in DOMAIN log
  BY DEF Types
<1> QED  BY <1>1, <1>3, <1>4 DEF Issued

\* The rules of a held or an issued row are rules.
LEMMA IssuedRules ==
    ASSUME Latest, NEW r \in Issued
    PROVE  r \in Row /\ r.table = "rules"
BY DEF Issued, Latest

\* A step that leaves the ids, and after which no request has more rows.
LEMMA QuietIds ==
    ASSUME Types, Latest, Ids, Issued' = Issued, UNCHANGED next_id, Open' \subseteq Open,
           \A f \in Open' : /\ tx'[f].inserted = tx[f].inserted
                            /\ RuleRows(tx'[f].doomed \cup tx'[f].deleted) \subseteq Issued
    PROVE  Ids'
<1>1. \A r : Genuine(r)' <=> Genuine(r)
  BY DEF Genuine, Accepted
<1> HIDE DEF Genuine
<1>2. IssuedIds' /\ NewIds'
  BY <1>1 DEF Ids, IssuedIds, NewIds
<1>3. Apart'
  <2>1. ASSUME NEW f \in Open', NEW g \in Open', NEW r \in tx'[f].inserted, NEW s \in tx'[g].inserted,
               r.table = s.table, r.id = s.id
        PROVE  r = s
    <3>1. f \in Open /\ g \in Open /\ r \in tx[f].inserted /\ s \in tx[g].inserted
      OBVIOUS
    <3> QED  BY <2>1, <3>1 DEF Ids, Apart
  <2> QED  BY <2>1 DEF Apart
<1>4. DeletesIssued'
  BY DEF DeletesIssued, RuleRows
<1> QED  BY <1>2, <1>3, <1>4 DEF Ids

LEMMA BeginIds ==
    ASSUME Types, Groups, Logged, Ids, NEW e \in Editors, NEW table \in Tables, NEW a \in Accounts,
           NEW new \in Lists[table], Begin(e, table, a, new), Issued' = Issued
    PROVE  Ids'
<1>1. PICK t \in Tx : /\ tx' = [tx EXCEPT ![e] = t]
                      /\ t.doomed = {} /\ t.deleted = {} /\ t.inserted = {}
  BY BeginTx
<1>2. tx'[e] = t /\ \A f \in Open' : f # e => f \in Open /\ tx'[f] = tx[f]
  BY <1>1 DEF Open, Types
<1>3. \A r : Genuine(r)' <=> Genuine(r)
  BY DEF Begin, Genuine, Accepted
<1> HIDE DEF Genuine
<1>4. IssuedIds' /\ NewIds'
  BY <1>1, <1>2, <1>3 DEF Ids, IssuedIds, NewIds
<1>5. Apart'
  <2>1. ASSUME NEW f \in Open', NEW g \in Open', NEW r \in tx'[f].inserted, NEW s \in tx'[g].inserted,
               r.table = s.table, r.id = s.id
        PROVE  r = s
    <3>1. f # e /\ g # e
      BY <1>1, <1>2
    <3>2. f \in Open /\ g \in Open /\ r \in tx[f].inserted /\ s \in tx[g].inserted
      BY <1>2, <3>1
    <3> QED  BY <2>1, <3>2 DEF Ids, Apart
  <2> QED  BY <2>1 DEF Apart
<1>6. DeletesIssued'
  BY <1>1, <1>2 DEF Ids, DeletesIssued, RuleRows
<1> QED  BY <1>4, <1>5, <1>6 DEF Ids

\* Nothing is added to the history but rules of accounts that it did not have.
LEMMA BeginIssues ==
    ASSUME Types, Logged, NEW e \in Editors, NEW table \in Tables, NEW a \in Accounts,
           NEW new \in Lists[table], Begin(e, table, a, new)
    PROVE  Issued' = Issued
<1> DEFINE accts == accounts \cup {a}
<1>1. accts \in SUBSET Accounts /\ rows \in SUBSET Row /\ Change(accts, rows)
  BY DEF Types, Begin
<1>2. LogGrows /\ \A v \in DOMAIN log' : v \in DOMAIN log \/ log'[v] = PoliciesIn(accts, rows)
  BY <1>1, ChangeGrows DEF Logged
<1> HIDE DEF accts
<1>3. ASSUME NEW r \in Issued', r \notin Issued PROVE FALSE
  <2>1. PICK v \in DOMAIN log', b \in Accounts : log'[v][b] # None /\ r \in log'[v][b].rules
    BY <1>3 DEF Issued
  <2>2. r \in Row
    BY <1>3 DEF Issued
  <2>3. v \notin DOMAIN log
    BY <1>2, <1>3, <2>1, <2>2 DEF Issued, LogGrows
  <2>4. PoliciesIn(accts, rows)[b] # None /\ r \in PoliciesIn(accts, rows)[b].rules
    BY <1>2, <2>1, <2>3
  <2>5. r \in RowsOf(rows, "rules", b)
    BY <1>1, <2>4, OwnRules
  <2> QED  BY <1>3, <2>5, StoredIssued DEF RowsOf, RuleRows, Logged
<1>4. Issued \subseteq Issued'
  BY <1>2 DEF Issued, LogGrows
<1> QED  BY <1>3, <1>4

LEMMA StatementIds ==
    ASSUME Types, Groups, Logged, Ids, NEW e \in Editors,
           StartDelete(e) \/ FinishDelete(e) \/ Rollback(e)
    PROVE  Ids'
<1>1. UNCHANGED next_id /\ Issued' = Issued /\ Latest
  BY StatementLogged DEF StartDelete, FinishDelete, Rollback, Logged
<1>2. e \in Open /\ tx[e] \in Tx
  BY DEF StartDelete, FinishDelete, Rollback, Open, Types
<1>3. \A f \in Open : RuleRows(tx[f].doomed) \subseteq Issued /\ RuleRows(tx[f].deleted) \subseteq Issued
  BY DEF Ids, DeletesIssued, RuleRows
<1>4. CASE Rollback(e)
  <2>1. Open' \subseteq Open /\ \A f \in Open' : tx'[f] = tx[f]
    BY <1>4 DEF Rollback, Open, Types
  <2> QED  BY <1>1, <2>1, QuietIds DEF Ids, DeletesIssued
<1>5. ASSUME NEW t \in Tx, tx' = [tx EXCEPT ![e] = t], t.inserted = tx[e].inserted,
             RuleRows(t.doomed) \subseteq Issued, RuleRows(t.deleted) \subseteq Issued
      PROVE  Ids'
  <2>1. tx'[e] = t /\ Open' \subseteq Open /\ \A f \in Open : f # e => tx'[f] = tx[f]
    BY <1>2, <1>5 DEF Open, Types
  <2>2. ASSUME NEW f \in Open'
        PROVE  /\ tx'[f].inserted = tx[f].inserted
               /\ RuleRows(tx'[f].doomed \cup tx'[f].deleted) \subseteq Issued
    <3>1. CASE f = e
      BY <1>5, <2>1, <3>1 DEF RuleRows
    <3>2. CASE f # e
      BY <2>1, <3>2 DEF Ids, DeletesIssued
    <3> QED  BY <3>1, <3>2
  <2> QED  BY <1>1, <2>1, <2>2, QuietIds
<1>6. CASE StartDelete(e)
  <2> DEFINE picked == RowsOf(rows, tx[e].table, tx[e].account)
  <2>1. PICK t \in Tx : tx' = [tx EXCEPT ![e] = t] /\ t = [tx[e] EXCEPT !.step = "lock", !.doomed = picked]
    BY <1>6, StartDeleteTx
  <2>2. t.inserted = tx[e].inserted /\ t.doomed = picked /\ t.deleted = tx[e].deleted
    BY <1>2, <2>1 DEF Tx
  <2>3. RuleRows(picked) \subseteq Issued
    BY <1>1, StoredIssued DEF RowsOf, RuleRows
  <2> HIDE DEF picked
  <2> QED  BY <1>2, <1>3, <1>5, <2>1, <2>2, <2>3
<1>7. CASE FinishDelete(e)
  <2> DEFINE found == tx[e].doomed \cap rows
  <2>1. PICK t \in Tx : /\ tx' = [tx EXCEPT ![e] = t]
                        /\ t = [tx[e] EXCEPT !.step = "insert", !.doomed = {}, !.deleted = found]
    BY <1>7, FinishDeleteTx
  <2>2. t.inserted = tx[e].inserted /\ t.doomed = {} /\ t.deleted = found
    BY <1>2, <2>1 DEF Tx
  <2>3. RuleRows(found) \subseteq Issued /\ RuleRows({}) \subseteq Issued
    BY <1>1, StoredIssued DEF RuleRows
  <2> HIDE DEF found
  <2> QED  BY <1>5, <2>1, <2>2, <2>3
<1> QED  BY <1>4, <1>6, <1>7

LEMMA InsertIds ==
    ASSUME Types, Groups, Logged, Ids, NEW e \in Editors, Insert(e)
    PROVE  Ids'
<1> DEFINE n == next_id[tx[e].table]
<1>0. PICK row \in Row : row = NextRow(e)
  BY InsertTx
<1>1. /\ e \in Open /\ tx[e] \in Tx /\ row \in Row /\ row.table = tx[e].table /\ row.id = n
      /\ next_id' = [next_id EXCEPT ![tx[e].table] = n + 1] /\ n \in Nat
      /\ Issued' = Issued
  BY <1>0, InsertTx, StatementLogged DEF Open, Types, Tx, NextRow
<1>2. row.table = "rules" => row.body \in RuleBody
  BY <1>0, <1>1, NextRowType DEF Insert
<1>3. next_id' \in [Tables -> Nat] /\ \A table \in Tables : next_id'[table] >= next_id[table]
  BY <1>1 DEF Types, Tx
<1>4. ASSUME NEW r \in Row, Genuine(r)
      PROVE  Genuine(r)' /\ (r.table = row.table => r.id # row.id)
  <2>1. r.id \in Nat /\ r.table \in Tables /\ r.id < next_id[r.table] /\ next_id[r.table] \in Nat
    BY <1>4 DEF Row, Genuine, Types
  <2>2. r.id < next_id'[r.table]
    BY <1>3, <2>1
  <2> QED  BY <1>1, <1>4, <2>1, <2>2 DEF Genuine, Accepted
<1>5. Accepted(row) => Genuine(row)'
  <2>1. row.id < next_id'[row.table]
    BY <1>1 DEF Types, Tx
  <2> QED  BY <1>2, <2>1 DEF Genuine, Accepted
<1> HIDE DEF Genuine
<1>6. \A r \in Issued : r \in Row /\ r.table = "rules"
  BY IssuedRules DEF Logged
<1>7. \A f \in Open : \A r \in tx[f].inserted : r \in Row /\ Genuine(r)
  BY DEF Ids, NewIds, Types, Tx, Open
<1>8. IssuedIds'
  BY <1>1, <1>4, <1>6 DEF Ids, IssuedIds
<1>9. CASE tx' = [tx EXCEPT ![e] = None]
  <2>1. Open' \subseteq Open /\ \A f \in Open' : tx'[f] = tx[f]
    BY <1>9 DEF Open, Types
  <2>2. NewIds'
    BY <1>1, <1>4, <1>7, <2>1 DEF Ids, NewIds
  <2>3. Apart' /\ DeletesIssued'
    BY <1>1, <2>1 DEF Ids, Apart, DeletesIssued, RuleRows
  <2> QED  BY <1>8, <2>2, <2>3 DEF Ids
<1>10. ASSUME NEW t \in Tx, tx' = [tx EXCEPT ![e] = t], Accepted(row),
              t = [tx[e] EXCEPT !.inserted = tx[e].inserted \cup {row}]
       PROVE  Ids'
  <2>1. /\ t.inserted = tx[e].inserted \cup {row} /\ t.doomed = tx[e].doomed
        /\ t.deleted = tx[e].deleted
    BY <1>1, <1>10 DEF Tx
  <2>2. tx'[e] = t /\ Open' \subseteq Open /\ \A f \in Open : f # e => tx'[f] = tx[f]
    BY <1>1, <1>10 DEF Open, Types
  <2>3. \A f \in Open' : \A r \in tx'[f].inserted : r = row \/ r \in tx[f].inserted
    BY <2>1, <2>2
  <2>4. \A f \in Open' : row \in tx'[f].inserted => f = e \/ row \in tx[f].inserted
    BY <2>2
  <2>5. NewIds'
    <3>1. row.table = "rules" => \A s \in Issued : row.id # s.id
      BY <1>4, <1>6 DEF Ids, IssuedIds
    <3> QED  BY <1>1, <1>4, <1>5, <1>7, <1>10, <2>2, <2>3, <3>1 DEF Ids, NewIds
  <2>6. Apart'
    <3>1. ASSUME NEW f \in Open', NEW g \in Open', NEW r \in tx'[f].inserted, NEW s \in tx'[g].inserted,
                 r.table = s.table, r.id = s.id
          PROVE  r = s
      <4>1. f \in Open /\ g \in Open
        BY <2>2
      <4>2. (r = row \/ r \in tx[f].inserted) /\ (s = row \/ s \in tx[g].inserted)
        BY <2>3
      <4>3. CASE r = row /\ s = row
        BY <4>3
      <4>4. CASE r \in tx[f].inserted /\ s \in tx[g].inserted
        BY <3>1, <4>1, <4>4 DEF Ids, Apart
      <4>5. CASE r \in tx[f].inserted /\ s = row
        BY <1>4, <1>7, <3>1, <4>1, <4>5
      <4>6. CASE r = row /\ s \in tx[g].inserted
        BY <1>4, <1>7, <3>1, <4>1, <4>6
      <4> QED  BY <4>2, <4>3, <4>4, <4>5, <4>6
    <3> QED  BY <3>1 DEF Apart
  <2>7. DeletesIssued'
    BY <1>1, <2>1, <2>2 DEF Ids, DeletesIssued, RuleRows
  <2> QED  BY <1>8, <2>5, <2>6, <2>7 DEF Ids
<1> QED  BY <1>0, <1>9, <1>10, InsertTx

LEMMA CommitIds ==
    ASSUME Types, Groups, Logged, Ids, NEW e \in Editors, Commit(e)
    PROVE  Ids'
<1>1. /\ e \in Open /\ tx' = [tx EXCEPT ![e] = None]
      /\ rows' = (rows \ tx[e].deleted) \cup tx[e].inserted
      /\ UNCHANGED next_id
  BY CommitTypes DEF Commit
<1>2. Open' \subseteq Open \ {e} /\ \A f \in Open' : tx'[f] = tx[f]
  BY <1>1 DEF Open, Types
<1>3. Issued \subseteq Issued' /\ Issued' \subseteq Issued \cup RuleRows(rows')
  <2>1. LogGrows /\ Issued' \subseteq Issued \cup RuleRows(rows')
    BY CommitLogged
  <2> QED  BY <2>1 DEF Issued, LogGrows
<1>4. \A r \in Issued' : r \in Issued \/ (r \in tx[e].inserted /\ r.table = "rules")
  <2>1. RuleRows(rows) \subseteq Issued
    BY StoredIssued DEF Logged
  <2> QED  BY <1>1, <1>3, <2>1 DEF RuleRows
<1>5. \A r : Genuine(r)' <=> Genuine(r)
  BY <1>1 DEF Genuine, Accepted
<1> HIDE DEF Genuine
<1>6. \A r \in Issued : r.table = "rules"
  BY IssuedRules DEF Logged
<1>7. IssuedIds'
  <2>1. \A r \in Issued' : Genuine(r)
    BY <1>1, <1>4 DEF Ids, IssuedIds, NewIds
  <2>2. ASSUME NEW r \in Issued', NEW s \in Issued', r.id = s.id PROVE r = s
    <3>1. CASE r \in Issued /\ s \in Issued
      BY <2>2, <3>1 DEF Ids, IssuedIds
    <3>2. CASE r \in Issued /\ s \in tx[e].inserted /\ s.table = "rules"
      BY <1>1, <2>2, <3>2 DEF Ids, NewIds
    <3>3. CASE s \in Issued /\ r \in tx[e].inserted /\ r.table = "rules"
      BY <1>1, <2>2, <3>3 DEF Ids, NewIds
    <3>4. CASE r \in tx[e].inserted /\ s \in tx[e].inserted /\ r.table = "rules" /\ s.table = "rules"
      BY <1>1, <2>2, <3>4 DEF Ids, Apart
    <3> QED  BY <1>4, <3>1, <3>2, <3>3, <3>4
  <2> QED  BY <1>5, <2>1, <2>2 DEF IssuedIds
<1>8. NewIds'
  <2>1. ASSUME NEW f \in Open', NEW r \in tx[f].inserted, r.table = "rules", NEW s \in Issued'
        PROVE  r.id # s.id
    <3>1. CASE s \in Issued
      BY <1>2, <2>1, <3>1 DEF Ids, NewIds
    <3>2. CASE s \in tx[e].inserted /\ s.table = "rules"
      <4>1. r.op = tx[f].op /\ s.op = tx[e].op /\ tx[f].op # tx[e].op
        BY <1>1, <1>2, <3>2 DEF Groups, Written, Numbered
      <4> QED  BY <1>1, <1>2, <2>1, <3>2, <4>1 DEF Ids, Apart
    <3> QED  BY <1>4, <3>1, <3>2
  <2> QED  BY <1>2, <1>5, <2>1 DEF Ids, NewIds
<1>9. Apart'
  <2>1. ASSUME NEW f \in Open', NEW g \in Open', NEW r \in tx'[f].inserted, NEW s \in tx'[g].inserted,
               r.table = s.table, r.id = s.id
        PROVE  r = s
    <3>1. f \in Open /\ g \in Open /\ r \in tx[f].inserted /\ s \in tx[g].inserted
      BY <1>2
    <3> QED  BY <2>1, <3>1 DEF Ids, Apart
  <2> QED  BY <2>1 DEF Apart
<1>10. DeletesIssued'
  BY <1>2, <1>3 DEF Ids, DeletesIssued, RuleRows
<1> QED  BY <1>7, <1>8, <1>9, <1>10 DEF Ids

LEMMA IdsStep == Types /\ Groups /\ Logged /\ Ids /\ [Next]_vars => Ids'
<1> SUFFICES ASSUME Types, Groups, Logged, Ids, [Next]_vars PROVE Ids'
  OBVIOUS
<1>1. ASSUME NEW e \in Editors, NEW table \in Tables, NEW a \in Accounts,
             NEW new \in Lists[table], Begin(e, table, a, new)
      PROVE  Ids'
  <2>1. Issued' = Issued
    BY <1>1, BeginIssues
  <2> QED  BY <1>1, <2>1, BeginIds
<1>2. ASSUME UNCHANGED <<tx, next_id>>, Issued' = Issued PROVE Ids'
  BY <1>2, QuietIds DEF Ids, DeletesIssued, Logged, Open
<1>3. CASE ReadAccounts \/ ReadRules \/ ReadUpstreams
  <2>1. UNCHANGED <<tx, next_id>>
    BY <1>3 DEF ReadAccounts, ReadRules, ReadUpstreams
  <2> QED  BY <1>2, <1>3, <2>1, SnapshotLogged
<1>4. CASE Install
  <2>1. UNCHANGED <<tx, next_id>>
    BY <1>4 DEF Install
  <2> QED  BY <1>2, <1>4, <2>1, InstallLogged
<1>5. ASSUME NEW q \in Queries, NEW a \in Accounts, Decide(q, a) PROVE Ids'
  <2>1. UNCHANGED <<tx, next_id>>
    BY <1>5 DEF Decide
  <2> QED  BY <1>2, <1>5, <2>1, DecideLogged
<1>6. ASSUME NEW q \in Queries, RecordQuota(q) PROVE Ids'
  <2>1. UNCHANGED <<tx, next_id, log>>
    BY <1>6 DEF RecordQuota
  <2> QED  BY <1>2, <2>1, SameLog
<1>7. CASE UNCHANGED vars
  BY <1>2, <1>7, SameLog DEF vars
<1> QED  BY <1>1, <1>3, <1>4, <1>5, <1>6, <1>7, StatementIds, InsertIds, CommitIds DEF Next

-----------------------------------------------------------------------------
(* Rules keep to their budgets.                                            *)

\* The budget, rule by rule, before and after a step.
WithinBudget(r) ==
    /\ Cardinality(Through(r)) <= r.body.limit_count
    /\ r \in rows => counters[r.id] = Cardinality(Through(r))

LEMMA BudgetByRule ==
    /\ BudgetHolds <=> \A q \in Queries : \A r : outcome[q] = "within" /\ held[q] = r => WithinBudget(r)
    /\ BudgetHolds' <=> \A q \in Queries : \A r : outcome'[q] = "within" /\ held'[q] = r => WithinBudget(r)'
<1>1. BudgetHolds <=> \A q \in Queries : \A r : outcome[q] = "within" /\ held[q] = r => WithinBudget(r)
  BY DEF BudgetHolds, Through, WithinBudget
<1>2. BudgetHolds' <=> \A q \in Queries : \A r : outcome'[q] = "within" /\ held'[q] = r => WithinBudget(r)'
  BY DEF BudgetHolds, Through, WithinBudget
<1> QED  BY <1>1, <1>2

LEMMA ThroughFinite ==
    ASSUME NEW r
    PROVE  IsFiniteSet(Through(r)) /\ Cardinality(Through(r)) \in Nat
<1>1. Through(r) \subseteq Queries
  BY DEF Through
<1> QED  BY <1>1, PgAssumption, FS_Subset, FS_CardinalityType

\* A step that lets no query through and fails none, and after which those
\* that were have the rules they had.
SameCharges ==
    /\ \A p \in Queries : outcome'[p] = "within" <=> outcome[p] = "within"
    /\ \A p \in Queries : outcome'[p] = "error" <=> outcome[p] = "error"
    /\ \A p \in Queries : outcome[p] \in {"within", "error"} => held'[p] = held[p]

LEMMA ChargesKept ==
    ASSUME Charges, LogGrows, UNCHANGED <<rows, counters>>, SameCharges, Decided'
    PROVE  Charges'
<1>1. \A r : Through(r)' = Through(r)
  BY DEF SameCharges, Through
<1>2. BudgetHolds'
  <2>1. \A r : WithinBudget(r)' <=> WithinBudget(r)
    BY <1>1 DEF WithinBudget
  <2> QED  BY <2>1, BudgetByRule DEF SameCharges, Charges
<1>3. Counted'
  <2>1. \A q \in Queries : outcome'[q] = "within" /\ held'[q] \in rows => held'[q].id \in DOMAIN counters
    BY DEF SameCharges, Charges, Counted
  <2> QED  BY <1>1, <2>1 DEF Charges, Counted, RuleRows
<1>4. ChargesFollowRules'
  <2>1. \A id \in DOMAIN counters' : \E r \in rows' : r.table = "rules" /\ r.id = id
    BY DEF Charges, ChargesFollowRules
  <2>2. ASSUME NEW q \in Queries, outcome'[q] = "error"
        PROVE  /\ held'[q] \notin rows'
               /\ \E v \in DOMAIN log' : /\ log'[v][held'[q].account] # None
                                         /\ held'[q] \in log'[v][held'[q].account].rules
    <3>1. held'[q] = held[q] /\ outcome[q] = "error"
      BY <2>2 DEF SameCharges
    <3> QED  BY <3>1 DEF Charges, ChargesFollowRules, LogGrows
  <2> QED  BY <2>1, <2>2 DEF ChargesFollowRules
<1> QED  BY <1>2, <1>3, <1>4 DEF Charges

LEMMA DecideCharges ==
    ASSUME Types, Charges, LogGrows, NEW q \in Queries, NEW a \in Accounts, Decide(q, a)
    PROVE  Charges'
<1>1. UNCHANGED <<rows, counters, outcome>> /\ held[q] = None
  BY DEF Decide, tables
<1>2. \A p \in Queries : p # q => held'[p] = held[p]
  BY DEF Decide, Types
<1>3. outcome[q] = None
  BY <1>1 DEF Charges, Decided
<1>4. Decided'
  BY <1>1, <1>2, <1>3 DEF Charges, Decided
<1>5. SameCharges
  BY <1>1, <1>2, <1>3, NoneIsDistinct DEF SameCharges
<1> QED  BY <1>1, <1>4, <1>5, ChargesKept

\* A rule that a query is charged for is in the history, and is not one that
\* is about to be stored.
LEMMA HeldIssued ==
    ASSUME Types, Logged, Ids, NEW q \in Queries, held[q] # None
    PROVE  /\ held[q] \in Issued /\ held[q] \in Row /\ held[q].table = "rules"
           /\ held[q].body.limit_count \in Int
           /\ \E v \in DOMAIN log : /\ log[v][held[q].account] # None
                                    /\ held[q] \in log[v][held[q].account].rules
           /\ \A e \in Open : held[q] \notin tx[e].inserted
<1>1. held[q] \in Issued /\ held[q].body.action = "limit"
  BY DEF Logged, HeldLogged
<1>2. held[q] \in Row /\ held[q].table = "rules"
  BY <1>1, IssuedRules DEF Logged
<1>3. held[q].body \in RuleBody /\ held[q].body.limit_count # None
  BY <1>1, <1>2 DEF Ids, IssuedIds, Genuine, Accepted
<1>4. held[q].body.limit_count \in Int
  BY <1>3 DEF RuleBody
<1>5. \E v \in DOMAIN log : /\ log[v][held[q].account] # None
                            /\ held[q] \in log[v][held[q].account].rules
  BY <1>1 DEF Issued, Logged, Latest
<1>6. \A e \in Open : held[q] \notin tx[e].inserted
  BY <1>1, <1>2 DEF Ids, NewIds
<1> QED  BY <1>1, <1>2, <1>4, <1>5, <1>6

LEMMA CommitCharges ==
    ASSUME Types, Groups, Logged, Ids, Charges, NEW e \in Editors, Commit(e)
    PROVE  Charges'
<1> DEFINE kept == rows \ tx[e].deleted
           gone == {r.id : r \in {d \in tx[e].deleted : d.table = "rules"}}
<1>1. /\ e \in Open /\ rows' = kept \cup tx[e].inserted
      /\ UNCHANGED <<held, outcome>> /\ LogGrows
  BY CommitTypes, CommitLogged DEF Commit, query
<1>2. /\ DOMAIN counters' = DOMAIN counters \ gone
      /\ \A id \in DOMAIN counters' : counters'[id] = counters[id]
  BY DEF Commit, Cascaded, Restrict
<1>3. \A r : Through(r)' = Through(r)
  BY <1>1 DEF Through
<1>4. \A r \in RuleRows(rows) : r \in Issued
  BY StoredIssued DEF Logged
<1>5. ASSUME NEW r \in RuleRows(kept) PROVE r.id \notin gone
  <2>1. \A d \in tx[e].deleted : d.table = "rules" => d \in Issued
    BY <1>1 DEF Ids, DeletesIssued, RuleRows
  <2> QED  BY <1>4, <2>1 DEF Ids, IssuedIds, RuleRows
<1>6. \A r \in RuleRows(tx[e].inserted) : r.id \notin DOMAIN counters
  BY <1>1, <1>4 DEF Ids, NewIds, RuleRows, Charges, ChargesFollowRules
<1>7. \A q \in Queries : held[q] # None /\ held[q] \in rows' => held[q] \in RuleRows(kept)
  BY <1>1, HeldIssued DEF RuleRows
<1>8. RuleRows(kept) \subseteq RuleRows(rows)
  BY DEF RuleRows
<1>9. Decided'
  BY <1>1 DEF Charges, Decided
<1>10. Counted'
  <2>1. ASSUME NEW q \in Queries, outcome[q] = "within", held[q] \in rows'
        PROVE  held[q].id \in DOMAIN counters'
    <3>1. held[q] \in RuleRows(kept)
      BY <1>7, <2>1, NoneIsDistinct DEF Charges, Decided
    <3>2. held[q].id \in DOMAIN counters
      BY <1>8, <2>1, <3>1 DEF Charges, Counted, RuleRows
    <3> QED  BY <1>2, <1>5, <3>1, <3>2
  <2>2. ASSUME NEW r \in RuleRows(rows'), r.id \in DOMAIN counters'
        PROVE  counters'[r.id] = Cardinality(Through(r))
    <3>1. r \in RuleRows(kept)
      BY <1>1, <1>2, <1>6, <2>2 DEF RuleRows
    <3> QED  BY <1>2, <1>8, <2>2, <3>1 DEF Charges, Counted
  <2> HIDE DEF kept, gone
  <2> QED  BY <1>1, <1>3, <2>1, <2>2 DEF Counted, RuleRows
<1>11. BudgetHolds'
  <2>1. ASSUME NEW q \in Queries, NEW r, outcome'[q] = "within", held'[q] = r
        PROVE  WithinBudget(r)'
    <3>1. outcome[q] = "within" /\ held[q] = r /\ held[q] # None
      BY <1>1, <2>1, NoneIsDistinct DEF Charges, Decided
    <3>2. WithinBudget(r)
      BY <3>1, BudgetByRule DEF Charges
    <3>3. r \in rows' => counters'[r.id] = Cardinality(Through(r))
      <4>1. SUFFICES ASSUME r \in rows' PROVE counters'[r.id] = Cardinality(Through(r))
        OBVIOUS
      <4>2. r \in RuleRows(kept) /\ r \in rows
        BY <1>7, <1>8, <3>1, <4>1 DEF RuleRows
      <4>3. r.id \in DOMAIN counters'
        BY <1>2, <1>5, <3>1, <4>2 DEF Charges, Counted
      <4> QED  BY <1>2, <3>2, <4>2, <4>3 DEF WithinBudget
    <3> QED  BY <1>3, <3>2, <3>3 DEF WithinBudget
  <2> QED  BY <2>1, BudgetByRule
<1>12. ChargesFollowRules'
  <2>1. ASSUME NEW id \in DOMAIN counters' PROVE \E r \in rows' : r.table = "rules" /\ r.id = id
    <3>1. PICK r \in rows : r.table = "rules" /\ r.id = id
      BY <1>2 DEF Charges, ChargesFollowRules
    <3>2. r \in kept
      BY <1>2, <3>1
    <3> QED  BY <1>1, <3>1, <3>2
  <2>2. ASSUME NEW q \in Queries, outcome[q] = "error"
        PROVE  /\ held[q] \notin rows'
               /\ \E v \in DOMAIN log' : /\ log'[v][held[q].account] # None
                                         /\ held[q] \in log'[v][held[q].account].rules
    <3>1. held[q] # None /\ held[q] \notin rows
      BY <2>2, NoneIsDistinct DEF Charges, Decided, ChargesFollowRules
    <3>2. held[q] \notin rows'
      BY <1>7, <1>8, <3>1 DEF RuleRows
    <3> QED  BY <1>1, <2>2, <3>2 DEF Charges, ChargesFollowRules, LogGrows
  <2> HIDE DEF kept, gone
  <2> QED  BY <1>1, <2>1, <2>2 DEF ChargesFollowRules
<1> QED  BY <1>9, <1>10, <1>11, <1>12 DEF Charges

\* A query that is not let through, and does not fail.
LEMMA RecordOver ==
    ASSUME Types, Charges, LogGrows, NEW q \in Queries, held[q] # None, outcome[q] = None,
           UNCHANGED <<rows, counters, held>>, outcome' = [outcome EXCEPT ![q] = "over"]
    PROVE  Charges'
<1>1. outcome'[q] = "over" /\ \A p \in Queries : p # q => outcome'[p] = outcome[p]
  BY DEF Types
<1>2. SameCharges
  BY <1>1, NoneIsDistinct DEF SameCharges
<1>3. Decided'
  BY <1>1 DEF Charges, Decided
<1> QED  BY <1>2, <1>3, ChargesKept

\* A query that fails, as its rule is gone.
LEMMA RecordError ==
    ASSUME Types, Logged, Ids, Charges, UNCHANGED log, NEW q \in Queries, held[q] # None, outcome[q] = None,
           \A r \in rows : r.table = "rules" => r.id # held[q].id,
           UNCHANGED <<rows, counters, held>>, outcome' = [outcome EXCEPT ![q] = "error"]
    PROVE  Charges'
<1>1. outcome'[q] = "error" /\ \A p \in Queries : p # q => outcome'[p] = outcome[p]
  BY DEF Types
<1>2. \A r : Through(r)' = Through(r)
  BY <1>1, NoneIsDistinct DEF Through
<1>3. Decided'
  BY <1>1 DEF Charges, Decided
<1>4. \A p \in Queries : outcome'[p] = "within" => outcome[p] = "within"
  BY <1>1
<1>5. BudgetHolds'
  <2>1. \A r : WithinBudget(r)' <=> WithinBudget(r)
    BY <1>2 DEF WithinBudget
  <2> QED  BY <1>4, <2>1, BudgetByRule DEF Charges
<1>6. Counted'
  <2>1. \A p \in Queries : outcome'[p] = "within" /\ held'[p] \in rows => held'[p].id \in DOMAIN counters
    BY <1>4 DEF Charges, Counted
  <2> QED  BY <1>2, <2>1 DEF Charges, Counted, RuleRows
<1>7. held[q] \notin rows
  BY HeldIssued
<1>8. ASSUME NEW p \in Queries, outcome'[p] = "error"
      PROVE  /\ held[p] \notin rows
             /\ \E v \in DOMAIN log : log[v][held[p].account] # None /\ held[p] \in log[v][held[p].account].rules
  <2>1. CASE p = q
    BY <1>7, <2>1, HeldIssued
  <2>2. CASE p # q
    BY <1>1, <1>8, <2>2 DEF Charges, ChargesFollowRules
  <2> QED  BY <2>1, <2>2
<1>9. ChargesFollowRules'
  BY <1>8 DEF Charges, ChargesFollowRules
<1> QED  BY <1>3, <1>5, <1>6, <1>9 DEF Charges

\* A query that is let through: its rule is stored, and its counter moves on.
LEMMA RecordWithin ==
    ASSUME Types, Logged, Ids, Charges, UNCHANGED <<rows, held, log>>,
           NEW q \in Queries, NEW h, h = held[q], h # None, outcome[q] = None,
           ~(h.body.limit_count <= 0), \E r \in rows : r.table = "rules" /\ r.id = h.id,
           HasRoom(h.id, h.body.limit_count), outcome' = [outcome EXCEPT ![q] = "within"],
           counters' = [i \in DOMAIN counters \cup {h.id} |->
                           IF i # h.id THEN counters[i]
                           ELSE IF h.id \in DOMAIN counters THEN counters[h.id] + 1 ELSE 1]
    PROVE  Charges'
<1>1. outcome'[q] = "within" /\ \A p \in Queries : p # q => outcome'[p] = outcome[p]
  BY DEF Types
<1>2. h \in Issued /\ h.table = "rules" /\ h.body.limit_count \in Int
  BY HeldIssued
<1>3. \A r \in RuleRows(rows) : r \in Issued
  BY StoredIssued DEF Logged
<1>4. h \in RuleRows(rows)
  BY <1>2, <1>3 DEF Ids, IssuedIds, RuleRows
<1>5. \A r : r # h => Through(r)' = Through(r)
  BY <1>1, NoneIsDistinct DEF Through
<1>6. Through(h)' = Through(h) \cup {q} /\ q \notin Through(h)
  BY <1>1, NoneIsDistinct DEF Through
<1>7. Cardinality(Through(h)') = Cardinality(Through(h)) + 1 /\ Cardinality(Through(h)) \in Nat
  <2>1. IsFiniteSet(Through(h)) /\ Cardinality(Through(h)) \in Nat
    BY ThroughFinite
  <2>2. \A S, x : IsFiniteSet(S) /\ x \notin S => Cardinality(S \cup {x}) = Cardinality(S) + 1
    BY FS_AddElement
  <2> QED  BY <1>6, <2>1, <2>2
<1>8. counters'[h.id] = Cardinality(Through(h)') /\ Cardinality(Through(h)') <= h.body.limit_count
  <2>1. CASE h.id \in DOMAIN counters
    <3>1. counters[h.id] = Cardinality(Through(h))
      BY <1>4, <2>1 DEF Charges, Counted
    <3>2. counters[h.id] < h.body.limit_count
      BY <2>1 DEF HasRoom
    <3> QED  BY <1>2, <1>7, <2>1, <3>1, <3>2
  <2>2. CASE h.id \notin DOMAIN counters
    <3>1. Through(h) = {}
      BY <1>4, <2>2 DEF Charges, Counted, Through, RuleRows
    <3>2. Cardinality(Through(h)) = 0
      BY <3>1, FS_EmptySet
    <3> QED  BY <1>2, <1>7, <2>2, <3>2
  <2> QED  BY <2>1, <2>2
<1>9. /\ DOMAIN counters' = DOMAIN counters \cup {h.id}
      /\ \A i \in DOMAIN counters : i # h.id => counters'[i] = counters[i]
  OBVIOUS
<1>10. \A r \in RuleRows(rows) : r.id = h.id => r = h
  BY <1>2, <1>3 DEF Ids, IssuedIds
<1>11. Decided'
  BY <1>1 DEF Charges, Decided
<1>12. Counted'
  <2>1. ASSUME NEW p \in Queries, outcome'[p] = "within", held[p] \in rows
        PROVE  held[p].id \in DOMAIN counters'
    <3>1. CASE p = q
      BY <1>9, <3>1
    <3>2. CASE p # q
      BY <1>1, <1>9, <2>1, <3>2 DEF Charges, Counted
    <3> QED  BY <3>1, <3>2
  <2>2. ASSUME NEW r \in RuleRows(rows), r.id \in DOMAIN counters'
        PROVE  counters'[r.id] = Cardinality(Through(r)')
    <3>1. CASE r = h
      BY <1>8, <3>1
    <3>2. CASE r # h
      BY <1>5, <1>9, <1>10, <2>2, <3>2 DEF Charges, Counted
    <3> QED  BY <3>1, <3>2
  <2> QED  BY <2>1, <2>2 DEF Counted, RuleRows
<1>13. BudgetHolds'
  <2>1. ASSUME NEW p \in Queries, NEW r, outcome'[p] = "within", held'[p] = r
        PROVE  WithinBudget(r)'
    <3>1. CASE r = h
      BY <1>8, <3>1 DEF WithinBudget
    <3>2. CASE r # h
      <4>1. outcome[p] = "within" /\ held[p] = r /\ held[p] # None
        BY <1>1, <2>1, <3>2, NoneIsDistinct DEF Charges, Decided
      <4>2. WithinBudget(r)
        BY <4>1, BudgetByRule DEF Charges
      <4>3. r \in rows => r.id # h.id /\ r.id \in DOMAIN counters
        BY <1>10, <3>2, <4>1, HeldIssued DEF RuleRows, Charges, Counted
      <4> QED  BY <1>5, <1>9, <3>2, <4>2, <4>3 DEF WithinBudget
    <3> QED  BY <3>1, <3>2
  <2> QED  BY <2>1, BudgetByRule
<1>14. ChargesFollowRules'
  <2>1. \A id \in DOMAIN counters' : \E r \in rows : r.table = "rules" /\ r.id = id
    BY <1>9 DEF Charges, ChargesFollowRules
  <2>2. \A p \in Queries : outcome'[p] = "error" => outcome[p] = "error"
    BY <1>1
  <2> QED  BY <2>1, <2>2 DEF Charges, ChargesFollowRules
<1> QED  BY <1>11, <1>12, <1>13, <1>14 DEF Charges

LEMMA RecordCharges ==
    ASSUME Types, Logged, Ids, Charges, NEW q \in Queries, RecordQuota(q)
    PROVE  Charges'
<1>1. UNCHANGED <<rows, held, log>> /\ held[q] # None /\ outcome[q] = None /\ LogGrows
  BY SameLog DEF RecordQuota
<1>2. PICK h : h = held[q]
  OBVIOUS
<1>3. CASE outcome' = [outcome EXCEPT ![q] = "over"] /\ UNCHANGED counters
  BY <1>1, <1>3, RecordOver
<1>4. CASE /\ \A r \in rows : r.table = "rules" => r.id # held[q].id
           /\ outcome' = [outcome EXCEPT ![q] = "error"] /\ UNCHANGED counters
  BY <1>1, <1>4, RecordError
<1>5. CASE /\ ~(h.body.limit_count <= 0)
           /\ ~ \A r \in rows : r.table = "rules" => r.id # h.id
           /\ HasRoom(h.id, h.body.limit_count)
           /\ outcome' = [outcome EXCEPT ![q] = "within"]
           /\ counters' = [i \in DOMAIN counters \cup {h.id} |->
                              IF i # h.id THEN counters[i]
                              ELSE IF h.id \in DOMAIN counters THEN counters[h.id] + 1 ELSE 1]
  BY <1>1, <1>2, <1>5, RecordWithin
<1> QED  BY <1>2, <1>3, <1>4, <1>5, Zenon DEF RecordQuota

LEMMA ChargesStep == Types /\ Groups /\ Logged /\ Ids /\ Charges /\ [Next]_vars => Charges'
<1> SUFFICES ASSUME Types, Groups, Logged, Ids, Charges, [Next]_vars PROVE Charges'
  OBVIOUS
<1>1. ASSUME LogGrows, UNCHANGED <<rows, counters, held, outcome>> PROVE Charges'
  <2>1. SameCharges /\ Decided'
    BY <1>1 DEF SameCharges, Charges, Decided
  <2> QED  BY <1>1, <2>1, ChargesKept
<1>2. ASSUME NEW e \in Editors, NEW table \in Tables, NEW a \in Accounts,
             NEW new \in Lists[table], Begin(e, table, a, new)
      PROVE  Charges'
  <2>1. UNCHANGED <<rows, counters, held, outcome>>
    BY <1>2 DEF Begin, Change, query
  <2> QED  BY <1>1, <1>2, <2>1, BeginLogged
<1>3. ASSUME NEW e \in Editors, StartDelete(e) \/ FinishDelete(e) \/ Insert(e) \/ Rollback(e)
      PROVE  Charges'
  <2>1. UNCHANGED <<rows, counters, held, outcome>>
    BY <1>3 DEF StartDelete, FinishDelete, Insert, Rollback, tables, query
  <2> QED  BY <1>1, <1>3, <2>1, StatementLogged
<1>4. CASE ReadAccounts \/ ReadRules \/ ReadUpstreams
  <2>1. UNCHANGED <<rows, counters, held, outcome>>
    BY <1>4 DEF ReadAccounts, ReadRules, ReadUpstreams, tables, query
  <2> QED  BY <1>1, <1>4, <2>1, SnapshotLogged
<1>5. CASE Install
  <2>1. UNCHANGED <<rows, counters, held, outcome>>
    BY <1>5 DEF Install, tables, query
  <2> QED  BY <1>1, <1>5, <2>1, InstallLogged
<1>6. ASSUME NEW q \in Queries, NEW a \in Accounts, Decide(q, a) PROVE Charges'
  BY <1>6, DecideLogged, DecideCharges
<1>7. CASE UNCHANGED vars
  BY <1>1, <1>7, SameLog DEF vars
<1> QED  BY <1>2, <1>3, <1>4, <1>5, <1>6, <1>7, CommitCharges, RecordCharges DEF Next

-----------------------------------------------------------------------------
(* The theorems.                                                           *)

LEMMA InitialIInv == Init => IInv
<1> SUFFICES ASSUME Init PROVE IInv
  OBVIOUS
<1>1. /\ Open = {} /\ rows = {} /\ accounts = {} /\ counters = << >>
      /\ got.accounts = None /\ got.rules = None /\ got.upstreams = None
      /\ \A a \in Accounts : cache[a] = None
      /\ \A q \in Queries : held[q] = None /\ outcome[q] = None
      /\ log = <<[a \in Accounts |-> None]>>
  BY DEF Init, Open, Nothing
<1>2. DOMAIN log = {1} /\ Len(log) = 1 /\ log[1] = [a \in Accounts |-> None] /\ DOMAIN counters = {}
  BY <1>1
<1>3. Issued = {}
  BY <1>2 DEF Issued
<1>4. PoliciesIn(accounts, rows) = [a \in Accounts |-> None]
  BY <1>1 DEF PoliciesIn, PolicyIn
<1>5. Logged
  BY <1>1, <1>2, <1>4 DEF Logged, Latest, ReadLogged, HalvesWereStored, HeldLogged
<1>6. Ids
  BY <1>1, <1>3 DEF Ids, IssuedIds, NewIds, Apart, DeletesIssued
<1>7. Charges
  BY <1>1, <1>2, NoneIsDistinct DEF Charges, Decided, BudgetHolds, ChargesFollowRules, Counted, RuleRows
<1> QED  BY <1>5, <1>6, <1>7, InitialTypes, InitialGroups DEF IInv

\* The invariant holds, whatever requests, queries and the poll task do.
THEOREM Inductive == Spec => []IInv
<1>1. IInv /\ [Next]_vars => IInv'
  <2> SUFFICES ASSUME IInv, [Next]_vars PROVE IInv'
    OBVIOUS
  <2>1. Types /\ Groups /\ Logged /\ Ids /\ Charges
    BY DEF IInv
  <2>2. Types' /\ Groups' /\ Logged' /\ Ids' /\ Charges'
    BY <2>1, TypesStep, GroupsStep, LoggedStep, IdsStep, ChargesStep
  <2> QED  BY <2>2 DEF IInv
<1> QED  BY <1>1, InitialIInv, PTL DEF Spec

\* A replaced list is stored, read and served all or not at all
\* (postgres.rs:248-288).
THEOREM StoredWhole == Spec => []AllOrNothing
<1>1. IInv => AllOrNothing
  BY DEF IInv, Groups
<1> QED  BY <1>1, Inductive, PTL

\* What is served was stored, and the upstream is no older than the rules
\* (postgres.rs:436-470).
THEOREM ServedWasStored == Spec => []HalvesWereStored
<1>1. IInv => HalvesWereStored
  BY DEF IInv, Logged
<1> QED  BY <1>1, Inductive, PTL

\* No rule lets more queries through than its budget (postgres.rs:208-226).
THEOREM BudgetKept == Spec => []BudgetHolds
<1>1. IInv => BudgetHolds
  BY DEF IInv, Charges
<1> QED  BY <1>1, Inductive, PTL

\* A charge lives and dies with its rule (postgres.rs:213-225).
THEOREM ChargesKeptWithRules == Spec => []ChargesFollowRules
<1>1. IInv => ChargesFollowRules
  BY DEF IInv, Charges
<1> QED  BY <1>1, Inductive, PTL
=============================================================================
