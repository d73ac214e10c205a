--------------------------- MODULE PgControlPlane ---------------------------
(***************************************************************************)
(* PostgresControlPlane (controlplane/storage/postgres.rs) under several   *)
(* management requests, one poll task and any number of limited queries:   *)
(* the tables rules, upstreams and quota_counters, at the isolation level  *)
(* the code leaves in force, READ COMMITTED.                               *)
(*                                                                         *)
(* A statement outside a transaction is one step.  In replace_rules and    *)
(* replace_upstreams each statement is a step, and the DELETE is two: it   *)
(* picks its rows when it starts and goes on when it has locked them.  A   *)
(* policy's list is the set of its rows, which carry their positions.      *)
(* Counters are those of one window.                                       *)
(***************************************************************************)
EXTENDS Integers, Sequences, FiniteSets, FiniteSetsExt, Functions

CONSTANTS
    Accounts,
    Lists,          \* what a request may put in a table: table |-> set of lists
    Editors,        \* management requests in flight
    Queries,        \* queries that a cached limit rule decides
    None,
    MaxRequests,    \* bound: requests begun
    MaxVersions     \* bound: changes to the stored policies

Tables == {"rules", "upstreams"}

\* A rule body says whether it is a limit, and its budget; an upstream body is
\* a name.
RuleBody == [action : {"deny", "limit"}, limit_count : Int \cup {None}]

ASSUME PgAssumption ==
    /\ DOMAIN Lists = Tables
    /\ Lists["rules"] \subseteq Seq(RuleBody)
    /\ \A list \in Lists["upstreams"] : list \in Seq(Range(list))
    /\ IsFiniteSet(Queries)
    /\ MaxRequests \in Nat /\ MaxVersions \in Nat

\* A row knows which request wrote it, and how many rows that request has.
Body == UNION {Range(list) : list \in Lists["rules"] \cup Lists["upstreams"]}
Row == [table : Tables, id : Nat, account : Accounts, position : Nat, body : Body,
        op : Nat, size : Nat]
Policy == [rules : SUBSET Row, upstream : Row \cup {None}]

ASSUME NoneIsDistinct == None \notin Policy /\ None \notin Int /\ None \notin {"within", "over", "error"}

VARIABLES
    accounts,       \* table accounts
    rows,           \* the committed rows of rules and upstreams
    next_id,        \* the id sequences, which no rollback turns back
    counters,       \* quota_counters: rule id |-> count
    tx,             \* per editor: its open transaction, or None
    got,            \* what snapshot() has read so far, by statement
    cache,          \* PolicyCache
    held,           \* per query: the limit rule that decided it, or None
    outcome,        \* per query: what record_quota returned, or None
    requests,       \* history: requests begun
    log             \* history: every value of the stored policies, oldest first

vars == <<accounts, rows, next_id, counters, tx, got, cache, held, outcome, requests, log>>
tables == <<accounts, rows, counters>>
reader == <<got, cache>>
query  == <<held, outcome>>

-----------------------------------------------------------------------------
RowsOf(stored, table, a) == {r \in stored : r.table = table /\ r.account = a}

\* ORDER BY account_id, id under DISTINCT ON (account_id): the oldest row.
Active(stored, a) ==
    LET own == RowsOf(stored, "upstreams", a)
    IN  IF own = {} THEN None ELSE CHOOSE r \in own : \A s \in own : r.id <= s.id

PolicyIn(accts, stored, a) ==
    IF a \notin accts THEN None
    ELSE [rules |-> RowsOf(stored, "rules", a), upstream |-> Active(stored, a)]

PoliciesIn(accts, stored) == [a \in Accounts |-> PolicyIn(accts, stored, a)]

\* A statement or a commit that leaves these accounts and rows.
Change(accts, stored) ==
    /\ accounts' = accts /\ rows' = stored
    /\ log' = IF PoliciesIn(accts, stored) = PoliciesIn(accounts, rows) THEN log
              ELSE Append(log, PoliciesIn(accts, stored))
    /\ Len(log') <= MaxVersions

Nothing == [accounts |-> None, rules |-> None, upstreams |-> None]

Init ==
    /\ accounts = {} /\ rows = {} /\ counters = << >>
    /\ next_id = [t \in Tables |-> 1]
    /\ tx = [e \in Editors |-> None]
    /\ got = Nothing
    /\ cache = [a \in Accounts |-> None]
    /\ held = [q \in Queries |-> None] /\ outcome = [q \in Queries |-> None]
    /\ requests = 0
    /\ log = <<[a \in Accounts |-> None]>>

-----------------------------------------------------------------------------
(* replace_rules and replace_upstreams.                                    *)

\* account_id_or_create, in statements of its own, and BEGIN.
Begin(e, table, a, new) ==
    /\ tx[e] = None /\ requests < MaxRequests
    /\ Change(accounts \cup {a}, rows)
    /\ requests' = requests + 1
    /\ tx' = [tx EXCEPT ![e] = [table |-> table, account |-> a, new |-> new, op |-> requests',
                                step |-> "delete", doomed |-> {}, deleted |-> {}, inserted |-> {}]]
    /\ UNCHANGED <<next_id, counters, reader, query>>

Open == {e \in Editors : tx[e] # None}
Others(e) == Open \ {e}
LockedBy(others) == UNION {tx[o].deleted : o \in others}
InsertedBy(others) == UNION {tx[o].inserted : o \in others}

\* The DELETE starts: it will delete the rows that are committed now.
StartDelete(e) ==
    /\ tx[e] # None /\ tx[e].step = "delete"
    /\ tx' = [tx EXCEPT ![e].step = "lock",
                        ![e].doomed = RowsOf(rows, tx[e].table, tx[e].account)]
    /\ UNCHANGED <<tables, next_id, reader, query, requests, log>>

\* It waits for the transactions that hold any of these rows, and passes over
\* those that are gone by then.  Rows committed in the meantime stay.
FinishDelete(e) ==
    /\ tx[e] # None /\ tx[e].step = "lock"
    /\ tx[e].doomed \cap LockedBy(Others(e)) = {}
    /\ tx' = [tx EXCEPT ![e].step = "insert",
                        ![e].doomed = {},
                        ![e].deleted = tx[e].doomed \cap rows]
    /\ UNCHANGED <<tables, next_id, reader, query, requests, log>>

\* The row that e's next INSERT makes.
NextRow(e) ==
    LET t == tx[e]  i == Cardinality(t.inserted)
    IN  [table |-> t.table, id |-> next_id[t.table], account |-> t.account, position |-> i,
         body |-> t.new[i + 1], op |-> t.op, size |-> Len(t.new)]

\* UNIQUE (account_id, name)
SameKey(r, s) == /\ r.table = "upstreams" /\ s.table = "upstreams"
                 /\ r.account = s.account /\ r.body = s.body

\* CONSTRAINT rules_limit_requires_window, of which the window half is left out
Accepted(r) == r.table = "rules" /\ r.body.action = "limit" => r.body.limit_count # None

\* Mutant: a refused row ends the list, and not the request.
InsertOrSkip(e) ==
    /\ tx[e] # None /\ tx[e].step = "insert" /\ Cardinality(tx[e].inserted) < Len(tx[e].new)
    /\ next_id' = [next_id EXCEPT ![tx[e].table] = @ + 1]
    /\ tx' = IF Accepted(NextRow(e)) THEN [tx EXCEPT ![e].inserted = @ \cup {NextRow(e)}]
             ELSE [tx EXCEPT ![e].new = SubSeq(@, 1, Cardinality(tx[e].inserted))]
    /\ UNCHANGED <<tables, reader, query, requests, log>>

\* One INSERT.  It waits for a transaction that may add or remove a row with
\* its key; a row the constraints refuse ends the request and rolls back.
Insert(e) ==
    /\ tx[e] # None /\ tx[e].step = "insert" /\ Cardinality(tx[e].inserted) < Len(tx[e].new)
    /\ LET row == NextRow(e)
           others == Others(e)
           present == (rows \ tx[e].deleted) \cup tx[e].inserted
       IN  /\ \A s \in LockedBy(others) \cup InsertedBy(others) : ~SameKey(row, s)
           /\ next_id' = [next_id EXCEPT ![row.table] = @ + 1]
           /\ tx' = IF Accepted(row) /\ \A s \in present : ~SameKey(row, s)
                    THEN [tx EXCEPT ![e].inserted = @ \cup {row}]
                    ELSE [tx EXCEPT ![e] = None]
    /\ UNCHANGED <<tables, reader, query, requests, log>>

\* Mutant: the counters of deleted rules stay.
Orphaned(deleted) == counters

\* ON DELETE CASCADE, from a rule to its counters
Cascaded(deleted) ==
    Restrict(counters, DOMAIN counters \ {r.id : r \in {d \in deleted : d.table = "rules"}})

\* COMMIT
Commit(e) ==
    /\ tx[e] # None /\ tx[e].step = "insert" /\ Cardinality(tx[e].inserted) = Len(tx[e].new)
    /\ Change(accounts, (rows \ tx[e].deleted) \cup tx[e].inserted)
    /\ counters' = Cascaded(tx[e].deleted)
    /\ tx' = [tx EXCEPT ![e] = None]
    /\ UNCHANGED <<next_id, reader, query, requests>>

\* A statement fails, the connection is lost, or Postgres breaks a deadlock:
\* the request returns an error and the dropped transaction rolls back.
Rollback(e) ==
    /\ tx[e] # None
    /\ tx' = [tx EXCEPT ![e] = None]
    /\ UNCHANGED <<tables, next_id, reader, query, requests, log>>

-----------------------------------------------------------------------------
(* snapshot: three statements, each of which sees what is committed when   *)
(* it runs, and the swap of the cache.                                     *)

ReadAccounts ==
    /\ got = Nothing
    /\ got' = [got EXCEPT !.accounts = accounts]
    /\ UNCHANGED <<tables, next_id, tx, cache, query, requests, log>>

ReadRules ==
    /\ got.accounts # None /\ got.rules = None
    /\ got' = [got EXCEPT !.rules = {r \in rows : r.table = "rules"}]
    /\ UNCHANGED <<tables, next_id, tx, cache, query, requests, log>>

ReadUpstreams ==
    /\ got.rules # None /\ got.upstreams = None
    /\ got' = [got EXCEPT !.upstreams = {r \in rows : r.table = "upstreams"}]
    /\ UNCHANGED <<tables, next_id, tx, cache, query, requests, log>>

\* Mutant: the new lists are added to the ones the cache has.
InstallMerged ==
    /\ got.upstreams # None
    /\ cache' = [a \in Accounts |->
                    LET p == PolicyIn(got.accounts, got.rules \cup got.upstreams, a)
                    IN  IF p = None \/ cache[a] = None THEN p
                        ELSE [p EXCEPT !.rules = @ \cup cache[a].rules]]
    /\ got' = Nothing
    /\ UNCHANGED <<tables, next_id, tx, query, requests, log>>

Install ==
    /\ got.upstreams # None
    /\ cache' = PoliciesIn(got.accounts, got.rules \cup got.upstreams)
    /\ got' = Nothing
    /\ UNCHANGED <<tables, next_id, tx, query, requests, log>>

-----------------------------------------------------------------------------
(* Queries.                                                                *)

\* handle_inner decides by a limit rule of the cached policy.
Decide(q, a) ==
    /\ held[q] = None /\ cache[a] # None
    /\ \E r \in cache[a].rules : r.body.action = "limit" /\ held' = [held EXCEPT ![q] = r]
    /\ UNCHANGED <<tables, next_id, tx, reader, outcome, requests, log>>

\* Mutant: the count may pass the limit by one.
HasRoomLate(id, limit_count) == id \notin DOMAIN counters \/ counters[id] <= limit_count

\* The upsert inserts a missing counter and bumps one below the limit.
HasRoom(id, limit_count) == id \notin DOMAIN counters \/ counters[id] < limit_count

\* record_quota.  The counter's row references the rule: the upsert waits for
\* a transaction that has deleted it, and fails once that has committed.
RecordQuota(q) ==
    /\ held[q] # None /\ outcome[q] = None
    /\ LET id == held[q].id  limit_count == held[q].body.limit_count
       IN  IF limit_count <= 0
           THEN outcome' = [outcome EXCEPT ![q] = "over"] /\ UNCHANGED counters
           ELSE /\ \A r \in LockedBy(Open) : r.table = "rules" => r.id # id
                /\ IF \A r \in rows : r.table = "rules" => r.id # id
                   THEN outcome' = [outcome EXCEPT ![q] = "error"] /\ UNCHANGED counters
                   ELSE IF HasRoom(id, limit_count)
                   THEN /\ outcome' = [outcome EXCEPT ![q] = "within"]
                        /\ counters' = [i \in DOMAIN counters \cup {id} |->
                              IF i # id THEN counters[i]
                              ELSE IF id \in DOMAIN counters THEN counters[id] + 1 ELSE 1]
                   ELSE outcome' = [outcome EXCEPT ![q] = "over"] /\ UNCHANGED counters
    /\ UNCHANGED <<accounts, rows, next_id, tx, reader, held, requests, log>>

Next ==
    \/ \E e \in Editors, table \in Tables, a \in Accounts :
          \E new \in Lists[table] : Begin(e, table, a, new)
    \/ \E e \in Editors :
          \/ StartDelete(e) \/ FinishDelete(e)
          \/ Insert(e) \/ Commit(e) \/ Rollback(e)
    \/ ReadAccounts \/ ReadRules \/ ReadUpstreams
    \/ Install
    \/ \E q \in Queries : (\E a \in Accounts : Decide(q, a)) \/ RecordQuota(q)

Spec == Init /\ [][Next]_vars

-----------------------------------------------------------------------------
(* Properties.                                                             *)

\* The rows of a request, if there are any, are all there.
Whole(stored) ==
    \A r \in stored : Cardinality({s \in stored : s.table = r.table /\ s.op = r.op}) = r.size

\* A replaced list is stored and read all or not at all, also when a row of it
\* is refused half-way (postgres.rs:248-288) and while other requests and the
\* poll task run.
AllOrNothing ==
    /\ Whole(rows)
    /\ got.rules # None => Whole(got.rules)
    /\ \A a \in Accounts : cache[a] # None => Whole(cache[a].rules)

\* Each half of a cached policy was stored at some time, and the upstream is
\* no older than the rules (postgres.rs:436-470).
HalvesWereStored ==
    \A a \in Accounts : cache[a] # None =>
        \E v, w \in DOMAIN log :
            /\ v <= w /\ log[v][a] # None /\ log[w][a] # None
            /\ cache[a].rules = log[v][a].rules
            /\ cache[a].upstream = log[w][a].upstream

\* However queries, edits and cascading deletes interleave, no stored rule
\* lets more queries through than its budget, and its counter counts them
\* (postgres.rs:208-226).
BudgetHolds ==
    \A q \in Queries : outcome[q] = "within" =>
        LET r == held[q]
            through == {p \in Queries : outcome[p] = "within" /\ held[p] = r}
        IN  /\ Cardinality(through) <= r.body.limit_count
            /\ r \in rows => counters[r.id] = Cardinality(through)

\* A charge and its rule live and die together, although a query holds its
\* rule while the list is replaced: no counter outlives its rule, and a query
\* fails on its budget only when its rule was stored once and is no more
\* (postgres.rs:213-225).
ChargesFollowRules ==
    /\ \A id \in DOMAIN counters : \E r \in rows : r.table = "rules" /\ r.id = id
    /\ \A q \in Queries : outcome[q] = "error" =>
          /\ held[q] \notin rows
          /\ \E v \in DOMAIN log :
                log[v][held[q].account] # None /\ held[q] \in log[v][held[q].account].rules

\* "Replace the account's rule list." (controlplane/mod.rs:52): the rules an
\* account has are those of one request.
OneListInForce == \A r, s \in rows : r.table = "rules" /\ s.table = "rules"
                      /\ r.account = s.account => r.op = s.op
=============================================================================
