# brdns in TLA+

Models of the brdns filtering DNS server, checked with TLC, and theorems about
them proved with TLAPS. Paths below are relative to `src/`.

    tlc -config QueryPath_quota.cfg MCQueryPath.tla     # one run
    tlapm QueryPathProofs.tla                           # one module's proofs

## The system

A client asks over DoT or DoH. The receiver takes the account from the TLS host
name and gives the raw message to the query pipeline, which decides by the
account's rules: deny (a synthesized answer), limit (a charge on a quota, then
forward or deny), or forward to the account's upstream. Rules and upstreams are
edited through a management API and kept by a control plane, in memory or in
Postgres. A background task copies them to a cache every few seconds, and now
and then downloads the blocklists behind the category rules.

| Component | State | Operations | Interacts by | What is hard | What makes it correct |
|---|---|---|---|---|---|
| Rule engine `lib/ruleengine.rs` | none | `evaluate`, `matches_target` | called per query; a callback into the category index per category rule | the index moves during a walk; two matchers written differently | the first matching rule decides; the matchers agree |
| Category index `lib/categories.rs` | domain to categories, under an RwLock | `contains`, `replace`, `len` | read by queries, replaced by ingestion | replaced between two reads | each read sees one index |
| Query pipeline `lib/pipeline.rs` | per query: cached policy, decision | `handle_query` | cache, control plane (await), transport (await) | the policy changes while a query awaits | decided and routed by one version; nothing limited is forwarded uncharged |
| Policy cache `lib/policy.rs` | account to policy, under an RwLock | `refresh`, `get` | poll task writes, queries read | snapshot and swap are two steps | always one version of the control plane, in the end a current one |
| In-memory control plane `lib/controlplane/storage/inmem.rs` | accounts, rules, upstreams, counters, ids, under a mutex | `create_account`, `replace_*`, `record_quota`, `snapshot`, categories | API, pipeline, poll task | `replace_*` locks twice; time is read outside the lock | budgets hold; lists are replaced whole |
| Postgres control plane `lib/controlplane/storage/postgres.rs`, `migrations/` | the same as tables | the same, as SQL | the same, on a pool | READ COMMITTED, several statements per operation, cascades | all or nothing; budgets hold |
| Quota windows `lib/quota.rs` | none | `window_start` | `record_quota` | boundaries of windows | a charge falls in its window |
| Blocklist ingestion `lib/blocklist.rs` | merged index, feeds under way | `load`, `ingest`, parsing | HTTP, control plane, index | feeds fail or finish in any order; a crash before, during and after the commit | the union of the feeds; stored before it is served; it ends |
| Start-up and poll task `bin/s.rs` | freshness, timers | boot sequence, loop | everything above | partial failures at start-up | a restart keeps the data |
| Management API `lib/controlplane/http/` | token | routes | control plane | concurrent requests, lost connections, restarts | what is answered is what was stored; what is refused stores nothing |
| Admin CLI `bin/admin.rs` | none | API calls; `rules add` is read-modify-write | API | two operators at once | no rule is lost or altered, but in that race; the exit status is true |
| Upstream pool `lib/upstream.rs` | transports by (protocol, host, port, addr) | `get` | pipeline | shared between accounts; one pool per receiver, one gauge | one transport per resolver, and each query on the right one |
| Transports `lib/transport/` | none | `send_recv` | resolvers | no timeouts; framing | an answer or an error |
| Receivers `lib/receiver/` | a connection | loop of a DoT connection; a DoH request | client, identity, pipeline | pipelined queries, partial reads, broken streams; escaped and chunked DoH messages | queries as sent, answers whole and in order |
| Wire protocol `lib/buffer.rs`, `lib/protocol/` | a buffer and position | read and write packets | pipeline, blocking | compressed names, bounds | reading what was written gives it back |
| Block answers `lib/blocking.rs` | none | `synthesize` | parses the query, writes the answer | both passes through the codec | the answer fits the query and the policy |
| Query tool `bin/g.rs` | none | one query, one answer | transports, wire protocol | names as typed | - |
| Identity `lib/identity.rs` | none | `account_from_sni` | receivers | dots, extra labels, names like the domain | nobody acts for an account without dialing its name |
| Certificates, configuration, observability | files, counters | start-up I/O, counters | - | - | - |

## Modules

| Module | Models | State and actions |
|---|---|---|
| `DomainNames` | both matchers | operators on names as sequences of labels; "" is an empty label (a leading, doubled or trailing dot) and case is a function `Lower` |
| `Rules` | `Decision`, `evaluate` | operators; a rule's target is left to a parameter |
| `QuotaWindows` | `window_start` | operators on Unix timestamps, with the Gregorian calendar that chrono gives it |
| `RuleEngine` | one evaluation against a moving index | `rules`, `qname`, `pos` are the loop of `evaluate`, `index` the category index; `Turn` is one iteration, which is where the lock is taken, and `ReplaceIndex` may come between any two |
| `QueryPath` | in-memory control plane, cache, poll task and pipeline together | `accounts`, `next_rule_id`, `quota` are `Inner`; `cache` the `PolicyCache`; `edit` a request between its two critical sections; `pc`, `cached`, `decision`, `slot`, `via`, `outcome` a query between its awaits. One action is what runs between two awaits or locks |
| `PolicyService` | what the parts in `QueryPath` promise together | `history` is every version of the policies, `served` the one in use, `answers` what became of each query; an edit, a refresh, a decision and its forwarding are one step each |
| `AdminApi` | `controlplane/http` over the in-memory store, and the commands of `bin/admin.rs` | `wire` is the request of each client, `command` and `exit` its run of the tool, `accounts` and the id counters the store; `Serve` is a request, cut in two where the store locks twice; `Restart` loses the store, other actions lose a request or a reply |
| `Receivers` | `account_for`, `identity`, the DoH exchange, `UpstreamPool` | per query `call`, `account`, `query`, `upstream`, `transport`, `status` from the TLS name to the response; `pool`, `built`, `gauge` are the pools |
| `FeedParsing` | `parse_domains`, its three formats, `sanitize` | operators on lines as sequences of labels and marks |
| `Blocklist` | `load`, `ingest`, the boot sequence and the loop around them, the category tables | `index` is what is served, `domains` and `domain_categories` the tables, `merged` and `phase` the task, `fetched` and `given` what the feeds answered and meant; `Crash` keeps only the tables |
| `PgControlPlane` | `replace_rules`, `replace_upstreams`, `record_quota`, `snapshot` on Postgres | `rows`, `counters` are the committed tables, `tx` the open transactions; one action per statement, two for DELETE, which picks its rows before it waits for their locks |
| `WireFormat` | the operators of `BytePacketBuffer`, `lib/protocol/` and the query of `bin/g.rs` | a text is its bytes; a packet is a record; the header's flag bits stay in their two bytes |
| `PacketReader` | `DnsPacket::from_buffer` and `synthesize` | `buf`, `pos` are the `BytePacketBuffer`, `walk` the locals of `read_qname`, `record` those of `DnsRecord::read`, `packet` what is read so far; one action per iteration of a loop. The server parses and blocks, then `side` is the client that reads the answer. `Laid`, which models no code, is what a message means by RFC 1035 |
| `DotConnection` | `process_new` and the framing of `DotTransport` | `up`, `down` are the two byte streams, `buf` what `read_exact` has; `Receive` takes one byte |
| `MC*` | the instances TLC checks; `MCQueryPath` also assumes, and TLC evaluates, that `window_start` agrees with a calendar made of tables | |
| `RuleEngineProofs`, `QueryPathProofs`, `AdminApiProofs`, `BlocklistProofs`, `PgControlPlaneProofs`, `ReceiversProofs`, `PacketReaderProofs`, `DotConnectionProofs` | theorems | |

`RuleEngine` and `QueryPath` share `Rules`: the first has real targets and a
moving index, the second takes "the rule covers the name" as given and has the
rest of the system move. The pipeline on Postgres is `PgControlPlane`'s
`Decide` and `RecordQuota`: the in-memory model has the rest of a query's path,
which does not depend on the store.

A query's whole way is `DotConnection` or the DoH half of `Receivers` (its
bytes), `Receivers` (whose it is), `PacketReader` (what it asks), `QueryPath` with
`RuleEngine` (what is decided, and at what charge), `Receivers` again (what it is
sent on) and `PacketReader` or `DotConnection` (the answer). Each of them leaves
to the others what its properties do not depend on: an outcome of the pipeline is
free in `Receivers`, and a transport is an upstream in `QueryPath`.

Variables marked "history" in the modules record the past for properties and
are read by no guard, except where a comment names a bound.

## Runs

| Run | Bounds | Shows |
|---|---|---|
| `rule_walk` | names and targets up to 3 labels over a, A, b, *, empty; lists of up to 3 rules; 2 indexes | matchers agree with a reference and with each other; every decision can be explained. Three labels are enough for a label on each side of a boundary; three rules for a skipped, a passed and a deciding one |
| `query_quota` | 3 queries, 1 editor, 2 readings of the clock in one day and two of its hours, 4 versions | budgets of 1 per hour and 2 per day under races, the end of a window and replaced rules: never exceeded, and nobody is refused before they are used up. Three queries exceed either budget; `WindowsAreCalendar` has the other windows, at the hour and second boundaries of 1600 days with two leap days |
| `query_edits` | 1 query, 2 editors, 4 versions, under `FairSpec` | the refinement of `PolicyService` (`KeepsPromises`), no forwarding without a charge, whole lists, and that stored changes reach the cache. Two editors overlap their critical sections; the versions allow an account, two lists and an upstream |
| `admin_api` | 3 commands at once out of 18, 2 valid numbers and 1 invalid one, 1 restart, with and without a token, under `FairSpec` | `rules add` appends to what it read and keeps its rule but in the race of `admin.rs:207`; ids; exits; that commands end. Two commands meet on one list, the third is anything else |
| `doh_exchange` | 2 queries out of 40 requests, 1 refresh, 4 upstreams that differ in one field at a time | whose query it is, which message the pipeline gets and where it goes. The requests escape every subset of the characters of a text, put other parameters around it, cut escapes short, leave the parameter empty, and dial every kind of wrong name |
| `fallback_refuses` | the same, without a fallback account | violated: see Findings |
| `blocklist_life` | 3 feeds, one per format with 2 bodies each, 3 domains, 2 categories, clock 0..2, refresh interval 1, under `FairSpec` | what is listed is merged, what is merged is stored, what is stored is served; ingestions end. The feeds overlap in a domain; the bodies have each decoration a parser looks for, and lines it must refuse |
| `blocklist_skip` | the same | violated: see Findings |
| `pg_edits` | 2 requests in flight, 3 in all, 2 queries, 4 versions | all or nothing, halves of a snapshot, budgets and charges beside cascading deletes. The third request finds rows to delete while the other two overlap |
| `pg_merged_lists` | 2 requests | violated: see Findings |
| `packet_block` | 8 well-formed messages, every proper prefix of the largest, all names of up to 3 pieces out of 11, 5 more broken messages; 4 policies | what is understood, that the answer fits, and where and when the reading of names ends. The well-formed messages use every record type and section, pointers to and into names, in hosts and owners, and a chain of as many jumps as are allowed; one of them is understood and cannot be answered, because its label grows beyond 63 bytes when it is read; the pieces make loops, pointers out of the message and labels that overlap |
| `dot_connection` | bytes of one bit (lengths 0..3), 3 queries, under `FairSpec` | order and integrity of queries and answers, and that none waits for ever |

Deadlock is checked except where a system may stop: a closed connection in
`DotConnection`, a message that was read, refused or cannot be answered in `PacketReader`, and where the module's bounds end all work.

### Fairness

- `QueryPath`: weak fairness of the poll task's two steps (the loop has no exit,
  `bin/s.rs:108`). None for queries, for upstreams, which have no timeout, nor for
  editors.
- `Blocklist`: weak fairness of a fetch ending one way or the other, which the
  client's timeout gives (`lib/blocklist.rs:117-122`), and of the task's steps.
- `AdminApi`: weak fairness of serving a request and of reading its reply, per
  client: axum polls a handler that can run, and a client waits for its answer or
  for the end of the connection. None for commands, losses or restarts.
- `DotConnection`: weak fairness of delivery and of the connection's task. None
  of `handle_query`: `EveryQueryIsAnswered` has its return as a premise.

## Findings

Three runs that TLC refutes; the property quotes the text it takes from the code.

- `SkippedMeansUnchanged` (`lib/blocklist.rs:152`): a refresh with the same number
  of domains is taken for the same domains.
- `OneListInForce` (`lib/controlplane/storage/postgres.rs:250`): overlapping
  replacements of an account's rules merge.
- `EmptyFallbackRefuses` (`lib/receiver/doh.rs:92`, against `example.brdns.toml:6`):
  with an empty fallback account a client that names no account is not refused,
  but forwarded like one without rules.

Where the repository contradicts itself no run takes a side: the comment of
`account_from_sni` (`lib/identity.rs:9-10`) says that a host name with a trailing
dot gives `None`, and so the fallback account, while the code strips the dot
(`lib/identity.rs:12`) and its test `handles_trailing_dot` expects the account.
`AccountIsDialed` admits either account for such a name, and no other.

More observations have no run, because no text of the repository says otherwise,
or because a property already has them as its exception.

- Rules. One list with two category rules can be judged by two indexes, because
  `evaluate` takes the index's lock once per category rule: the decision is then
  one that neither index gives, and `DecisionExplained` says what does hold. An
  account that stores its list again starts with fresh budgets, because counters
  go by rule id and ids are new (`inmem.rs:137`). `controlplane/mod.rs:30`
  speaks of enabled rules, while disabled ones are returned as well.
- Postgres. A snapshot may pair rules of one version with the upstream of another
  (`postgres.rs:441`); `HalvesWereStored` says what does hold. A limit rule that
  was replaced since the last refresh makes `record_quota` fail instead of
  answering (`postgres.rs:208`); `ChargesFollowRules` says that it fails for no
  other reason. A limit rule without a window is accepted in memory and refused
  with status 500 on Postgres.
- Blocklist. A load that fails, followed by a freshness check that succeeds, leaves
  the index empty until the next refresh (`bin/s.rs:60`, `blocklist.rs:101`). Words
  of an inline comment in a hosts file are read as hosts (`blocklist.rs:207`). A
  name with an empty label is kept, and nothing ever matches it.
- Management. `PUT` makes an account of a number that `POST /accounts` would refuse
  (`http/rules.rs:42`). A generated account number may be that of another account,
  which is then returned (`http/accounts.rs:18`).
- Receivers. A POST that arrives in two chunks is read as its first chunk
  (`receiver/doh.rs:214`), though "POST carries the raw message in the body"
  (`receiver/doh.rs:198`). In host names letter case is compared, unlike in rules. Both receivers set the one gauge of
  pooled transports (`upstream.rs:47`), which shows the size of the pool used last.
  Without `in_mem` both write their certificates to the same two files
  (`certs.rs:77-82`).
- Wire. `write_qname` (`buffer.rs:163`) splits names at dots, so the root, a
  trailing dot (as in `g -d example.com.`) or a label that holds a dot is written with
  a zero byte where its empty label is, which ends the name early and shifts the
  fields behind it; `AnswerFits` has names without empty labels as its premise. A label
  of invalid UTF-8 grows threefold when it is read (`buffer.rs:125`), and may then be too
  long for the answer (`buffer.rs:165`): the client gets none.

## Theorems

All are proved for every value of the constants, from the assumptions the
modules name: `Seq`-typed inputs, `None` distinct from the values it stands
beside, finite sets of queries where they are counted.

- `RuleEngineProofs`: `TypeCorrect`, and `Explained` (`[]DecisionExplained`).
  `DecisionExplained` speaks of the end of a walk, so it is not inductive:
  `IInv` adds that in the middle of a walk every position passed was disabled or
  missed under an index seen so far, and that the index in force is among them.
  From it follows `WalkIsEvaluate`: a walk that saw one index decides as `evaluate` does
  in one piece, which is how `QueryPath` takes it. `FirstMatch` (`[]FirstMatchWins`)
  adds what the matchers are: `DomainRuleCovers` and `WildcardRuleCovers` show, for any
  name and any target, that `MatchesDomain` and `MatchesWildcard` agree with the
  reference, which knows neither trimming nor suffixes. They go by `Keeps`, how many of
  its labels `normalize` leaves of a name. `CategoryRuleCovers` shows the same of the
  category index, assuming of what it lists what `sanitize` leaves (`Listed`: lower
  case, no dot at the end, no star). `NonEmptyLabels` takes each label by its place
  (`LabelsUpTo` counts them) for that reason: the provers cannot look into a filter.
  All go through `BelowEnds`: being at or below a name is ending with what is kept of
  it. `MatchersAgree` (`[]CategoryAgreesWithWildcard`) then compares the two.
- `QueryPathProofs`, in the order of the proof:
  - `TypeIInv`, types with what they need to be inductive: the account of a
    request in flight exists (`JustCreated`), counters have non-negative counts.
  - `WindowsCutTime`, about `window_start` alone: an hour, day or week window is
    the instants from its start to one length later, so two charges share a counter
    exactly if they fall in one window. Months have no one length and are left to
    `WindowsAreCalendar`. The invariants below use only that starts are integers.
  - `Versions`: the cache and the snapshot under way are entries of the history
    (`CacheIsOneVersion`).
  - `Queued`: what a query holds at each stop is what the version it arrived at
    gives (`ServedByOneVersion`, `ForwardingIsEarned`).
  - `Ids`: all rules ever issued, stored, cached or held have ids below the next
    one, and equal ids are equal rules (`IdsAreNeverReused`).
  - `WholeTheorem` (`[]ReplacedWhole`) rests on `Versions`: the last entry of the
    history is the store as it is, so what a critical section appends is, per account,
    the list that was there, none, or one request's list, whose first id says where it
    was numbered from.
  - `Slots`, `QuotaAccounting`, `WithinBudget`: a query's counter is that of its
    decision; counters equal the charges made on them; none exceeds the limit of
    the rule with its id. The last is not about forwarded queries at all, and
    with `Ids` it gives `BudgetHolds`: without it a counter could serve two
    rules with two limits.
  - `RefusedTheorem` (`[]RefusedWhenSpent`), the other half of a budget: `Spent` adds
    that the counter a refused query met was full of charges, which are never taken
    back.
  - `Implements`: `QueryPath` implements `PolicyService`. The mapping is
    history |-> `log`, served |-> `cache_at`, and a query's answer is `None` until it
    arrives, then what it was decided by and where it goes. Its step lemmas go by
    action: a critical section of the store appends the version that differs in one
    account or stutters, `TakeSnapshot` stutters and `Install` moves `served` forward;
    a query is decided when it arrives, what it holds through its awaits is that
    decision, and `Send` is the service's forwarding of it (`CacheIsOneVersion` and
    `ServedByOneVersion` are what this needs; they remain theorems).
- `AdminApiProofs`: the five safety properties of `AdminApi`, for any number of
  clients and any set of commands that the tool's arguments can spell. The inductive
  invariant has three parts:
  - `Stored`, of the store alone: types, rules below the id counter and under their
    owner's id, and the last version of each list is the one that is stored. With it
    ids are distinct (`IdsAreDistinct`).
  - `Clientele`, of each client: what is known of its request at each stage, up to
    what the reply it holds says of a version of the list. A client that was answered
    with success has its list among the versions (`ExitsAreTrue`), and the list that
    `rules add` stores is an older version with one rule more
    (`AddsExtendWhatTheyRead`). Both speak of versions, which only grow, so what
    other clients do leaves them true.
  - `AdditionsStay`: a later version of the list has the added rule, unless a version
    between them was a restart's, a replacement's, or that of another `rules add` that
    had read an older list. The last is the race of `admin.rs:207`, which can do no more
    than this (`AddedRulesStay`).
- `BlocklistProofs`: `MergedTheorem` (`[]MergedIsUnion`) by induction on the
  order in which the feeds arrive, and `StoredTheorem` (`StoredBeforeServed`, an
  action property) from an invariant that a task about to install has committed;
  with it `ServedTheorem` (`ServedIsStored`), which needs that nothing but an
  ingestion writes the tables, so that what was loaded or installed stays what they
  hold.
- `PacketReaderProofs`: the four invariants of the parser, for any message a client may
  send and any policy. `IInv` is what they share: the types of what has been read and of
  the query that is being answered, and a bound for both sides.
  - `BoundedWalks` (`[]WalkIsBounded`). The bound on turns is not inductive, since
    pointers go back and labels are read again. `TurnsAreShared` charges each leg between
    two jumps to the bytes it leaves behind: the legs before have used at most a
    message's length each, and this one no more turns than the position it is at. With
    at most six jumps the bound follows. The client's side needs that an answer is made
    of bytes, which the types of the query that was read give (`Reads`, `Asked`).
  - `UnderstoodQueries` (`[]QueryIsUnderstood`). What a message means is an assumption
    about its sender: a query that means something comes with a `plan` of where its
    entries, names and strings are, and `Laid` says, place by place, what RFC 1035 asks
    of the bytes there. There is no loop in it, and nothing of the reader's state but
    two limits: a name has at most five pointers (`buffer.rs:95`), and a code beyond
    REFUSED, which `ResultCode::from_num` reads as NOERROR, is not meant.
    `InStep` is the inductive invariant, stage by stage of `from_buffer`: what is read so
    far is a beginning of what was meant, the next entry is the one that is `Due`, and in
    the middle of a name the text read so far and the text the plan has for the place
    the walk is at are, put together, the text of the name.
  - `FittingAnswers` (`[]AnswerFits`). An answer is written with plain names, without
    pointers, so a plan of it can be given: `AnswerLaid` shows that what `Write` puts
    down is `Laid` out by it, with the answer as its meaning. From there the client's
    reading is the theorem before. The lemmas about the writer (`FlattenSeq`, the
    text of a name, header, questions, records, and that a name which was read once is
    in lower case and does not change when it is read again) come first in the module.
  - `FieldsInPlace` (`[]FieldsFollowName`). `EndInPlace` is a recursive function; that
    one exists with those values is shown by well-founded recursion, from the end
    of the message backwards. The invariant `Follows` says that a name that has not
    jumped ends in place where the byte it is at does, and that one that has jumped
    left the position there.
- `ReceiversProofs`: `SentWhereChosen` and `PoolReuses`, from an invariant that ties
  the pools to the history of what was built: a pool's entry is a transport built for
  its key and receiver, every transport built is the entry of its key, and it reaches
  what any upstream with that key asks for. The last part is what lets accounts share.
  `DialedTheorem` (`[]AccountIsDialed`) is about names: `FoundIsDialed` shows that the
  checks of `account_from_sni` come to "one label, a dot, the domain" for any name and
  domain, however many dots stand around them. Its premise is that there is a domain:
  with an empty one `account_from_sni` finds nobody.
  `SentAsMeant` (`[]QueryAsSent`) is about what the pipeline is given: a loop over the
  query's pairs and bytes stands between it and the client. `PercentDecodes` is an
  induction over the text from its end, the recursion of `percent_decode` being shown
  to be well defined by well-founded recursion. `CallsAreMeant` says what the client
  sends: text in which a plain character stands for itself and an escape for its byte.
- `PgControlPlaneProofs`: `StoredWhole`, `ServedWasStored`, `BudgetKept` and
  `ChargesKeptWithRules`, which are the four invariants of the run on Postgres. The
  inductive invariant has five parts, each of which needs those before it:
  - `Types`.
  - `Groups`: an open request has a number no other request and no stored row
    has, and what its DELETE has picked is closed under "written by the same request"
    in the tables as they are, although other requests have committed since. A commit
    therefore removes and adds whole lists. This is what `AllOrNothing` needs.
  - `Logged`: the rules a snapshot has read are those of one version of the history,
    and its upstreams those of that version or a later one (`HalvesWereStored`).
  - `Ids`: ids of rules that were ever in force, or that an open request is about to
    store, are of one rule each and below the sequence.
  - `Charges`: a counter counts what its rule let through. A commit deletes a counter
    with its rule and, by `Ids`, no other; so a new rule starts without charges and a
    stored one keeps its own (`BudgetHolds`, `ChargesFollowRules`).
- `DotConnectionProofs`: `QueriesInOrder` and `AnswersInOrder`, for any bytes and any
  interleaving of the two ends. Their premise is that each message fits its two-byte
  prefix, which nothing in the code enforces. What a direction holds is stated
  without recursion: there are a stream and cut points into which the messages are
  framed, and the reader's place is before, in or behind a prefix (`Delivers`). Both
  directions then are instances of one invariant. For queries, what a closed
  connection drops are bytes `lost` at the end of the stream; for answers, what
  `process_new` has not written yet is `Unwritten`. There is one lemma per event: a
  message is sent, a byte is read, a prefix is complete, a body is complete.

Only model-checked:

- liveness under fairness, which TLAPS cannot prove: `EditsTakeEffect`,
  `CommandsEnd`, `IngestionEnds` and `EveryQueryIsAnswered`;
- what a filter or a sum over data computes: the calendar of months, and what the
  parsers find in a body, which is most of `ListedIsMerged` (how bodies are merged is
  `MergedTheorem`);
- that queries as a sender would write them have a plan: `packet_block` computes one for
  each of its well-formed messages and evaluates `ReaderAssumption`.

Every other safety property of a run that passes is stated by a theorem.

## Not modelled

- Names in `QueryPath` are covered by a rule or not; `RuleEngine` has the text.
- Text beyond ASCII in names, other than the replacement character that invalid
  bytes become: `LossyLower` takes any other for invalid bytes, so what is said of
  messages is said of those whose labels are ASCII, U+FFFD or no text. TXT data is kept as the characters' code points; it is not written.
- On Postgres, account creation, the reads of lists and the seeding of presets:
  single statements that the modelled operations do not depend on. The window half
  of the counters' key is left out there; `QueryPath` has it.
- Of the HTTP sides, what libraries do: TLS, HTTP framing, JSON. Base64 is a table.
- Certificates and configuration: files read or written once at start-up. What the
  handshake captures, the SNI, is an input of `Receivers`.
- Of observability, all but the outcome of a query and the gauge of pooled
  transports: counters that nothing reads back.
- What resolvers answer, and when: an outcome in `QueryPath` and `Receivers`.
- An answer is not longer than a prefix can say in `dot_connection`. Only
  `DohTransport`, which returns an HTTP body of any length, could return one.

## Plan

1. Done: `Rules`, `QuotaWindows`, `RuleEngine`, `QueryPath`, `PolicyService` and
   their theorems with the refinement; `FeedParsing`, `Blocklist` and their theorems;
   `AdminApi`, `Receivers`, `PgControlPlane`, `DotConnection` and their theorems;
   `WireFormat`, `PacketReader` and their theorems.
2. Left to prove: that each parser reads a body as it is meant, for any number of
   lines, from which `ListedIsMerged` would follow with `MergedTheorem`; the rest of
   "Only model-checked" is out of TLAPS's reach.
