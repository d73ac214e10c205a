------------------------------ MODULE Blocklist ------------------------------
(***************************************************************************)
(* Blocklist ingestion over the life of the server: blocklist.rs (load and *)
(* ingest), the start-up and the poll task of bin/s.rs that call them, and *)
(* the Postgres tables that outlive the process.                           *)
(*                                                                         *)
(* A feed's body may be another one whenever it is fetched.                *)
(* The server ingests once before it opens its listeners, unless the       *)
(* tables are fresh, and then whenever the poll task finds a refresh due.  *)
(* One server writes the tables.  A transaction is one step: nobody else   *)
(* looks at the tables while it runs.                                      *)
(***************************************************************************)
EXTENDS FeedParsing, FiniteSetsExt

CONSTANTS
    Feeds,           \* the configured feeds, all fetched in every ingestion
    FeedFormats,     \* the format the configuration gives each feed
    Bodies,          \* what a feed may hold, and how its author means it
    Categories,
    FeedCategories,  \* the categories each feed assigns to its domains
    Interval,        \* refresh_interval_secs, at least 1, in clock ticks
    MaxClock         \* bound: clock ticks

\* A body in one format: its lines, the domains it lists for blocking, and
\* those that its comments mention.
BodiesOf(f) == {b \in Bodies : b.format = FormatOf(FeedFormats[f])}
Found(f, body) == parse_domains(FormatOf(FeedFormats[f]), body.lines)
Domains == UNION {UNION {Found(f, b) : b \in BodiesOf(f)} : f \in Feeds}

ASSUME BlocklistAssumption ==
    /\ \A b \in Bodies : b.format \in Formats
    /\ None \notin Bodies
    /\ FeedCategories \in [Feeds -> SUBSET Categories]
    /\ Interval \in Nat \ {0} /\ MaxClock \in Nat
    /\ \A found \in SUBSET Domains : None # found

VARIABLES
    clock,
    domains,         \* table domains: domain |-> updated_at
    domain_categories, \* table domain_categories: {<<domain, category>>}
    phase,           \* what the server's start-up, or its poll task, does next
    index,           \* CategoryIndex.map: domain |-> categories
    pending,         \* ingest: the feeds whose fetch has not ended
    merged,          \* ingest: the map being built
    last_blocklist,  \* when the poll task last ingested, or started
    fetched,         \* history: what this ingestion found in each feed
    given            \* history: the bodies it found that in

history == <<fetched, given>>
tables == <<domains, domain_categories>>
vars == <<clock, tables, phase, index, pending, merged, last_blocklist, history>>

EmptyMap == [d \in {} |-> {}]
NoBodies == [f \in Feeds |-> None]

\* CategoryIndex::len counts domains, whatever their categories.
Size(map) == Cardinality(DOMAIN map)

-----------------------------------------------------------------------------
(* PostgresControlPlane.                                                   *)

Rows(map) == UNION {{<<d, c>> : c \in map[d]} : d \in DOMAIN map}

\* Mutant: a domain's last row wins.
LastCategoryOf(rows) ==
    [d \in {row[1] : row \in rows} |-> {(CHOOSE row \in rows : row[1] = d)[2]}]

\* categories(): a domain without categories has no row and is not returned.
CategoriesOf(rows) ==
    [d \in {row[1] : row \in rows} |-> {row[2] : row \in {r \in rows : r[1] = d}}]

\* MAX(updated_at) over no rows is NULL, which does not decode as an i64: on
\* an empty table last_ingestion fails, and start-up treats it as not fresh.
Fresh == domains # EmptyMap /\ clock - Max({domains[d] : d \in DOMAIN domains}) < Interval

-----------------------------------------------------------------------------
Init ==
    /\ clock = 0
    /\ domains = EmptyMap /\ domain_categories = {}
    /\ phase = "down"
    /\ index = EmptyMap
    /\ pending = {} /\ merged = EmptyMap /\ fetched = NoBodies /\ given = NoBodies
    /\ last_blocklist = 0

Tick ==
    /\ clock < MaxClock
    /\ clock' = clock + 1
    /\ UNCHANGED <<tables, phase, index, pending, merged, last_blocklist, history>>

Boot ==
    /\ phase = "down"
    /\ phase' = "load"
    /\ UNCHANGED <<clock, tables, index, pending, merged, last_blocklist, history>>

\* The process dies; the tables stay.
Crash ==
    /\ phase # "down"
    /\ phase' = "down"
    /\ index' = EmptyMap
    /\ pending' = {} /\ merged' = EmptyMap /\ fetched' = NoBodies /\ given' = NoBodies
    /\ UNCHANGED <<clock, tables, last_blocklist>>

\* load, which start-up carries on without if the control plane fails.
Load ==
    /\ phase = "load"
    /\ index' = CategoriesOf(domain_categories)
    /\ phase' = "check"
    /\ UNCHANGED <<clock, tables, pending, merged, last_blocklist, history>>

LoadFails ==
    /\ phase = "load"
    /\ phase' = "check"
    /\ UNCHANGED <<clock, tables, index, pending, merged, last_blocklist, history>>

-----------------------------------------------------------------------------
(* The poll task sleeps, or start-up goes on to start it; ingest begins.   *)

Sleep ==
    /\ phase' = "polling"
    /\ last_blocklist' = clock
    /\ pending' = {} /\ merged' = EmptyMap /\ fetched' = NoBodies /\ given' = NoBodies

Ingest ==
    /\ phase' = "fetch"
    /\ pending' = Feeds /\ merged' = EmptyMap /\ fetched' = NoBodies /\ given' = NoBodies
    /\ UNCHANGED last_blocklist

\* Start-up ingests unless the tables are fresh.
CheckFresh ==
    /\ phase = "check"
    /\ IF Fresh THEN Sleep ELSE Ingest
    /\ UNCHANGED <<clock, tables, index>>

\* last_ingestion fails.
CheckFails ==
    /\ phase = "check"
    /\ Ingest
    /\ UNCHANGED <<clock, tables, index>>

Poll ==
    /\ phase = "polling"
    /\ clock - last_blocklist >= Interval
    /\ Ingest
    /\ UNCHANGED <<clock, tables, index>>

-----------------------------------------------------------------------------
(* ingest.                                                                 *)

At(map, d) == IF d \in DOMAIN map THEN map[d] ELSE {}

\* Mutant: a feed's categories replace those of the feeds before it.
Overwritten(map, found, categories) ==
    [d \in DOMAIN map \cup found |-> IF d \in found THEN categories ELSE map[d]]

\* merged.entry(domain).or_default().extend(categories)
Extended(map, found, categories) ==
    [d \in DOMAIN map \cup found |->
        At(map, d) \cup (IF d \in found THEN categories ELSE {})]

\* join_next hands over a feed's domains; the feeds end in any order.
Fetched(f, body) ==
    /\ phase = "fetch" /\ f \in pending
    /\ pending' = pending \ {f}
    /\ merged' = Extended(merged, Found(f, body), FeedCategories[f])
    /\ fetched' = [fetched EXCEPT ![f] = Found(f, body)]
    /\ given' = [given EXCEPT ![f] = body]
    /\ UNCHANGED <<clock, tables, phase, index, last_blocklist>>

\* Mutant: a fetch has no timeout and may last for ever.
NeverFails(f) == FALSE

\* The request fails, at the latest after the client's timeout, or its task
\* does: a warning is logged and the feed is left out.
FetchFails(f) ==
    /\ phase = "fetch" /\ f \in pending
    /\ pending' = pending \ {f}
    /\ UNCHANGED <<clock, tables, phase, index, merged, last_blocklist, history>>

\* n == index.len()
Unchanged(map, old) == Size(map) = Size(old)

\* Mutant: the index is replaced before the tables are.
CompareAndInstall ==
    /\ phase = "fetch" /\ pending = {}
    /\ IF Unchanged(merged, index)
       THEN Sleep /\ UNCHANGED index
       ELSE /\ phase' = "store"
            /\ index' = merged
            /\ UNCHANGED <<pending, merged, last_blocklist, history>>
    /\ UNCHANGED <<clock, tables>>

\* Every feed has ended.
Compare ==
    /\ phase = "fetch" /\ pending = {}
    /\ IF Unchanged(merged, index)
       THEN Sleep
       ELSE /\ phase' = "store"
            /\ UNCHANGED <<pending, merged, last_blocklist, history>>
    /\ UNCHANGED <<clock, tables, index>>

\* replace_categories commits, or fails and rolls back.
Commit ==
    /\ phase = "store"
    /\ domains' = [d \in DOMAIN merged |-> clock]  \* updated_at is now()
    /\ domain_categories' = Rows(merged)
    /\ phase' = "install"
    /\ UNCHANGED <<clock, index, pending, merged, last_blocklist, history>>

StoreFails ==
    /\ phase = "store"
    /\ Sleep
    /\ UNCHANGED <<clock, tables, index>>

Install ==
    /\ phase = "install"
    /\ index' = merged
    /\ Sleep
    /\ UNCHANGED <<clock, tables>>

Next ==
    \/ Tick \/ Boot \/ Crash
    \/ Load \/ LoadFails
    \/ CheckFresh \/ CheckFails
    \/ Poll
    \/ \E f \in Feeds : (\E body \in BodiesOf(f) : Fetched(f, body)) \/ FetchFails(f)
    \/ Compare
    \/ Commit \/ StoreFails
    \/ Install

Spec == Init /\ [][Next]_vars

\* A process that is not killed goes on, the control plane answers, with
\* success or failure, and the HTTP client gives a fetch 90 seconds.  Nothing
\* is assumed of the feeds.
Fairness ==
    /\ WF_vars(Load \/ LoadFails)
    /\ WF_vars(CheckFresh \/ CheckFails)
    /\ \A f \in Feeds : WF_vars(FetchFails(f))
    /\ WF_vars(Compare)
    /\ WF_vars(Commit \/ StoreFails)
    /\ WF_vars(Install)

FairSpec == Spec /\ Fairness

-----------------------------------------------------------------------------
(* Properties.                                                             *)

\* What an ingestion should amount to: every domain of every feed that
\* answered, in the categories of all the feeds that list it.
UnionOf(bodies) ==
    LET answered == {f \in Feeds : bodies[f] # None}
    IN  [d \in UNION {bodies[f] : f \in answered} |->
            UNION {FeedCategories[f] : f \in {g \in answered : d \in bodies[g]}}]

\* Whatever order the feeds end in, and whichever fail, a domain that several
\* feeds list gets the categories of all of them (blocklist.rs:134-149).
MergedIsUnion == merged = UnionOf(fetched)

\* What the feeds mean is what is served: every domain a feed lists is merged
\* with that feed's categories, whatever its format and its decoration, and
\* nothing else is, but a domain that the comment of a hosts line mentions and
\* names with an empty label, which no query name matches
\* (blocklist.rs:188-258).
ListedIsMerged ==
    LET answered == {f \in Feeds : given[f] # None}
    IN  /\ \A f \in answered : \A d \in given[f].lists :
              d \in DOMAIN merged /\ FeedCategories[f] \subseteq merged[d]
        /\ \A d \in DOMAIN merged :
              \/ Empty \in Range(d)
              \/ \E f \in answered : d \in given[f].lists \cup given[f].mentions

\* The index never drifts from the tables: but between the commit and the
\* install it is empty, as a failed load leaves it, or holds exactly the rows
\* that a restart would load (blocklist.rs:106-109, 156-157, bin/s.rs:54-72).
ServedIsStored ==
    phase # "install" => index = EmptyMap \/ Rows(index) = domain_categories

\* Queries are never matched against an index that a restart would not bring
\* back: the tables are written first, and a failed write leaves the index as
\* it was (blocklist.rs:156-157).
StoredBeforeServed ==
    [][index' # index /\ phase' # "down" => Rows(index') = domain_categories']_vars

\* A feed that never answers keeps neither the server from starting nor the
\* poll task, which also refreshes the policies, from going on
\* (blocklist.rs:119-122, bin/s.rs:63, 122).
IngestionEnds == phase # "down" ~> phase \in {"polling", "down"}

\* "blocklist ingestion skipped: {n} domains unchanged" (blocklist.rs:153)
SkippedMeansUnchanged == [][phase = "fetch" /\ phase' = "polling" => merged = index]_vars
=============================================================================
