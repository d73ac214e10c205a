--------------------------- MODULE BlocklistProofs ---------------------------
(***************************************************************************)
(* Proofs about blocklist ingestion for any feeds, domains and categories. *)
(***************************************************************************)
EXTENDS Blocklist, TLAPS

-----------------------------------------------------------------------------
(* The operators.                                                          *)

\* Saving a map and reading it back loses nothing but empty entries: the rows
\* are the same.
LEMMA RowsOfCategories ==
    ASSUME NEW rows \in SUBSET (Domains \X Categories)
    PROVE  Rows(CategoriesOf(rows)) = rows
<1> DEFINE map == CategoriesOf(rows)
<1>1. \A row \in rows : row = <<row[1], row[2]>>
  OBVIOUS
<1>2. DOMAIN map = {row[1] : row \in rows}
  BY DEF CategoriesOf
<1>3. \A d \in DOMAIN map : map[d] = {row[2] : row \in {r \in rows : r[1] = d}}
  BY DEF CategoriesOf
<1> HIDE DEF map
<1>4. \A d, c : <<d, c>> \in rows <=> d \in DOMAIN map /\ c \in map[d]
  BY <1>1, <1>2, <1>3
<1>5. \A x : x \in Rows(map) <=> \E d \in DOMAIN map : \E c \in map[d] : x = <<d, c>>
  BY DEF Rows
<1>6. \A x : x \in Rows(map) <=> x \in rows
  BY <1>1, <1>4, <1>5
<1> QED  BY <1>6 DEF map

\* Merging one more feed's domains is what UnionOf does with one more answer.
LEMMA ExtendUnion ==
    ASSUME NEW bodies \in [Feeds -> {None} \cup SUBSET Domains],
           NEW f \in Feeds, bodies[f] = None, NEW found \in SUBSET Domains
    PROVE  Extended(UnionOf(bodies), found, FeedCategories[f])
             = UnionOf([bodies EXCEPT ![f] = found])
<1> DEFINE more == [bodies EXCEPT ![f] = found]
           answered(b) == {g \in Feeds : b[g] # None}
           listing(b, d) == {g \in answered(b) : d \in b[g]}
<1>1. found # None
  BY BlocklistAssumption
<1>2. answered(more) = answered(bodies) \cup {f} /\ f \notin answered(bodies)
  BY <1>1
<1>3. \A g \in answered(bodies) : more[g] = bodies[g]
  BY <1>2
<1>4. more[f] = found
  OBVIOUS
<1> HIDE DEF more
<1>5. \A d : listing(more, d) = listing(bodies, d) \cup (IF d \in found THEN {f} ELSE {})
  BY <1>2, <1>3, <1>4
<1>6. UNION {more[g] : g \in answered(more)}
        = (UNION {bodies[g] : g \in answered(bodies)}) \cup found
  BY <1>2, <1>3, <1>4
<1> DEFINE cats(b, d) == UNION {FeedCategories[g] : g \in listing(b, d)}
<1>7. \A d : cats(more, d) = cats(bodies, d) \cup (IF d \in found THEN FeedCategories[f] ELSE {})
  <2> HIDE DEF listing
  <2> QED  BY <1>5
<1>8. \A d : d \notin UNION {bodies[g] : g \in answered(bodies)} => cats(bodies, d) = {}
  OBVIOUS
<1>9. UnionOf(more) = [d \in UNION {more[g] : g \in answered(more)} |-> cats(more, d)]
  BY DEF UnionOf
<1>10. UnionOf(bodies) = [d \in UNION {bodies[g] : g \in answered(bodies)} |-> cats(bodies, d)]
  BY DEF UnionOf
<1> DEFINE D == UNION {bodies[g] : g \in answered(bodies)}
<1> HIDE DEF cats, answered, listing, D
<1>11. \A d \in D \cup found : At(UnionOf(bodies), d) = cats(bodies, d)
  BY <1>8, <1>10 DEF At, D
<1>12. UnionOf(more) = [d \in D \cup found |->
                          cats(bodies, d) \cup (IF d \in found THEN FeedCategories[f] ELSE {})]
  BY <1>6, <1>7, <1>9 DEF D
<1>13. Extended(UnionOf(bodies), found, FeedCategories[f])
         = [d \in D \cup found |->
              At(UnionOf(bodies), d) \cup (IF d \in found THEN FeedCategories[f] ELSE {})]
  BY <1>10 DEF Extended, D
<1> QED  BY <1>11, <1>12, <1>13 DEF more

-----------------------------------------------------------------------------
(* The inductive invariant: a feed that is still pending has not been      *)
(* merged, and between the commit and the install the tables hold what is  *)
(* about to be installed.                                                  *)

Ingestion ==
    /\ fetched \in [Feeds -> {None} \cup SUBSET Domains]
    /\ pending \subseteq Feeds
    /\ \A f \in pending : fetched[f] = None
    /\ merged = UnionOf(fetched)

Persisted ==
    /\ domain_categories \subseteq Domains \X Categories
    /\ phase = "install" => domain_categories = Rows(merged)

\* What a body yields is a set of domains.
LEMMA FoundDomains ==
    ASSUME NEW f \in Feeds, NEW body \in BodiesOf(f)
    PROVE  Found(f, body) \in SUBSET Domains
BY DEF Domains

\* Nothing has been fetched: the union is empty.
LEMMA NothingFetched == NoBodies \in [Feeds -> {None} \cup SUBSET Domains]
                          /\ UnionOf(NoBodies) = EmptyMap
BY DEF NoBodies, UnionOf, EmptyMap

LEMMA IngestionInductive == Spec => []Ingestion
<1>1. Init => Ingestion
  BY NothingFetched DEF Init, Ingestion
<1>2. Ingestion /\ [Next]_vars => Ingestion'
  <2> SUFFICES ASSUME Ingestion, [Next]_vars PROVE Ingestion'
    OBVIOUS
  <2> USE DEF Ingestion
  <2>1. CASE UNCHANGED <<pending, merged, fetched>>
    BY <2>1
  <2>2. CASE pending' = {} /\ merged' = EmptyMap /\ fetched' = NoBodies
    BY <2>2, NothingFetched
  <2>3. CASE Ingest
    BY <2>3, NothingFetched DEF Ingest, NoBodies
  <2>4. ASSUME NEW f \in Feeds, NEW body \in BodiesOf(f), Fetched(f, body)
        PROVE  Ingestion'
    <3> DEFINE found == Found(f, body)
    <3>0. found \in SUBSET Domains
      BY FoundDomains
    <3> HIDE DEF found
    <3>1. fetched[f] = None
      BY <2>4 DEF Fetched
    <3>2. merged' = Extended(UnionOf(fetched), found, FeedCategories[f])
      BY <2>4 DEF Fetched, found
    <3>3. merged' = UnionOf(fetched')
      BY <2>4, <3>0, <3>1, <3>2, ExtendUnion DEF Fetched, found
    <3>4. /\ fetched' = [fetched EXCEPT ![f] = found]
          /\ pending' = pending \ {f}
      BY <2>4 DEF Fetched, found
    <3> QED  BY <3>0, <3>3, <3>4
  <2>5. ASSUME NEW f \in Feeds, FetchFails(f)
        PROVE  Ingestion'
    BY <2>5 DEF FetchFails, history
  <2> QED
    BY <2>1, <2>2, <2>3, <2>4, <2>5
    DEF Next, vars, history, Tick, Boot, Crash, Load, LoadFails, Sleep, CheckFresh, CheckFails,
        Poll, Compare, Commit, StoreFails, Install
<1> QED  BY <1>1, <1>2, PTL DEF Spec

\* The merged map is the union of the answers, in whatever order they came.
THEOREM MergedTheorem == Spec => []MergedIsUnion
<1>1. Ingestion => MergedIsUnion
  BY DEF Ingestion, MergedIsUnion
<1> QED  BY <1>1, IngestionInductive, PTL

\* The rows of a merged map are pairs of a domain and a category.
LEMMA MergedRows ==
    ASSUME Ingestion
    PROVE  Rows(merged) \subseteq Domains \X Categories
<1>1. ASSUME NEW d \in DOMAIN merged
      PROVE  d \in Domains /\ merged[d] \subseteq Categories
  BY <1>1, BlocklistAssumption DEF Ingestion, UnionOf
<1> QED  BY <1>1 DEF Rows

LEMMA PersistedInductive == Spec => []Persisted
<1>1. Init => Persisted
  BY DEF Init, Persisted
<1>2. Ingestion /\ Persisted /\ [Next]_vars => Persisted'
  <2> SUFFICES ASSUME Ingestion, Persisted, [Next]_vars PROVE Persisted'
    OBVIOUS
  <2>1. CASE Commit
    BY <2>1, MergedRows DEF Commit, Persisted, Rows
  <2>2. CASE UNCHANGED domain_categories /\ (phase' # "install" \/ UNCHANGED <<phase, merged>>)
    BY <2>2 DEF Persisted, Rows
  <2>3. ASSUME NEW f \in Feeds, NEW body, Fetched(f, body)
        PROVE  UNCHANGED domain_categories /\ phase' # "install"
    BY <2>3 DEF Fetched, tables
  <2>4. ASSUME NEW f \in Feeds, FetchFails(f)
        PROVE  UNCHANGED domain_categories /\ phase' # "install"
    BY <2>4 DEF FetchFails, tables
  <2> QED
    BY <2>1, <2>2, <2>3, <2>4
    DEF Next, vars, tables, Tick, Boot, Crash, Load, LoadFails, Ingest, Sleep, CheckFresh,
        CheckFails, Poll, Compare, StoreFails, Install
<1> QED  BY <1>1, <1>2, IngestionInductive, PTL DEF Spec

\* What is served has been stored: each step that changes the index of a
\* running server leaves it with the rows the tables hold.
THEOREM StoredTheorem == Spec => StoredBeforeServed
<1>1. Persisted /\ [Next]_vars =>
        [index' # index /\ phase' # "down" => Rows(index') = domain_categories']_vars
  <2> SUFFICES ASSUME Persisted, Next, index' # index, phase' # "down"
               PROVE  Rows(index') = domain_categories'
    OBVIOUS
  <2>1. CASE Load
    BY <2>1, RowsOfCategories DEF Load, Persisted, tables
  <2>2. CASE Install
    BY <2>2 DEF Install, Persisted, tables
  <2>3. Load \/ Install
    BY DEF Next, Tick, Boot, Crash, LoadFails, CheckFresh, CheckFails, Poll, Fetched, FetchFails,
           Compare, Commit, StoreFails
  <2> QED  BY <2>1, <2>2, <2>3
<1> QED  BY <1>1, PersistedInductive, PTL DEF Spec, StoredBeforeServed

\* The index follows the tables: it is inductive once the tables are known to
\* hold what Install is about to serve.
THEOREM ServedTheorem == Spec => []ServedIsStored
<1>1. Init => ServedIsStored
  BY DEF Init, ServedIsStored
<1>2. Persisted /\ ServedIsStored /\ [Next]_vars => ServedIsStored'
  <2> SUFFICES ASSUME Persisted, ServedIsStored, [Next]_vars PROVE ServedIsStored'
    OBVIOUS
  <2>1. CASE Load
    BY <2>1, RowsOfCategories DEF Load, Persisted, ServedIsStored, tables
  <2>2. CASE Commit
    BY <2>2 DEF Commit, ServedIsStored
  <2>3. CASE Install
    BY <2>3 DEF Install, Persisted, ServedIsStored, tables
  <2>4. CASE Crash
    BY <2>4 DEF Crash, ServedIsStored
  <2>5. CASE phase # "install" /\ UNCHANGED <<index, domain_categories>>
    BY <2>5 DEF ServedIsStored, Rows
  <2>6. CASE UNCHANGED <<phase, index, domain_categories>>
    BY <2>6 DEF ServedIsStored, Rows
  <2>7. ASSUME NEW f \in Feeds, NEW body, Fetched(f, body) \/ FetchFails(f)
        PROVE  phase # "install" /\ UNCHANGED <<index, domain_categories>>
    BY <2>7 DEF Fetched, FetchFails, tables
  <2> QED
    BY <2>1, <2>2, <2>3, <2>4, <2>5, <2>6, <2>7
    DEF Next, vars, tables, Tick, Boot, LoadFails, CheckFresh, CheckFails, Poll, Compare,
        StoreFails
<1> QED  BY <1>1, <1>2, PersistedInductive, PTL DEF Spec
=============================================================================
