----------------------------- MODULE DomainNames -----------------------------
(***************************************************************************)
(* Domain names and the three ways a rule target or a category index can   *)
(* cover one: lib/ruleengine.rs (matches_target) and lib/categories.rs     *)
(* (CategoryIndex::contains).                                              *)
(*                                                                         *)
(* A name is the sequence of labels that splitting its text at the dots    *)
(* yields: "a.b" is <<a, b>>, "a.b." is <<a, b, Empty>>, ".a" is           *)
(* <<Empty, a>> and "" is <<Empty>>.  Text without its trailing dots is    *)
(* the same sequence without its trailing Empty labels, so "" and "." both *)
(* normalise to << >>.  A label is opaque except for its letter case.      *)
(***************************************************************************)
EXTENDS Naturals, Sequences, SequencesExt, FiniteSets

CONSTANTS
    Labels,   \* every label that occurs
    Empty,    \* the empty label, between two dots or after the last one
    Star,     \* the label "*"
    Lower     \* Lower[l] is l in ASCII lower case

ASSUME LabelsAssumption ==
    /\ Empty \in Labels /\ Star \in Labels
    /\ Lower \in [Labels -> Labels]
    /\ \A l \in Labels : Lower[Lower[l]] = Lower[l]
    /\ \A l \in Labels : Lower[l] = Empty <=> l = Empty
    /\ \A l \in Labels : Lower[l] = Star <=> l = Star

-----------------------------------------------------------------------------
ToLower(name) == [i \in DOMAIN name |-> Lower[name[i]]]

\* name.trim_end_matches('.')
TrimEndDots(name) == SubSeq(name, 1, SelectLastInSeq(name, LAMBDA l : l # Empty))

\* normalize and normalize_domain are the same function, written twice.
normalize(name) == ToLower(TrimEndDots(name))

\* name.trim_start_matches("*."): every leading "*." goes, a lone "*" stays.
TrimStarDots(name) ==
    LET first == SelectInSeq(name, LAMBDA l : l # Star)
    IN  SubSeq(name, IF first = 0 THEN Len(name) ELSE first, Len(name))

\* q.ends_with(&format!(".{suffix}")): the dot makes it a whole-label match.
EndsWithDot(q, suffix) == Len(q) > Len(suffix) /\ IsSuffix(suffix, q)

MatchesDomain(qname, target_value) == normalize(qname) = normalize(target_value)

\* Mutant: the wildcard does not cover its own domain.
MatchesBelowWildcard(qname, target_value) ==
    LET suffix == normalize(TrimStarDots(target_value))
    IN  suffix # << >> /\ EndsWithDot(normalize(qname), suffix)

MatchesWildcard(qname, target_value) ==
    LET suffix == normalize(TrimStarDots(target_value))
        q      == normalize(qname)
    IN  /\ suffix # << >>
        /\ q = suffix \/ EndsWithDot(q, suffix)

\* Category targets never match here: evaluate asks the index instead.
matches_target(qname, target_type, target_value) ==
    \/ target_type = "domain"   /\ MatchesDomain(qname, target_value)
    \/ target_type = "wildcard" /\ MatchesWildcard(qname, target_value)

-----------------------------------------------------------------------------
(* The category index is the relation {<<domain, category>>} that its map  *)
(* from domains to sets of categories stands for.                          *)

\* How many of the first n labels are not empty.
LabelsUpTo(name, n) == Cardinality({i \in 1..n : name[i] # Empty})

\* The labels that are not empty, in their order: what SelectSeq returns, by the
\* place of each, because a proof cannot look into SelectSeq.
NonEmptyLabels(name) ==
    [k \in 1..LabelsUpTo(name, Len(name)) |->
        name[Min({i \in 1..Len(name) : name[i] # Empty /\ LabelsUpTo(name, i) = k})]]

\* Mutant: the last label alone is never looked up.
AncestryAboveTop(labels) == {SubSeq(labels, i, Len(labels)) : i \in 1..(Len(labels) - 1)}

\* The query name with 0, 1, 2, ... leading labels removed, never empty.
Ancestry(labels) == {SubSeq(labels, i, Len(labels)) : i \in 1..Len(labels)}

contains(index, qname, category) ==
    \E domain \in Ancestry(NonEmptyLabels(normalize(qname))) :
        <<domain, category>> \in index
=============================================================================
