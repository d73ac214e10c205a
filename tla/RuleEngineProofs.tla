--------------------------- MODULE RuleEngineProofs ---------------------------
(***************************************************************************)
(* Proofs about the walk over a rule list: whatever the matchers do and    *)
(* however often the category index is replaced, what evaluate returns can *)
(* be explained rule by rule; and while the index stays, it is the decision *)
(* of the first rule that covers the name, for the matchers as they are.   *)
(***************************************************************************)
EXTENDS RuleEngine, FiniteSetTheorems, SequenceTheorems, WellFoundedInduction, TLAPS

\* Every decision a rule stands for has the type ruleengine.rs declares.
LEMMA RuleDecision ==
    ASSUME NEW r \in Rule
    PROVE  DecisionOf(r) \in Decisions
<1>0. /\ r.id \in Nat /\ r.action \in Actions
      /\ r.limit_count \in Int \cup {None} /\ r.limit_window \in Windows \cup {None}
  BY DEF Rule
<1>1. CASE r.action = "limit"
  <2>1. UnwrapOr(r.limit_count, 0) \in Int
    BY <1>0 DEF UnwrapOr
  <2>2. UnwrapOr(r.limit_window, "month") \in Windows
    BY <1>0 DEF UnwrapOr, Windows
  <2> QED  BY <1>0, <1>1, <2>1, <2>2 DEF DecisionOf, Decisions
<1>2. CASE r.action # "limit"
  BY <1>0, <1>2 DEF DecisionOf, Decisions, Actions
<1> QED  BY <1>1, <1>2

\* evaluate's state stays in its types (the walk never leaves the list).
THEOREM TypeCorrect == Spec => []TypeOK
<1>1. Init => TypeOK
  BY DEF Init, TypeOK
<1>2. TypeOK /\ [Next]_vars => TypeOK'
  <2> SUFFICES ASSUME TypeOK, [Next]_vars PROVE TypeOK'
    OBVIOUS
  <2> USE DEF TypeOK
  <2>1. CASE Call
    BY <2>1, InputsAssumption DEF Call
  <2>2. CASE Turn
    <3>1. rules[pos] \in Rule
      BY <2>2 DEF Turn
    <3>2. CASE Return(DecisionOf(rules[pos]), pos)
      BY <2>2, <3>1, <3>2, RuleDecision DEF Turn, Return
    <3>3. CASE Advance
      BY <2>2, <3>3 DEF Turn, Advance
    <3> QED  BY <2>2, <3>2, <3>3 DEF Turn
  <2>3. CASE NoRuleMatches
    BY <2>3 DEF NoRuleMatches, Return, NoMatch, Decisions
  <2>4. CASE Consume
    BY <2>4 DEF Consume
  <2>5. CASE ReplaceIndex
    BY <2>5 DEF ReplaceIndex
  <2>6. CASE UNCHANGED vars
    BY <2>6 DEF vars
  <2> QED  BY <2>1, <2>2, <2>3, <2>4, <2>5, <2>6 DEF Next
<1> QED  BY <1>1, <1>2, PTL DEF Spec

-----------------------------------------------------------------------------
(* The loop invariant: the walk is over exactly when there is a decision,  *)
(* the index in force is one the history knows, and every rule already     *)
(* passed was disabled or missed under an index of the history.            *)

Walk ==
    /\ pc # "done" => decision = None
    /\ pc = "walking" => index \in seen /\ \A i \in 1..(pos - 1) : Misses(i)

IInv == TypeOK /\ Walk /\ DecisionExplained

\* The loop invariant is inductive: a replacement of the index only adds to
\* the history, so what has been said about the rules passed stays true.
THEOREM InductiveWalk == Spec => []IInv
<1>1. Init => IInv
  BY DEF Init, IInv, TypeOK, Walk, DecisionExplained
<1>2. TypeOK /\ TypeOK' /\ IInv /\ [Next]_vars => IInv'
  <2> SUFFICES ASSUME TypeOK, TypeOK', Walk, DecisionExplained, [Next]_vars
               PROVE  Walk' /\ DecisionExplained'
    BY DEF IInv
  <2>1. CASE Call
    BY <2>1 DEF Call, Walk, DecisionExplained
  <2>2. CASE Turn
    <3>1. rules[pos] \in Rule /\ pos \in 1..Len(rules)
      BY <2>2 DEF Turn, TypeOK
    <3>2. DecisionOf(rules[pos]) # None
      BY <3>1, RuleDecision, NoneAssumption
    <3>3. CASE Considered(rules[pos]) /\ Matched(rules[pos], qname, index)
      <4>1. /\ pc' = "done" /\ decision' = DecisionOf(rules[pos]) /\ hit' = pos
            /\ rules' = rules /\ qname' = qname /\ seen' = seen
        BY <2>2, <3>3 DEF Turn, Return
      <4>2. rules[pos].enabled /\ \E idx \in seen : Matched(rules[pos], qname, idx)
        BY <2>2, <3>3 DEF Considered, Turn, Walk
      <4>3. \A i \in 1..(pos - 1) :
               ~rules[i].enabled \/ \E idx \in seen : ~Matched(rules[i], qname, idx)
        BY <2>2 DEF Walk, Misses, Turn
      <4> QED  BY <3>1, <4>1, <4>2, <4>3 DEF Walk, DecisionExplained, Hits, Misses, Matched
    <3>4. CASE ~(Considered(rules[pos]) /\ Matched(rules[pos], qname, index))
      <4>1. /\ pos' = pos + 1
            /\ UNCHANGED <<index, pc, rules, qname, decision, hit, seen>>
        BY <2>2, <3>4 DEF Turn, Advance
      <4>2. Misses(pos)
        BY <2>2, <3>4 DEF Considered, Turn, Walk, Misses
      <4>3. \A i \in 1..pos : Misses(i)
        BY <2>2, <3>1, <4>2 DEF Walk, Turn
      <4>4. \A i \in 1..(pos' - 1) : Misses(i)'
        BY <3>1, <4>1, <4>3 DEF Misses, Matched
      <4> QED  BY <2>2, <4>1, <4>4 DEF Walk, DecisionExplained, Turn
    <3> QED  BY <3>3, <3>4
  <2>3. CASE NoRuleMatches
    <3>1. pos - 1 = Len(rules)
      BY <2>3 DEF NoRuleMatches, TypeOK
    <3>2. \A i \in 1..Len(rules) : Misses(i)'
      BY <2>3, <3>1 DEF NoRuleMatches, Return, Walk, Misses, Matched
    <3> QED  BY <2>3, <3>2 DEF NoRuleMatches, Return, Walk, DecisionExplained
  <2>4. CASE Consume
    BY <2>4 DEF Consume, Walk, DecisionExplained, TypeOK
  <2>5. CASE ReplaceIndex
    <3>1. seen \subseteq seen' /\ UNCHANGED <<pc, rules, qname, pos, decision, hit>>
      BY <2>5 DEF ReplaceIndex
    <3>2. ASSUME NEW i, Misses(i) PROVE Misses(i)'
      BY <3>1, <3>2 DEF Misses, Matched
    <3>3. ASSUME NEW i, Hits(i) PROVE Hits(i)'
      BY <3>1, <3>3 DEF Hits, Matched
    <3>4. Walk'
      BY <2>5, <3>1, <3>2 DEF Walk, ReplaceIndex
    <3>5. DecisionExplained'
      BY <3>1, <3>2, <3>3 DEF DecisionExplained
    <3> QED  BY <3>4, <3>5
  <2>6. CASE UNCHANGED vars
    BY <2>6 DEF vars, Walk, DecisionExplained, Hits, Misses, Matched
  <2> QED  BY <2>1, <2>2, <2>3, <2>4, <2>5, <2>6 DEF Next
<1> QED  BY <1>1, <1>2, TypeCorrect, PTL DEF Spec

\* What evaluate returns can always be explained rule by rule, for every rule
\* list, every matcher and any number of index replacements (ruleengine.rs:49-74).
THEOREM Explained == Spec => []DecisionExplained
<1>1. IInv => DecisionExplained
  BY DEF IInv
<1> QED  BY <1>1, InductiveWalk, PTL

-----------------------------------------------------------------------------
(* The matchers against their reference.  What normalize keeps of a name is *)
(* its first n labels, the last of them not empty and none but empty ones   *)
(* behind it.                                                               *)

Keeps(name, n) ==
    /\ n \in 0..Len(name)
    /\ n > 0 => name[n] # Empty
    /\ \A k \in (n + 1)..Len(name) : name[k] = Empty

\* A non-empty set of positions has a first one.
LEMMA FirstPosition ==
    ASSUME NEW I \in SUBSET Nat, I # {}
    PROVE  \E x \in I : \A y \in I : x =< y
<1> DEFINE R == {ss \in Nat \X Nat : ss[1] < ss[2]}
<1>1. IsWellFoundedOn(R, Nat)
  BY NatLessThanWellFounded, Zenon DEF OpToRel
<1> HIDE DEF R
<1>2. PICK x \in I : \A y \in I : <<y, x>> \notin R
  BY <1>1, WFMin
<1>3. \A y \in I : ~(y < x)
  BY <1>2 DEF R
<1> QED  BY <1>3

\* And a last one, if the positions are those of a sequence.
LEMMA MaxIsLast ==
    ASSUME NEW n \in Nat, NEW I \in SUBSET (1..n), I # {}
    PROVE  Max(I) \in I /\ \A y \in I : Max(I) >= y
<1> DEFINE Behind == {n - i : i \in I}
<1>1. Behind \in SUBSET Nat /\ Behind # {}
  <2>1. ASSUME NEW i \in I PROVE n - i \in Nat
    OBVIOUS
  <2>2. PICK i : i \in I
    OBVIOUS
  <2> QED  BY <2>1, <2>2
<1> HIDE DEF Behind
<1>2. PICK d \in Behind : \A e \in Behind : d =< e
  BY <1>1, FirstPosition
<1>3. PICK x \in I : d = n - x
  BY <1>2 DEF Behind
<1>4. \A y \in I : x >= y
  BY <1>2, <1>3 DEF Behind
<1> QED  BY <1>3, <1>4 DEF Max

\* What trim_end_matches('.') leaves.
LEMMA TrimmedKeeps ==
    ASSUME NEW name, name \in Seq(Labels)
    PROVE  \E n \in 0..Len(name) : Keeps(name, n) /\ TrimEndDots(name) = SubSeq(name, 1, n)
<1> DEFINE I == {i \in 1..Len(name) : name[i] # Empty}
           n == IF I # {} THEN Max(I) ELSE 0
<1>1. TrimEndDots(name) = SubSeq(name, 1, n)
  BY DEF TrimEndDots, SelectLastInSeq
<1>2. I \in SUBSET (1..Len(name)) /\ Len(name) \in Nat
  OBVIOUS
<1>3. I # {} => n \in I /\ \A k \in I : n >= k
  <2> HIDE DEF I
  <2> QED  BY <1>2, MaxIsLast
<1>4. I = {} => n = 0
  OBVIOUS
<1>5. \A k \in 1..Len(name) : k \in I <=> name[k] # Empty
  OBVIOUS
<1> HIDE DEF I, n
<1>6. n \in 0..Len(name) /\ (n > 0 => n \in I)
  <2>1. CASE I = {}
    BY <1>2, <1>4, <2>1
  <2>2. CASE I # {}
    <3>1. n \in I /\ \A i \in I : i \in 1..Len(name)
      BY <1>2, <1>3, <2>2, Zenon
    <3> QED  BY <1>2, <3>1
  <2> QED  BY <2>1, <2>2
<1>7. ASSUME NEW k \in (n + 1)..Len(name) PROVE name[k] = Empty
  BY <1>2, <1>3, <1>4, <1>5, <1>6, <1>7
<1> QED  BY <1>1, <1>2, <1>5, <1>6, <1>7 DEF Keeps

LEMMA NormalizedName ==
    ASSUME NEW name, name \in Seq(Labels)
    PROVE  \E n \in 0..Len(name) :
              Keeps(name, n) /\ normalize(name) = [i \in 1..n |-> Lower[name[i]]]
<1>1. PICK n \in 0..Len(name) : Keeps(name, n) /\ TrimEndDots(name) = SubSeq(name, 1, n)
  BY TrimmedKeeps
<1>2. PICK trimmed : trimmed = TrimEndDots(name)
  OBVIOUS
<1>3. DOMAIN trimmed = 1..n /\ \A i \in 1..n : trimmed[i] = name[i]
  BY <1>1, <1>2
<1>4. normalize(name) = [i \in 1..n |-> Lower[name[i]]]
  BY <1>2, <1>3 DEF normalize, ToLower
<1> QED  BY <1>1, <1>4

\* Names are the same if what is kept of them is the same, label by label.
LEMMA SameKept ==
    ASSUME NEW a, NEW b, a \in Seq(Labels), b \in Seq(Labels),
           NEW m, NEW n, Keeps(a, m), Keeps(b, n)
    PROVE  SameName(a, b) <=> m = n /\ \A k \in 1..m : Lower[a[k]] = Lower[b[k]]
<1>1. /\ Len(a) \in Nat /\ Len(b) \in Nat /\ m \in 0..Len(a) /\ n \in 0..Len(b)
      /\ m > 0 => a[m] # Empty
      /\ n > 0 => b[n] # Empty
      /\ \A k \in (m + 1)..Len(a) : a[k] = Empty
      /\ \A k \in (n + 1)..Len(b) : b[k] = Empty
  BY DEF Keeps
<1>2. /\ \A k \in 1..Len(a) : a[k] \in Labels
      /\ \A k \in 1..Len(b) : b[k] \in Labels
  OBVIOUS
<1>3. \A l \in Labels : Lower[l] = Empty <=> l = Empty
  BY LabelsAssumption
<1>4. ASSUME SameName(a, b)
      PROVE  m = n /\ \A k \in 1..m : Lower[a[k]] = Lower[b[k]]
  <2>1. PICK i \in 0..Len(a) :
           /\ i \in 0..Len(b)
           /\ \A k \in 1..i : Lower[a[k]] = Lower[b[k]]
           /\ \A k \in (i + 1)..Len(a) : a[k] = Empty
           /\ \A k \in (i + 1)..Len(b) : b[k] = Empty
    BY <1>4 DEF SameName
  <2>2. m =< i
    BY <1>1, <2>1
  <2>3. n =< i
    BY <1>1, <2>1
  <2>4. ~(m < n)
    <3> SUFFICES ASSUME m < n PROVE FALSE
      OBVIOUS
    <3>1. n \in 1..i /\ n \in (m + 1)..Len(a) /\ n \in 1..Len(a) /\ n \in 1..Len(b)
      BY <1>1, <2>1, <2>3
    <3>2. a[n] = Empty /\ Lower[a[n]] = Lower[b[n]] /\ b[n] # Empty
      BY <1>1, <2>1, <3>1
    <3> QED  BY <1>2, <1>3, <3>1, <3>2
  <2>5. ~(n < m)
    <3> SUFFICES ASSUME n < m PROVE FALSE
      OBVIOUS
    <3>1. m \in 1..i /\ m \in (n + 1)..Len(b) /\ m \in 1..Len(a) /\ m \in 1..Len(b)
      BY <1>1, <2>1, <2>2
    <3>2. b[m] = Empty /\ Lower[a[m]] = Lower[b[m]] /\ a[m] # Empty
      BY <1>1, <2>1, <3>1
    <3> QED  BY <1>2, <1>3, <3>1, <3>2
  <2> QED  BY <1>1, <2>1, <2>2, <2>4, <2>5
<1>5. ASSUME m = n, \A k \in 1..m : Lower[a[k]] = Lower[b[k]]
      PROVE  SameName(a, b)
  BY <1>1, <1>5 DEF SameName
<1> QED  BY <1>4, <1>5

\* A domain rule covers the names that are the same as its target.
LEMMA DomainRuleCovers ==
    ASSUME NEW name, NEW target, name \in Seq(Labels), target \in Seq(Labels)
    PROVE  MatchesDomain(name, target) <=> SameName(name, target)
<1>1. PICK m \in 0..Len(name) :
         Keeps(name, m) /\ normalize(name) = [i \in 1..m |-> Lower[name[i]]]
  BY NormalizedName
<1>2. PICK n \in 0..Len(target) :
         Keeps(target, n) /\ normalize(target) = [i \in 1..n |-> Lower[target[i]]]
  BY NormalizedName
<1>3. SameName(name, target) <=> m = n /\ \A k \in 1..m : Lower[name[k]] = Lower[target[k]]
  BY <1>1, <1>2, SameKept
<1>4. m \in Nat /\ n \in Nat
  BY DEF Keeps
<1>5. normalize(name) = normalize(target)
        <=> m = n /\ \A k \in 1..m : Lower[name[k]] = Lower[target[k]]
  <2>1. ASSUME normalize(name) = normalize(target)
        PROVE  m = n /\ \A k \in 1..m : Lower[name[k]] = Lower[target[k]]
    <3>1. DOMAIN normalize(name) = 1..m /\ DOMAIN normalize(target) = 1..n
      BY <1>1, <1>2
    <3>2. 1..m = 1..n
      BY <2>1, <3>1
    <3>3. m = n
      BY <1>4, <3>2
    <3>4. ASSUME NEW k \in 1..m PROVE Lower[name[k]] = Lower[target[k]]
      <4>1. normalize(name)[k] = Lower[name[k]] /\ normalize(target)[k] = Lower[target[k]]
        BY <1>1, <1>2, <3>3, Zenon
      <4> QED  BY <2>1, <4>1
    <3> QED  BY <3>3, <3>4
  <2>2. ASSUME m = n, \A k \in 1..m : Lower[name[k]] = Lower[target[k]]
        PROVE  normalize(name) = normalize(target)
    BY <1>1, <1>2, <2>2
  <2> QED  BY <2>1, <2>2
<1> QED  BY <1>3, <1>5 DEF MatchesDomain

LEMMA ReversedIsName ==
    ASSUME NEW name \in Seq(Labels)
    PROVE  Reverse(name) \in Seq(Labels)
BY DEF Reverse

\* A suffix is what its sequence ends with.
LEMMA SuffixElements ==
    ASSUME NEW host, NEW base, host \in Seq(Labels), base \in Seq(Labels)
    PROVE  IsSuffix(base, host)
             <=> /\ Len(base) =< Len(host)
                 /\ \A i \in 1..Len(base) : base[i] = host[Len(host) - Len(base) + i]
<1>1. PICK m \in Nat, n \in Nat : m = Len(base) /\ n = Len(host)
  OBVIOUS
<1>2. /\ Reverse(base) = [i \in 1..m |-> base[(m - i) + 1]]
      /\ Reverse(host) = [i \in 1..n |-> host[(n - i) + 1]]
  BY <1>1 DEF Reverse
<1>3. Reverse(base) \in Seq(Labels) /\ Reverse(host) \in Seq(Labels)
  BY ReversedIsName
<1>4. Len(Reverse(base)) = m /\ Len(Reverse(host)) = n
  BY <1>2, <1>3
<1>5. CASE ~(m =< n)
  BY <1>1, <1>4, <1>5 DEF IsSuffix, IsPrefix
<1>6. CASE m =< n
  <2>1. IsSuffix(base, host) <=>
           \A i \in 1..m : Reverse(base)[i] = Reverse(host)[i]
    <3>1. /\ SubSeq(Reverse(base), 1, m) = [i \in 1..m |-> Reverse(base)[i]]
          /\ SubSeq(Reverse(host), 1, m) = [i \in 1..m |-> Reverse(host)[i]]
      BY <1>3, <1>4, <1>6
    <3> QED  BY <1>4, <1>6, <3>1 DEF IsSuffix, IsPrefix
  <2>2. (\A i \in 1..m : Reverse(base)[i] = Reverse(host)[i])
          <=> \A i \in 1..m : base[(m - i) + 1] = host[(n - i) + 1]
    <3>1. \A i \in 1..m : i \in 1..n
      BY <1>6
    <3>2. \A i \in 1..m : /\ Reverse(base)[i] = base[(m - i) + 1]
                          /\ Reverse(host)[i] = host[(n - i) + 1]
      BY <1>2, <3>1, Zenon
    <3>3. ASSUME NEW i \in 1..m
          PROVE  Reverse(base)[i] = Reverse(host)[i]
                   <=> base[(m - i) + 1] = host[(n - i) + 1]
      <4>1. /\ Reverse(base)[i] = base[(m - i) + 1]
            /\ Reverse(host)[i] = host[(n - i) + 1]
        BY <3>2
      <4> QED  BY <4>1, Zenon
    <3> QED  BY <3>3, Zenon
  <2>3. (\A i \in 1..m : base[(m - i) + 1] = host[(n - i) + 1])
          <=> \A i \in 1..m : base[i] = host[n - m + i]
    <3>1. ASSUME \A i \in 1..m : base[(m - i) + 1] = host[(n - i) + 1], NEW i \in 1..m
          PROVE  base[i] = host[n - m + i]
      <4>1. /\ (m - i) + 1 \in 1..m /\ (m - ((m - i) + 1)) + 1 = i
            /\ (n - ((m - i) + 1)) + 1 = n - m + i
        OBVIOUS
      <4> QED  BY <3>1, <4>1
    <3>2. ASSUME \A i \in 1..m : base[i] = host[n - m + i], NEW i \in 1..m
          PROVE  base[(m - i) + 1] = host[(n - i) + 1]
      <4>1. (m - i) + 1 \in 1..m /\ n - m + ((m - i) + 1) = (n - i) + 1
        OBVIOUS
      <4> QED  BY <3>2, <4>1
    <3> QED  BY <3>1, <3>2
  <2> QED  BY <1>1, <1>6, <2>1, <2>2, <2>3
<1> QED  BY <1>5, <1>6

\* What is kept of the last labels of a name.
LEMMA SuffixKeeps ==
    ASSUME NEW name, name \in Seq(Labels), NEW m, Keeps(name, m), NEW k \in 1..Len(name)
    PROVE  /\ SubSeq(name, k, Len(name)) \in Seq(Labels)
           /\ Keeps(SubSeq(name, k, Len(name)), IF k =< m THEN m - k + 1 ELSE 0)
           /\ \A i \in 1..(Len(name) - k + 1) :
                 SubSeq(name, k, Len(name))[i] = name[k + i - 1]
<1>1. PICK n \in Nat : n = Len(name)
  OBVIOUS
<1>2. PICK end : end = SubSeq(name, k, Len(name))
  OBVIOUS
<1>3. /\ end \in Seq(Labels) /\ Len(end) = n - k + 1
      /\ \A i \in 1..(n - k + 1) : end[i] = name[k + i - 1]
  BY <1>1, <1>2
<1>4. m \in 0..n /\ (m > 0 => name[m] # Empty) /\ \A j \in (m + 1)..n : name[j] = Empty
  BY <1>1 DEF Keeps
<1>5. CASE k =< m
  <2>1. m - k + 1 \in 1..(n - k + 1) /\ k + (m - k + 1) - 1 = m
    BY <1>1, <1>4, <1>5
  <2>2. end[m - k + 1] # Empty
    BY <1>1, <1>3, <1>4, <1>5, <2>1
  <2>3. ASSUME NEW j \in ((m - k + 1) + 1)..Len(end) PROVE end[j] = Empty
    <3>1. j \in 1..(n - k + 1) /\ k + j - 1 \in (m + 1)..n
      BY <1>1, <1>3, <1>4, <1>5
    <3> QED  BY <1>3, <1>4, <3>1
  <2> QED  BY <1>1, <1>2, <1>3, <1>5, <2>1, <2>2, <2>3 DEF Keeps
<1>6. CASE ~(k =< m)
  <2>1. ASSUME NEW j \in 1..Len(end) PROVE end[j] = Empty
    <3>1. j \in 1..(n - k + 1) /\ k + j - 1 \in (m + 1)..n
      BY <1>1, <1>3, <1>4, <1>6
    <3> QED  BY <1>3, <1>4, <3>1
  <2> QED  BY <1>1, <1>2, <1>3, <1>6, <2>1 DEF Keeps
<1> QED  BY <1>5, <1>6

\* What is left of a target when its leading "*." are trimmed.
LEMMA BaseOfTarget ==
    ASSUME NEW target, target \in Seq(Labels), target # << >>
    PROVE  /\ WildcardBase(target) = TrimStarDots(target)
           /\ TrimStarDots(target) \in Seq(Labels)
<1>1. PICK n \in Nat : n = Len(target) /\ n > 0
  OBVIOUS
<1> DEFINE I == {i \in 1..n : target[i] # Star}
           first == IF I # {} THEN Min(I) ELSE 0
           Base(j) == SubSeq(target, j, n)
           IsBase(base) == /\ Head(base) # Star \/ Len(base) = 1
                           /\ \A k \in 1..(n - Len(base)) : target[k] = Star
<1>2. PICK d : d = IF first = 0 THEN n ELSE first
  OBVIOUS
<1>3. TrimStarDots(target) = Base(d)
  BY <1>1, <1>2 DEF TrimStarDots, SelectInSeq
<1>4. d \in 1..n /\ (target[d] # Star \/ d = n) /\ \A k \in 1..(d - 1) : target[k] = Star
  <2>1. CASE I = {}
    BY <1>1, <1>2, <2>1
  <2>2. CASE I # {}
    <3>1. I \in SUBSET Nat
      OBVIOUS
    <3>2. Min(I) \in I /\ \A y \in I : Min(I) =< y
      <4> HIDE DEF I
      <4>1. PICK x \in I : \A y \in I : x =< y
        BY <2>2, <3>1, FirstPosition
      <4> QED  BY <4>1 DEF Min
    <3>3. PICK f : f = Min(I)
      OBVIOUS
    <3>4. f \in I /\ \A y \in I : f =< y
      BY <3>2, <3>3
    <3>5. d = f /\ f \in 1..n /\ target[f] # Star
      BY <1>2, <2>2, <3>3, <3>4
    <3>6. ASSUME NEW k \in 1..(f - 1) PROVE target[k] = Star
      <4>1. k \in 1..n /\ ~(f =< k)
        BY <3>5
      <4> QED  BY <3>4, <4>1
    <3> QED  BY <3>5, <3>6
  <2> QED  BY <2>1, <2>2
<1> HIDE DEF I, first
<1>5. ASSUME NEW j \in 1..n
      PROVE  /\ Base(j) \in Seq(Labels) /\ Len(Base(j)) = n - j + 1
             /\ IsBase(Base(j)) <=> /\ target[j] # Star \/ j = n
                                    /\ \A k \in 1..(j - 1) : target[k] = Star
  <2>1. Base(j) \in Seq(Labels) /\ Len(Base(j)) = n - j + 1 /\ Base(j)[1] = target[j]
    BY <1>1
  <2>2. Head(Base(j)) = target[j]
    BY <2>1
  <2>3. n - Len(Base(j)) = j - 1 /\ (Len(Base(j)) = 1 <=> j = n)
    BY <2>1
  <2> QED  BY <2>1, <2>2, <2>3
<1>6. IsBase(Base(d))
  BY <1>4, <1>5
<1>7. ASSUME NEW j \in 1..n, IsBase(Base(j)) PROVE j = d
  <2>1. (target[j] # Star \/ j = n) /\ \A k \in 1..(j - 1) : target[k] = Star
    BY <1>5, <1>7
  <2>2. ~(j < d)
    BY <1>4, <2>1
  <2>3. ~(d < j)
    BY <1>4, <2>1
  <2> QED  BY <1>4, <2>2, <2>3
<1>8. WildcardBase(target) = CHOOSE base \in {Base(j) : j \in 1..n} : IsBase(base)
  BY <1>1 DEF WildcardBase
<1>9. WildcardBase(target) = Base(d)
  <2>1. Base(d) \in {Base(j) : j \in 1..n}
    BY <1>4
  <2>2. \A base \in {Base(j) : j \in 1..n} : IsBase(base) => base = Base(d)
    BY <1>7
  <2> HIDE DEF Base, IsBase
  <2> QED  BY <1>6, <1>8, <2>1, <2>2
<1> QED  BY <1>3, <1>4, <1>5, <1>9

\* The first m labels of name end with the first n labels of base, case aside.
EndsAlike(name, m, base, n) ==
    /\ n > 0 /\ m >= n
    /\ \A i \in 1..n : Lower[base[i]] = Lower[name[m - n + i]]

\* A name is at or below another if what is kept of it ends with what is kept
\* of the other.
LEMMA BelowEnds ==
    ASSUME NEW name, NEW base, name \in Seq(Labels), base \in Seq(Labels),
           NEW m \in Nat, NEW n \in Nat, Keeps(name, m), Keeps(base, n)
    PROVE  AtOrBelow(name, base) <=> EndsAlike(name, m, base, n)
<1> DEFINE Ends == m >= n /\ \A i \in 1..n : Lower[base[i]] = Lower[name[m - n + i]]
<1>1. /\ Len(name) \in Nat /\ Len(base) \in Nat /\ m \in Nat /\ n \in Nat
      /\ m =< Len(name) /\ n =< Len(base)
  BY DEF Keeps
<1>2. IsRoot(base) <=> n = 0
  <2>1. DOMAIN base = 1..Len(base)
    OBVIOUS
  <2> QED  BY <1>1, <2>1 DEF IsRoot, Keeps
<1>3. ASSUME NEW k \in 1..Len(name), n > 0
      PROVE  SameName(SubSeq(name, k, Len(name)), base) <=> k + n = m + 1 /\ Ends
  <2>1. PICK end : end = SubSeq(name, k, Len(name))
    OBVIOUS
  <2>2. PICK kept : kept = IF k =< m THEN m - k + 1 ELSE 0
    OBVIOUS
  <2>3. /\ end \in Seq(Labels) /\ Keeps(end, kept)
        /\ \A i \in 1..(Len(name) - k + 1) : end[i] = name[k + i - 1]
    BY <2>1, <2>2, SuffixKeeps
  <2>4. SameName(end, base) <=> kept = n /\ \A i \in 1..kept : Lower[end[i]] = Lower[base[i]]
    BY <2>3, SameKept
  <2>5. kept = n <=> k + n = m + 1
    BY <1>1, <1>3, <2>2
  <2>6. ASSUME k + n = m + 1
        PROVE  m >= n /\ \A i \in 1..n : end[i] = name[m - n + i]
    <3>1. m >= n /\ \A i \in 1..n : i \in 1..(Len(name) - k + 1) /\ k + i - 1 = m - n + i
      BY <1>1, <2>6
    <3> QED  BY <2>3, <3>1
  <2>7. ASSUME k + n = m + 1
        PROVE  (\A i \in 1..n : Lower[end[i]] = Lower[base[i]]) <=> Ends
    <3>1. \A i \in 1..n : Lower[end[i]] = Lower[name[m - n + i]]
      BY <2>6, <2>7
    <3> QED  BY <2>6, <2>7, <3>1
  <2> QED  BY <2>1, <2>4, <2>5, <2>7
<1>4. ASSUME n > 0, Ends PROVE \E k \in 1..Len(name) : k + n = m + 1
  <2>1. m - n + 1 \in 1..Len(name) /\ (m - n + 1) + n = m + 1
    BY <1>1, <1>4
  <2> QED  BY <2>1
<1> HIDE DEF Ends
<1>5. ASSUME n > 0
      PROVE  (\E k \in 1..Len(name) : SameName(SubSeq(name, k, Len(name)), base)) <=> Ends
  BY <1>3, <1>4, <1>5
<1>6. AtOrBelow(name, base) <=> n > 0 /\ Ends
  BY <1>1, <1>2, <1>5 DEF AtOrBelow
<1> QED  BY <1>6 DEF Ends, EndsAlike

\* A wildcard rule covers its base and what lies below it.
LEMMA WildcardRuleCovers ==
    ASSUME NEW name, NEW target, name \in Seq(Labels), target \in Seq(Labels), target # << >>
    PROVE  MatchesWildcard(name, target) <=> AtOrBelow(name, WildcardBase(target))
<1>1. PICK base : base = TrimStarDots(target)
  OBVIOUS
<1>2. base \in Seq(Labels) /\ WildcardBase(target) = base
  BY <1>1, BaseOfTarget
<1>3. PICK m \in 0..Len(name) :
         Keeps(name, m) /\ normalize(name) = [i \in 1..m |-> Lower[name[i]]]
  BY NormalizedName
<1>4. PICK n \in 0..Len(base) :
         Keeps(base, n) /\ normalize(base) = [i \in 1..n |-> Lower[base[i]]]
  BY <1>2, NormalizedName
<1> DEFINE Ends == m >= n /\ \A i \in 1..n : Lower[base[i]] = Lower[name[m - n + i]]
<1>5. /\ Len(name) \in Nat /\ Len(base) \in Nat /\ m \in Nat /\ n \in Nat
      /\ m =< Len(name) /\ n =< Len(base)
  BY <1>2, <1>3, <1>4
<1>6. /\ \A i \in 1..m : Lower[name[i]] \in Labels
      /\ \A i \in 1..n : Lower[base[i]] \in Labels
  <2>1. /\ \A i \in 1..m : name[i] \in Labels
        /\ \A i \in 1..n : base[i] \in Labels
    BY <1>2, <1>5
  <2> QED  BY <2>1, LabelsAssumption
<1>7. PICK q, suffix : q = normalize(name) /\ suffix = normalize(base)
  OBVIOUS
<1>8. /\ q \in Seq(Labels) /\ suffix \in Seq(Labels) /\ Len(q) = m /\ Len(suffix) = n
      /\ \A i \in 1..m : q[i] = Lower[name[i]]
      /\ \A i \in 1..n : suffix[i] = Lower[base[i]]
  BY <1>3, <1>4, <1>5, <1>6, <1>7
<1>9. MatchesWildcard(name, target) <=> n > 0 /\ Ends
  <2>1. MatchesWildcard(name, target)
          <=> suffix # << >> /\ (q = suffix \/ EndsWithDot(q, suffix))
    BY <1>1, <1>7 DEF MatchesWildcard
  <2>2. suffix # << >> <=> n > 0
    BY <1>5, <1>8
  <2>3. EndsWithDot(q, suffix) <=> m > n /\ \A i \in 1..n : suffix[i] = q[m - n + i]
    <3>1. IsSuffix(suffix, q) <=> n =< m /\ \A i \in 1..n : suffix[i] = q[m - n + i]
      <4>1. q \in Seq(Labels) /\ suffix \in Seq(Labels)
        BY <1>8
      <4>2. IsSuffix(suffix, q)
              <=> /\ Len(suffix) =< Len(q)
                  /\ \A i \in 1..Len(suffix) : suffix[i] = q[Len(q) - Len(suffix) + i]
        BY <4>1, SuffixElements
      <4>3. Len(q) = m /\ Len(suffix) = n
        BY <1>8
      <4> QED  BY <4>2, <4>3, Zenon
    <3>2. EndsWithDot(q, suffix) <=> m > n /\ IsSuffix(suffix, q)
      BY <1>8 DEF EndsWithDot
    <3> QED  BY <1>5, <3>1, <3>2
  <2>4. q = suffix <=> m = n /\ \A i \in 1..n : suffix[i] = q[m - n + i]
    <3>1. ASSUME m = n PROVE \A i \in 1..n : m - n + i = i
      BY <1>5, <3>1
    <3>2. q = suffix => m = n
      BY <1>8
    <3>3. ASSUME m = n, \A i \in 1..n : suffix[i] = q[i] PROVE q = suffix
      BY <1>8, <3>3, SeqEqual
    <3> QED  BY <3>1, <3>2, <3>3
  <2>5. ASSUME m >= n
        PROVE  (\A i \in 1..n : suffix[i] = q[m - n + i])
                 <=> \A i \in 1..n : Lower[base[i]] = Lower[name[m - n + i]]
    <3>1. \A i \in 1..n : m - n + i \in 1..m
      BY <1>5, <2>5
    <3> QED  BY <1>8, <3>1
  <2> QED  BY <1>5, <2>1, <2>2, <2>3, <2>4, <2>5
<1>10. AtOrBelow(name, base) <=> EndsAlike(name, m, base, n)
  <2>1. Keeps(name, m) /\ Keeps(base, n) /\ m \in Nat /\ n \in Nat
    BY <1>3, <1>4, <1>5
  <2>2. base \in Seq(Labels) /\ name \in Seq(Labels)
    BY <1>2
  <2> QED  BY <2>1, <2>2, BelowEnds
<1> QED  BY <1>2, <1>9, <1>10 DEF EndsAlike

-----------------------------------------------------------------------------
(* The category index against the same reference.                          *)

\* Counting labels, one by one.
LEMMA CountStep ==
    ASSUME NEW name, name \in Seq(Labels), NEW i \in Nat
    PROVE  /\ LabelsUpTo(name, 0) = 0 /\ LabelsUpTo(name, i) \in Nat
           /\ LabelsUpTo(name, i + 1) = IF name[i + 1] = Empty THEN LabelsUpTo(name, i)
                                        ELSE LabelsUpTo(name, i) + 1
<1> DEFINE Full(n) == {j \in 1..n : name[j] # Empty}
<1>1. ASSUME NEW n \in Nat PROVE IsFiniteSet(Full(n)) /\ Cardinality(Full(n)) \in Nat
  <2>1. IsFiniteSet(1..n)
    BY FS_Interval
  <2>2. Full(n) \in SUBSET (1..n)
    OBVIOUS
  <2>3. IsFiniteSet(Full(n))
    BY <2>1, <2>2, FS_Subset
  <2> QED  BY <2>3, FS_CardinalityType
<1>2. Full(0) = {}
  OBVIOUS
<1>3. i + 1 \notin Full(i)
  OBVIOUS
<1>4. Full(i + 1) = IF name[i + 1] = Empty THEN Full(i) ELSE Full(i) \cup {i + 1}
  OBVIOUS
<1>5. \A n : LabelsUpTo(name, n) = Cardinality(Full(n))
  BY DEF LabelsUpTo
<1> HIDE DEF Full
<1>6. Cardinality(Full(i) \cup {i + 1}) = Cardinality(Full(i)) + 1
  BY <1>1, <1>3, FS_AddElement
<1>7. Cardinality(Full(0)) = 0
  BY <1>2, FS_EmptySet
<1>8. Cardinality(Full(i + 1)) = IF name[i + 1] = Empty THEN Cardinality(Full(i))
                                 ELSE Cardinality(Full(i)) + 1
  BY <1>4, <1>6, Zenon
<1>9. Cardinality(Full(i)) \in Nat
  BY <1>1
<1>10. /\ LabelsUpTo(name, 0) = Cardinality(Full(0))
       /\ LabelsUpTo(name, i) = Cardinality(Full(i))
       /\ LabelsUpTo(name, i + 1) = Cardinality(Full(i + 1))
  BY <1>5
<1> QED  BY <1>7, <1>8, <1>9, <1>10

\* The place of the k-th label that is not empty.
Places(name, k) == {i \in 1..Len(name) : name[i] # Empty /\ LabelsUpTo(name, i) = k}

\* Each label that is counted has a place.
LEMMA HasPlace ==
    ASSUME NEW name, name \in Seq(Labels), NEW k \in 1..LabelsUpTo(name, Len(name))
    PROVE  Min(Places(name, k)) \in Places(name, k)
<1>1. PICK n \in Nat : n = Len(name)
  OBVIOUS
<1> DEFINE c(i) == LabelsUpTo(name, i)
           I == {i \in 0..n : c(i) >= k}
<1>2. c(0) = 0 /\ \A i \in Nat : /\ c(i) \in Nat
                                 /\ c(i + 1) = IF name[i + 1] = Empty THEN c(i) ELSE c(i) + 1
  BY CountStep
<1>3. k \in Nat /\ k > 0 /\ c(n) >= k
  BY <1>1, <1>2
<1> HIDE DEF c
<1>4. I \in SUBSET Nat /\ n \in I
  BY <1>3
<1>5. PICK x \in I : \A y \in I : x =< y
  BY <1>4, FirstPosition
<1>6. x \in 0..n /\ c(x) >= k
  BY <1>5
<1>7. x # 0
  BY <1>2, <1>3, <1>6
<1>8. x - 1 \in 0..n /\ x - 1 \in Nat /\ (x - 1) + 1 = x
  BY <1>6, <1>7
<1>9. ~(c(x - 1) >= k)
  <2>1. ~(x =< x - 1)
    BY <1>8
  <2>2. x - 1 \notin I
    BY <1>5, <2>1
  <2> QED  BY <1>8, <2>2
<1>10. c(x - 1) \in Nat /\ c(x) = IF name[x] = Empty THEN c(x - 1) ELSE c(x - 1) + 1
  BY <1>2, <1>8
<1>11. name[x] # Empty /\ c(x) = k
  BY <1>3, <1>6, <1>9, <1>10
<1>12. x \in Places(name, k)
  BY <1>1, <1>6, <1>7, <1>11 DEF Places, c
<1>13. Places(name, k) \in SUBSET Nat
  BY DEF Places
<1>14. PICK z \in Places(name, k) : \A y \in Places(name, k) : z =< y
  BY <1>12, <1>13, FirstPosition
<1> QED  BY <1>14 DEF Min

\* The filtered labels, by their places.
LEMMA FilteredLabels ==
    ASSUME NEW name, name \in Seq(Labels)
    PROVE  /\ NonEmptyLabels(name) =
                 [k \in 1..LabelsUpTo(name, Len(name)) |-> name[Min(Places(name, k))]]
           /\ LabelsUpTo(name, Len(name)) \in Nat
           /\ NonEmptyLabels(name) \in Seq(Labels)
           /\ Len(NonEmptyLabels(name)) = LabelsUpTo(name, Len(name))
           /\ \A k \in 1..LabelsUpTo(name, Len(name)) : NonEmptyLabels(name)[k] # Empty
<1>1. PICK c : c = LabelsUpTo(name, Len(name))
  OBVIOUS
<1>2. c \in Nat
  BY <1>1, CountStep
<1>3. NonEmptyLabels(name) = [k \in 1..c |-> name[Min(Places(name, k))]]
  BY <1>1 DEF NonEmptyLabels, Places
<1>4. ASSUME NEW k \in 1..c
      PROVE  name[Min(Places(name, k))] \in Labels /\ name[Min(Places(name, k))] # Empty
  <2>1. PICK i : i = Min(Places(name, k))
    OBVIOUS
  <2>2. i \in 1..Len(name) /\ name[i] # Empty
    BY <1>1, <2>1, HasPlace DEF Places
  <2> QED  BY <2>1, <2>2
<1> QED  BY <1>1, <1>2, <1>3, <1>4

\* Filtering what normalize makes of a name is filtering the name.
LEMMA FilterNormalized ==
    ASSUME NEW name, name \in Seq(Labels)
    PROVE  /\ normalize(name) \in Seq(Labels)
           /\ Len(NonEmptyLabels(normalize(name))) = Len(NonEmptyLabels(name))
           /\ \A k \in 1..Len(NonEmptyLabels(name)) :
                 NonEmptyLabels(normalize(name))[k] = Lower[NonEmptyLabels(name)[k]]
<1>1. PICK m \in 0..Len(name) :
         Keeps(name, m) /\ normalize(name) = [i \in 1..m |-> Lower[name[i]]]
  BY NormalizedName
<1>2. PICK n \in Nat : n = Len(name)
  OBVIOUS
<1>3. PICK q : q = normalize(name)
  OBVIOUS
<1>4. /\ m \in Nat /\ m =< n
      /\ \A i \in (m + 1)..n : name[i] = Empty
      /\ \A i \in 1..n : name[i] \in Labels
  BY <1>1, <1>2 DEF Keeps
<1>5. \A i \in 1..m : /\ q[i] = Lower[name[i]] /\ Lower[name[i]] \in Labels
                      /\ q[i] = Empty <=> name[i] = Empty
  <2>1. ASSUME NEW i \in 1..m
        PROVE  q[i] = Lower[name[i]] /\ name[i] \in Labels
    BY <1>1, <1>3, <1>4, <2>1
  <2> QED  BY <2>1, LabelsAssumption
<1>6. q \in Seq(Labels) /\ Len(q) = m
  BY <1>1, <1>3, <1>4, <1>5
<1>7. ASSUME NEW i \in 0..m PROVE LabelsUpTo(q, i) = LabelsUpTo(name, i)
  <2>1. {j \in 1..i : q[j] # Empty} = {j \in 1..i : name[j] # Empty}
    BY <1>4, <1>5
  <2> QED  BY <2>1 DEF LabelsUpTo
<1>8. LabelsUpTo(name, n) = LabelsUpTo(name, m)
  <2>1. {j \in 1..n : name[j] # Empty} = {j \in 1..m : name[j] # Empty}
    BY <1>2, <1>4
  <2> QED  BY <2>1 DEF LabelsUpTo
<1>9. ASSUME NEW k PROVE Places(q, k) = Places(name, k)
  <2>1. ASSUME NEW i \in 1..n, name[i] # Empty PROVE i \in 1..m
    BY <1>4, <2>1
  <2>2. \A i \in 1..m : i \in 1..n /\ i \in 0..m
    BY <1>4
  <2>3. ASSUME NEW i
        PROVE  i \in Places(q, k) <=> i \in Places(name, k)
    <3>1. i \in Places(q, k) <=> i \in 1..m /\ q[i] # Empty /\ LabelsUpTo(q, i) = k
      BY <1>6 DEF Places
    <3>2. i \in Places(name, k) <=> i \in 1..n /\ name[i] # Empty /\ LabelsUpTo(name, i) = k
      BY <1>2 DEF Places
    <3> QED  BY <1>5, <1>7, <2>1, <2>2, <3>1, <3>2
  <2> QED  BY <2>3
<1>10. PICK c : c = LabelsUpTo(name, n)
  OBVIOUS
<1>11. /\ NonEmptyLabels(name) = [k \in 1..c |-> name[Min(Places(name, k))]]
       /\ Len(NonEmptyLabels(name)) = c /\ c \in Nat
  BY <1>2, <1>10, FilteredLabels
<1>12. LabelsUpTo(q, Len(q)) = c
  BY <1>4, <1>6, <1>7, <1>8, <1>10
<1>13. NonEmptyLabels(q) = [k \in 1..c |-> q[Min(Places(name, k))]] /\ Len(NonEmptyLabels(q)) = c
  BY <1>6, <1>9, <1>12, FilteredLabels
<1>14. ASSUME NEW k \in 1..c
       PROVE  NonEmptyLabels(q)[k] = Lower[NonEmptyLabels(name)[k]]
  <2>1. PICK i : i = Min(Places(name, k))
    OBVIOUS
  <2>2. i \in Places(q, k)
    BY <1>2, <1>9, <1>10, <2>1, HasPlace
  <2>3. i \in 1..m
    BY <1>6, <2>2 DEF Places
  <2>4. NonEmptyLabels(q)[k] = q[i] /\ NonEmptyLabels(name)[k] = name[i]
    BY <1>11, <1>13, <2>1
  <2> QED  BY <1>5, <2>3, <2>4
<1> QED  BY <1>3, <1>6, <1>11, <1>13, <1>14

\* Of a name without inner empty labels nothing is filtered out but what
\* trimming takes.
LEMMA FilterKeeps ==
    ASSUME NEW name, name \in Seq(Labels), NEW m, Keeps(name, m),
           \A i \in 1..m : name[i] # Empty
    PROVE  /\ Len(NonEmptyLabels(name)) = m
           /\ \A k \in 1..m : NonEmptyLabels(name)[k] = name[k]
<1>1. PICK n \in Nat : n = Len(name)
  OBVIOUS
<1>2. m \in Nat /\ m =< n /\ \A i \in (m + 1)..n : name[i] = Empty
  BY <1>1 DEF Keeps
<1>3. ASSUME NEW i \in 0..m PROVE LabelsUpTo(name, i) = i
  <2>1. {j \in 1..i : name[j] # Empty} = 1..i
    BY <1>2
  <2>2. Cardinality(1..i) = i
    BY <1>2, FS_Interval
  <2> QED  BY <2>1, <2>2 DEF LabelsUpTo
<1>4. LabelsUpTo(name, n) = m
  <2>1. {j \in 1..n : name[j] # Empty} = {j \in 1..m : name[j] # Empty}
    BY <1>2
  <2>2. LabelsUpTo(name, n) = LabelsUpTo(name, m)
    BY <2>1 DEF LabelsUpTo
  <2> QED  BY <1>2, <1>3, <2>2
<1>5. ASSUME NEW k \in 1..m PROVE Min(Places(name, k)) = k
  <2>1. PICK i : i = Min(Places(name, k))
    OBVIOUS
  <2>2. i \in 1..n /\ name[i] # Empty /\ LabelsUpTo(name, i) = k
    BY <1>1, <1>4, <2>1, HasPlace DEF Places
  <2>3. i \in 0..m
    BY <1>2, <2>2
  <2> QED  BY <1>3, <2>1, <2>2, <2>3
<1>6. /\ NonEmptyLabels(name) = [k \in 1..m |-> name[Min(Places(name, k))]]
      /\ Len(NonEmptyLabels(name)) = m
  BY <1>1, <1>4, FilteredLabels
<1> QED  BY <1>5, <1>6

\* The index finds a name if it lists it, or a name above it.
LEMMA CategoryRuleCovers ==
    ASSUME NEW name, name \in Seq(Labels), NEW idx \in Indexes, NEW category
    PROVE  contains(idx, name, category)
             <=> \E entry \in idx : /\ entry[2] = category
                                    /\ AtOrBelow(NonEmptyLabels(name), entry[1])
<1>1. PICK labels : labels = NonEmptyLabels(name)
  OBVIOUS
<1>2. PICK lower : lower = NonEmptyLabels(normalize(name))
  OBVIOUS
<1>3. PICK m \in Nat : m = Len(labels)
  BY <1>1, FilteredLabels
<1>4. labels \in Seq(Labels) /\ Keeps(labels, m)
  <2>1. labels \in Seq(Labels) /\ \A k \in 1..m : labels[k] # Empty
    BY <1>1, <1>3, FilteredLabels
  <2> QED  BY <1>3, <2>1 DEF Keeps
<1>5. lower \in Seq(Labels) /\ Len(lower) = m /\ \A k \in 1..m : lower[k] = Lower[labels[k]]
  <2>1. normalize(name) \in Seq(Labels)
    BY FilterNormalized
  <2>2. lower \in Seq(Labels)
    BY <1>2, <2>1, FilteredLabels
  <2> QED  BY <1>1, <1>2, <1>3, <2>2, FilterNormalized
<1>6. contains(idx, name, category)
        <=> \E i \in 1..m : <<SubSeq(lower, i, m), category>> \in idx
  BY <1>2, <1>5 DEF contains, Ancestry
<1>7. ASSUME NEW d \in Seq(Labels), Listed(d)
      PROVE  AtOrBelow(labels, d) <=> \E i \in 1..m : SubSeq(lower, i, m) = d
  <2>1. PICK n \in Nat : n = Len(d)
    OBVIOUS
  <2>2. n > 0 /\ d[n] # Empty /\ \A i \in 1..n : Lower[d[i]] = d[i]
    BY <1>7, <2>1 DEF Listed
  <2>3. Keeps(d, n)
    BY <2>1, <2>2 DEF Keeps
  <2>4. AtOrBelow(labels, d)
          <=> m >= n /\ \A i \in 1..n : Lower[d[i]] = Lower[labels[m - n + i]]
    <3>1. AtOrBelow(labels, d) <=> EndsAlike(labels, m, d, n)
      BY <1>4, <2>3, BelowEnds
    <3> QED  BY <2>2, <3>1 DEF EndsAlike
  <2>5. ASSUME NEW i \in 1..m
        PROVE  SubSeq(lower, i, m) = d <=> i + n = m + 1 /\ \A j \in 1..n : lower[m - n + j] = d[j]
    <3>1. PICK end : end = SubSeq(lower, i, m)
      OBVIOUS
    <3>2. /\ end \in Seq(Labels) /\ Len(end) = m - i + 1
          /\ \A j \in 1..(m - i + 1) : end[j] = lower[i + j - 1]
      BY <1>5, <3>1
    <3>3. end = d => i + n = m + 1
      BY <2>1, <3>2
    <3>4. ASSUME i + n = m + 1
          PROVE  end = d <=> \A j \in 1..n : lower[m - n + j] = d[j]
      <4>1. /\ m - i + 1 = n
            /\ \A j \in 1..n : i + j - 1 = m - n + j
        BY <3>4
      <4>2. Len(end) = n /\ \A j \in 1..n : end[j] = lower[m - n + j]
        BY <3>2, <4>1
      <4>3. (\A j \in 1..n : end[j] = d[j]) => end = d
        BY <2>1, <3>2, <4>2, SeqEqual
      <4> QED  BY <4>2, <4>3
    <3> QED  BY <3>1, <3>3, <3>4
  <2>6. m >= n => m - n + 1 \in 1..m /\ (m - n + 1) + n = m + 1
    BY <2>2
  <2>7. ASSUME m >= n
        PROVE  (\A i \in 1..n : Lower[d[i]] = Lower[labels[m - n + i]])
                 <=> \A j \in 1..n : lower[m - n + j] = d[j]
    <3>1. \A j \in 1..n : m - n + j \in 1..m
      BY <2>7
    <3> QED  BY <1>5, <2>2, <3>1
  <2>8. ASSUME NEW i \in 1..m, i + n = m + 1 PROVE m >= n
    BY <2>8
  <2> QED  BY <2>4, <2>5, <2>6, <2>7, <2>8
<1>8. idx \subseteq {d \in Seq(Labels) : Listed(d)} \X Seq(Labels)
  BY InputsAssumption
<1>9. ASSUME NEW i \in 1..m, <<SubSeq(lower, i, m), category>> \in idx
      PROVE  \E entry \in idx : entry[2] = category /\ AtOrBelow(labels, entry[1])
  <2>1. PICK entry \in idx : entry = <<SubSeq(lower, i, m), category>>
    BY <1>9
  <2>2. entry[1] = SubSeq(lower, i, m) /\ entry[2] = category
    BY <2>1
  <2>3. entry[1] \in Seq(Labels) /\ Listed(entry[1])
    BY <1>8, <2>1
  <2> QED  BY <1>7, <2>2, <2>3
<1>10. ASSUME NEW entry \in idx, entry[2] = category, AtOrBelow(labels, entry[1])
       PROVE  \E i \in 1..m : <<SubSeq(lower, i, m), category>> \in idx
  <2>1. entry[1] \in Seq(Labels) /\ Listed(entry[1]) /\ entry = <<entry[1], entry[2]>>
    BY <1>8
  <2>2. PICK i \in 1..m : SubSeq(lower, i, m) = entry[1]
    BY <1>7, <1>10, <2>1
  <2> QED  BY <1>10, <2>1, <2>2
<1> QED  BY <1>1, <1>6, <1>9, <1>10

-----------------------------------------------------------------------------
(* The first rule that covers the name decides.                            *)

\* The arguments of a walk are ones the pipeline may give it.
Given == pc # "idle" => rules \in RuleLists /\ qname \in QueryNames

LEMMA GivenInductive == Spec => []Given
<1>1. Init => Given
  BY DEF Init, Given
<1>2. Given /\ [Next]_vars => Given'
  BY DEF Given, Next, Call, Turn, Return, Advance, NoRuleMatches, Consume, ReplaceIndex, vars
<1> QED  BY <1>1, <1>2, PTL DEF Spec

LEMMA MatchedIsCovered ==
    ASSUME NEW list \in RuleLists, NEW i \in DOMAIN list,
           NEW name \in QueryNames, NEW idx \in Indexes
    PROVE  Matched(list[i], name, idx) <=> Covers(list[i], name, idx)
<1>1. /\ list[i] \in Rule /\ name \in Seq(Labels)
      /\ list[i].target_type \in {"domain", "wildcard", "category"}
      /\ list[i].target_value \in Seq(Labels) /\ list[i].target_value # << >>
  <2>1. list \in Seq(Rule) /\ name \in Seq(Labels)
    BY InputsAssumption
  <2>2. list[i] \in Rule
    BY <2>1
  <2> QED  BY <2>1, <2>2 DEF Rule, TargetTypes
<1>2. CASE list[i].target_type = "domain"
  BY <1>1, <1>2, DomainRuleCovers DEF Matched, matches_target, Covers
<1>3. CASE list[i].target_type = "wildcard"
  BY <1>1, <1>3, WildcardRuleCovers DEF Matched, matches_target, Covers
<1>4. CASE list[i].target_type = "category"
  BY <1>1, <1>4, CategoryRuleCovers DEF Matched, Covers
<1> QED  BY <1>1, <1>2, <1>3, <1>4

\* A walk that saw one index has the decision of evaluate in one piece, which
\* is how the pipeline's model takes it (ruleengine.rs:49-74).
THEOREM WalkIsEvaluate ==
    Spec => [](\A idx \in seen : decision # None /\ seen = {idx} =>
                  decision = evaluate(rules, LAMBDA r : Matched(r, qname, idx)))
<1>1. IInv => \A idx \in seen : decision # None /\ seen = {idx} =>
                  decision = evaluate(rules, LAMBDA r : Matched(r, qname, idx))
  <2> SUFFICES ASSUME IInv, NEW idx \in seen, decision # None, seen = {idx}
               PROVE  decision = evaluate(rules, LAMBDA r : Matched(r, qname, idx))
    OBVIOUS
  <2> DEFINE I == {i \in 1..Len(rules) : rules[i].enabled /\ Matched(rules[i], qname, idx)}
             first == IF I # {} THEN Min(I) ELSE 0
  <2>1. evaluate(rules, LAMBDA r : Matched(r, qname, idx))
          = IF first = 0 THEN NoMatch ELSE DecisionOf(rules[first])
    BY DEF evaluate, FirstHit, SelectInSeq
  <2>2. hit \in 0..Len(rules) /\ Len(rules) \in Nat
    BY DEF IInv, TypeOK
  <2>3. \A i \in 1..(IF hit = 0 THEN Len(rules) ELSE hit - 1) : i \notin I
    BY <2>2 DEF IInv, DecisionExplained, Misses
  <2>4. CASE hit = 0
    <3>1. I = {} /\ decision = NoMatch
      BY <2>3, <2>4 DEF IInv, DecisionExplained
    <3> QED  BY <2>1, <3>1
  <2>5. CASE hit # 0
    <3>1. hit \in I /\ decision = DecisionOf(rules[hit])
      BY <2>2, <2>5 DEF IInv, DecisionExplained, Hits
    <3>2. \A i \in I : i \in Nat /\ hit =< i
      BY <2>2, <2>3, <2>5
    <3> HIDE DEF I
    <3>3. \A x \in I : (\A y \in I : x =< y) <=> x = hit
      BY <2>2, <3>1, <3>2
    <3>4. Min(I) = hit
      BY <3>1, <3>3 DEF Min
    <3> QED  BY <2>1, <2>5, <3>1, <3>4
  <2> QED  BY <2>4, <2>5
<1> QED  BY <1>1, InductiveWalk, PTL

\* While the index stays put, the decision is that of the first enabled rule
\* that covers the name, for any names, targets and lists of domains: up to case
\* and trailing dots, wildcards and categories reaching a name and everything
\* below it (ruleengine.rs:3-5, 22-47, categories.rs:22-35).
THEOREM FirstMatch == Spec => []FirstMatchWins
<1>1. IInv /\ Given => FirstMatchWins
  <2> SUFFICES ASSUME IInv, Given, NEW idx \in seen, decision # None, seen = {idx}
               PROVE  LET covering == {i \in DOMAIN rules :
                                          rules[i].enabled /\ Covers(rules[i], qname, idx)}
                      IN  /\ covering = {} => decision = NoMatch
                          /\ \A i \in covering :
                                (\A j \in covering : i <= j) => decision = DecisionOf(rules[i])
    BY DEF FirstMatchWins
  <2> DEFINE covering == {i \in DOMAIN rules :
                             rules[i].enabled /\ Covers(rules[i], qname, idx)}
  <2>1. pc # "idle" /\ rules \in RuleLists /\ qname \in QueryNames
    BY DEF IInv, TypeOK, Walk, Given
  <2>2. /\ idx \in Indexes /\ hit \in 0..Len(rules) /\ Len(rules) \in Nat
        /\ DOMAIN rules = 1..Len(rules)
    BY DEF IInv, TypeOK
  <2>3. \A i \in DOMAIN rules : Matched(rules[i], qname, idx) <=> Covers(rules[i], qname, idx)
    BY <2>1, <2>2, MatchedIsCovered
  <2>4. \A i \in 1..(IF hit = 0 THEN Len(rules) ELSE hit - 1) : i \notin covering
    BY <2>2, <2>3 DEF IInv, DecisionExplained, Misses
  <2>5. CASE hit = 0
    <3>1. decision = NoMatch /\ covering = {}
      BY <2>2, <2>4, <2>5 DEF IInv, DecisionExplained
    <3> QED  BY <3>1
  <2>6. CASE hit # 0
    <3>1. hit \in covering /\ decision = DecisionOf(rules[hit])
      BY <2>2, <2>3, <2>6 DEF IInv, DecisionExplained, Hits
    <3>2. \A i \in covering : i \in Nat /\ hit =< i
      BY <2>2, <2>4, <2>6
    <3> HIDE DEF covering
    <3>3. ASSUME NEW i \in covering, \A j \in covering : i <= j PROVE i = hit
      BY <2>2, <3>1, <3>2, <3>3
    <3> QED  BY <3>1, <3>3 DEF covering
  <2> QED  BY <2>5, <2>6
<1> QED  BY <1>1, InductiveWalk, GivenInductive, PTL

\* The two matchers agree, for every name without inner empty labels and every
\* index the ingestion may install (ruleengine.rs:22-47, categories.rs:22-35).
THEOREM MatchersAgree == Spec => []CategoryAgreesWithWildcard
<1>1. TypeOK => CategoryAgreesWithWildcard
  <2> SUFFICES ASSUME TypeOK, \A k \in DOMAIN normalize(qname) : normalize(qname)[k] # Empty,
                      NEW c
               PROVE  contains(index, qname, c)
                        <=> \E entry \in index :
                                entry[2] = c /\ matches_target(qname, "wildcard", entry[1])
    BY DEF CategoryAgreesWithWildcard
  <2>1. qname \in Seq(Labels) /\ index \in Indexes
    <3>1. << >> \in Seq(Labels)
      OBVIOUS
    <3>2. QueryNames \subseteq Seq(Labels)
      BY InputsAssumption
    <3>3. index \in Indexes /\ qname \in QueryNames \cup {<< >>}
      BY DEF TypeOK
    <3> QED  BY <3>1, <3>2, <3>3
  <2>2. PICK m \in 0..Len(qname) :
           Keeps(qname, m) /\ normalize(qname) = [i \in 1..m |-> Lower[qname[i]]]
    BY <2>1, NormalizedName
  <2>3. ASSUME NEW i \in 1..m PROVE qname[i] # Empty
    <3>1. m \in Nat /\ m =< Len(qname) /\ Len(qname) \in Nat
      BY <2>1, <2>2
    <3>2. Lower[qname[i]] # Empty /\ qname[i] \in Labels
      BY <2>1, <2>2, <3>1
    <3> QED  BY <3>2, LabelsAssumption
  <2>4. PICK labels : labels = NonEmptyLabels(qname)
    OBVIOUS
  <2>5. /\ labels \in Seq(Labels) /\ Len(labels) = m /\ m \in Nat
        /\ \A k \in 1..m : labels[k] = qname[k]
    BY <2>1, <2>2, <2>3, <2>4, FilteredLabels, FilterKeeps
  <2>6. Keeps(labels, m)
    BY <2>3, <2>5 DEF Keeps
  <2>7. ASSUME NEW d \in Seq(Labels), Listed(d)
        PROVE  AtOrBelow(labels, d) <=> matches_target(qname, "wildcard", d)
    <3>1. PICK n \in Nat : n = Len(d)
      OBVIOUS
    <3>2. /\ n > 0 /\ d # << >> /\ d[n] # Empty
          /\ \A i \in 1..n : d[i] # Star
      BY <2>7, <3>1 DEF Listed
    <3>3. Keeps(d, n)
      BY <3>1, <3>2 DEF Keeps
    <3>4. ASSUME m >= n
          PROVE  (\A i \in 1..n : Lower[d[i]] = Lower[labels[m - n + i]])
                   <=> \A i \in 1..n : Lower[d[i]] = Lower[qname[m - n + i]]
      <4>1. \A i \in 1..n : m - n + i \in 1..m
        BY <2>5, <3>4
      <4>2. \A i \in 1..n : labels[m - n + i] = qname[m - n + i]
        BY <2>5, <4>1
      <4> QED  BY <4>2
    <3>5. AtOrBelow(labels, d) <=> AtOrBelow(qname, d)
      <4>1. AtOrBelow(labels, d) <=> EndsAlike(labels, m, d, n)
        <5>1. labels \in Seq(Labels) /\ m \in Nat
          BY <2>5
        <5> QED  BY <2>6, <2>7, <3>3, <5>1, BelowEnds
      <4>2. AtOrBelow(qname, d) <=> EndsAlike(qname, m, d, n)
        <5>1. Keeps(qname, m) /\ m \in Nat
          BY <2>2, <2>5
        <5> QED  BY <2>1, <2>7, <3>3, <5>1, BelowEnds
      <4> QED  BY <3>4, <4>1, <4>2 DEF EndsAlike
    <3>6. WildcardBase(d) = d
      <4> DEFINE I == {i \in 1..n : d[i] # Star}
                 first == IF I = {} THEN 0 ELSE Min(I)
      <4>1. TrimStarDots(d) = SubSeq(d, IF first = 0 THEN n ELSE first, n)
        BY <3>1 DEF TrimStarDots, SelectInSeq
      <4>2. 1 \in I /\ \A i \in I : i \in Nat /\ 1 =< i
        BY <3>2
      <4>3. Min(I) = 1
        <5>1. \A x \in I : (\A y \in I : x =< y) <=> x = 1
          BY <4>2
        <5> QED  BY <4>2, <5>1 DEF Min
      <4>4. first = 1
        BY <4>2, <4>3
      <4>5. TrimStarDots(d) = SubSeq(d, 1, n)
        <5> HIDE DEF first
        <5> QED  BY <4>1, <4>4
      <4>6. SubSeq(d, 1, n) = d
        BY <2>7, <3>1
      <4> QED  BY <2>7, <3>2, <4>5, <4>6, BaseOfTarget
    <3>7. matches_target(qname, "wildcard", d) <=> MatchesWildcard(qname, d)
      BY DEF matches_target
    <3> QED  BY <2>1, <3>2, <3>5, <3>6, <3>7, WildcardRuleCovers
  <2>8. \A entry \in index : entry[1] \in Seq(Labels) /\ Listed(entry[1])
    BY <2>1, InputsAssumption
  <2> QED  BY <2>1, <2>4, <2>7, <2>8, CategoryRuleCovers
<1> QED  BY <1>1, TypeCorrect, PTL
=============================================================================
