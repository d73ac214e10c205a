--------------------------- MODULE ReceiversProofs ---------------------------
(***************************************************************************)
(* Proofs about the receivers.  Of the pools of transports: for any        *)
(* accounts, policies and requests, a query goes where the policy it was   *)
(* decided by sends it, on the one transport its receiver has for that.    *)
(* Of the names clients dial: whoever acts for an account dialed it.  And  *)
(* of DoH requests: what the pipeline is given is the message that is      *)
(* meant, for which percent_decode's recursion is shown to undo escapes.   *)
(***************************************************************************)
EXTENDS Receivers, FiniteSetTheorems, SequenceTheorems, WellFoundedInduction, TLAPS

-----------------------------------------------------------------------------
(* The key tells resolvers apart: it determines where a transport sends.   *)
LEMMA KeyDetermines ==
    ASSUME NEW u, NEW v, PoolKey(u) = PoolKey(v)
    PROVE  Reaches(u) = Reaches(v)
<1>1. /\ u.protocol = v.protocol /\ u.host = v.host
      /\ u.port = v.port /\ u.addr = v.addr
  BY DEF PoolKey
<1> QED  BY <1>1 DEF Reaches

-----------------------------------------------------------------------------
(* The inductive invariant: a pool's transports are those of its keys, each *)
(* transport that was ever built is in its pool, and it reaches what any    *)
(* upstream with its key asks for.                                          *)

Transport == [receiver : Receivers, key : {PoolKey(u) : u \in Upstream},
              reaches : {Reaches(u) : u \in Upstream}]

Pools ==
    /\ built \in Seq(Transport)
    /\ DOMAIN pool = Receivers
    /\ \A r \in Receivers : \A k \in DOMAIN pool[r] :
          /\ pool[r][k] \in DOMAIN built
          /\ built[pool[r][k]].receiver = r /\ built[pool[r][k]].key = k
    /\ \A i \in DOMAIN built :
          LET b == built[i]
          IN  b.key \in DOMAIN pool[b.receiver] /\ pool[b.receiver][b.key] = i
    /\ \A i \in DOMAIN built : \A u \in Upstream :
          PoolKey(u) = built[i].key => built[i].reaches = Reaches(u)

Gauged == \E r \in Receivers : gauge = Cardinality(DOMAIN pool[r])

Sent ==
    /\ DOMAIN transport = Queries /\ DOMAIN upstream = Queries /\ DOMAIN call = Queries
    /\ DOMAIN pc = Queries
    /\ \A q \in Queries :
          /\ pc[q] # "idle" => call[q].receiver \in Receivers
          /\ upstream[q] \in Upstream \cup {None}
          /\ pc[q] \in {"idle", "read", "handle", "decided"} => transport[q] = None
          /\ transport[q] # None /\ upstream[q] # None => transport[q] \in DOMAIN built

Policed ==
    \A a \in DOMAIN policies : policies[a] \in Upstream \cup {None}

IInv == Pools /\ Gauged /\ Sent /\ Policed /\ GoesWhereChosen

\* A transport for a key that has none yet.
LEMMA Building ==
    ASSUME Pools, NEW r \in Receivers, NEW u \in Upstream, GetOrBuild(r, u)
    PROVE  /\ Pools'
           /\ PoolKey(u) \in DOMAIN pool'[r]
           /\ \A i \in DOMAIN built : i \in DOMAIN built' /\ built'[i] = built[i]
<1> DEFINE key == PoolKey(u)
           new == [receiver |-> r, key |-> key, reaches |-> Reaches(u)]
           n   == Len(built) + 1
<1>1. CASE key \in DOMAIN pool[r]
  BY <1>1 DEF GetOrBuild, Pools
<1>2. CASE key \notin DOMAIN pool[r]
  <2>1. /\ built' = Append(built, new)
        /\ pool' = [pool EXCEPT ![r] = With(@, key, Len(built'))]
    BY <1>2 DEF GetOrBuild
  <2>2. new \in Transport
    BY DEF Transport
  <2>3. built \in Seq(Transport) /\ built' \in Seq(Transport) /\ Len(built') = n
    BY <2>1, <2>2 DEF Pools
  <2>4. /\ built'[n] = new /\ DOMAIN built' = DOMAIN built \cup {n} /\ n \notin DOMAIN built
        /\ \A i \in DOMAIN built : built'[i] = built[i]
    BY <2>1, <2>2, <2>3
  <2>5. /\ DOMAIN pool' = Receivers
        /\ \A s \in Receivers \ {r} : pool'[s] = pool[s]
        /\ pool'[r] = With(pool[r], key, n)
    BY <2>1, <2>3 DEF Pools
  <2>6. /\ DOMAIN pool'[r] = DOMAIN pool[r] \cup {key}
        /\ pool'[r][key] = n
        /\ \A k \in DOMAIN pool[r] : pool'[r][k] = pool[r][k]
    BY <1>2, <2>5 DEF With
  <2> HIDE DEF new, key, n
  <2>7. new.receiver = r /\ new.key = key /\ new.reaches = Reaches(u)
    BY DEF new
  <2>8. \A s \in Receivers : \A k \in DOMAIN pool'[s] :
           /\ pool'[s][k] \in DOMAIN built'
           /\ built'[pool'[s][k]].receiver = s /\ built'[pool'[s][k]].key = k
    BY <2>4, <2>5, <2>6, <2>7 DEF Pools
  <2>9. \A i \in DOMAIN built' :
           built'[i].key \in DOMAIN pool'[built'[i].receiver]
           /\ pool'[built'[i].receiver][built'[i].key] = i
    <3> SUFFICES ASSUME NEW i \in DOMAIN built'
                 PROVE  /\ built'[i].key \in DOMAIN pool'[built'[i].receiver]
                        /\ pool'[built'[i].receiver][built'[i].key] = i
      OBVIOUS
    <3>1. CASE i = n
      BY <3>1, <2>4, <2>6, <2>7
    <3>2. CASE i \in DOMAIN built
      <4>1. built'[i] = built[i] /\ built[i] \in Transport
        BY <3>2, <2>3, <2>4
      <4>2. built[i].receiver \in Receivers
        BY <4>1 DEF Transport
      <4> QED  BY <3>2, <4>1, <4>2, <2>5, <2>6 DEF Pools
    <3> QED  BY <3>1, <3>2, <2>4
  <2>10. \A i \in DOMAIN built' : \A v \in Upstream :
            PoolKey(v) = built'[i].key => built'[i].reaches = Reaches(v)
    BY <2>4, <2>7, KeyDetermines DEF Pools, key
  <2> QED  BY <2>3, <2>4, <2>5, <2>6, <2>8, <2>9, <2>10 DEF Pools, key
<1> QED  BY <1>1, <1>2

LEMMA InitialPools == Init => IInv
<1> SUFFICES ASSUME Init PROVE IInv
  OBVIOUS
<1>1. Pools
  BY DEF Init, Pools
<1>2. Gauged
  <2>1. /\ "dot" \in Receivers /\ gauge = 0
        /\ pool["dot"] = [k \in {} |-> 0]
    BY DEF Init, Receivers
  <2>2. DOMAIN pool["dot"] = {} /\ Cardinality({}) = 0
    BY <2>1, FS_EmptySet
  <2> QED  BY <2>1, <2>2 DEF Gauged
<1>3. Sent /\ GoesWhereChosen
  BY DEF Init, Sent, GoesWhereChosen
<1>4. Policed
  BY ReceiversAssumption DEF Init, Policed, Range
<1> QED  BY <1>1, <1>2, <1>3, <1>4 DEF IInv

\* An action that leaves the pools alone keeps what they are.
LEMMA PoolsUntouched ==
    ASSUME Pools, Gauged, UNCHANGED pools
    PROVE  Pools' /\ Gauged'
BY DEF Pools, Gauged, pools

\* A query is sent: the only action that touches pools.
LEMMA Forwarding ==
    ASSUME IInv, NEW q \in Queries, Forward(q)
    PROVE  IInv'
<1> DEFINE r == call[q].receiver
           u == upstream[q]
<1> USE DEF IInv
<1>1. /\ pc[q] = "decided" /\ pc' = [pc EXCEPT ![q] = "sent"]
      /\ UNCHANGED <<policies, refreshes, call, account, query, upstream, status>>
      /\ r \in Receivers /\ u \in Upstream \cup {None} /\ transport[q] = None
  BY DEF Forward, Sent
<1>2. Policed'
  BY <1>1 DEF Policed
<1>3. CASE u = None
  <2>1. transport' = [transport EXCEPT ![q] = Fallback] /\ UNCHANGED pools
    BY <1>3 DEF Forward
  <2>2. Pools' /\ Gauged' /\ built' = built
    BY <2>1, PoolsUntouched DEF pools
  <2>3. Sent'
    BY <1>1, <1>3, <2>1, <2>2 DEF Sent
  <2>4. GoesWhereChosen'
    BY <1>1, <1>3, <2>1, <2>2 DEF GoesWhereChosen, Sent
  <2> QED  BY <1>2, <2>2, <2>3, <2>4
<1>4. CASE u # None
  <2>1. /\ GetOrBuild(r, u) /\ u \in Upstream
        /\ transport' = [transport EXCEPT ![q] = pool'[r][PoolKey(u)]]
        /\ gauge' = Cardinality(DOMAIN pool'[r])
    BY <1>1, <1>4 DEF Forward
  <2>2. /\ Pools' /\ PoolKey(u) \in DOMAIN pool'[r]
        /\ \A i \in DOMAIN built : i \in DOMAIN built' /\ built'[i] = built[i]
    BY <1>1, <2>1, Building
  <2>3. Gauged'
    BY <1>1, <2>1 DEF Gauged
  <2> DEFINE t == pool'[r][PoolKey(u)]
  <2>4. /\ t \in DOMAIN built' /\ built'[t].receiver = r
        /\ built'[t].reaches = Reaches(u)
    BY <1>1, <2>1, <2>2 DEF Pools
  <2>5. transport'[q] = t /\ \A p \in Queries \ {q} : transport'[p] = transport[p]
    BY <2>1 DEF Sent
  <2> HIDE DEF t
  <2>6. Sent'
    <3>1. /\ DOMAIN transport' = Queries /\ DOMAIN upstream' = Queries
          /\ DOMAIN call' = Queries /\ DOMAIN pc' = Queries
      BY <1>1, <2>1 DEF Sent
    <3>2. ASSUME NEW p \in Queries
          PROVE  /\ pc'[p] # "idle" => call'[p].receiver \in Receivers
                 /\ upstream'[p] \in Upstream \cup {None}
                 /\ pc'[p] \in {"idle", "read", "handle", "decided"} => transport'[p] = None
                 /\ transport'[p] # None /\ upstream'[p] # None
                      => transport'[p] \in DOMAIN built'
      BY <1>1, <2>2, <2>4, <2>5 DEF Sent
    <3> QED  BY <3>1, <3>2 DEF Sent
  <2>7. GoesWhereChosen'
    <3> SUFFICES ASSUME NEW p \in Queries, transport'[p] # None, upstream[p] # None \/ p = q
                 PROVE  /\ upstream'[p] # None
                        /\ built'[transport'[p]].receiver = call'[p].receiver
                        /\ built'[transport'[p]].reaches = Reaches(upstream'[p])
      BY <1>1, <1>4, <2>5 DEF GoesWhereChosen
    <3>1. CASE p = q
      BY <3>1, <1>1, <1>4, <2>4, <2>5
    <3>2. CASE p # q
      BY <3>2, <1>1, <2>2, <2>5 DEF Sent, GoesWhereChosen
    <3> QED  BY <3>1, <3>2
  <2> QED  BY <1>2, <2>2, <2>3, <2>6, <2>7
<1> QED  BY <1>3, <1>4

LEMMA Inductive == IInv /\ [Next]_vars => IInv'
<1> SUFFICES ASSUME IInv, [Next]_vars PROVE IInv'
  OBVIOUS
<1> USE DEF IInv
<1>1. CASE Refresh
  <2>1. /\ policies' \in PolicyMaps /\ UNCHANGED pools
        /\ UNCHANGED <<pc, call, upstream, transport>>
    BY <1>1 DEF Refresh
  <2>2. Policed'
    BY <2>1, ReceiversAssumption DEF Policed, Range
  <2> QED  BY <2>1, <2>2, PoolsUntouched DEF Sent, GoesWhereChosen, pools
<1>2. ASSUME NEW q \in Queries, NEW c \in Calls, Ask(q, c) PROVE IInv'
  <2>1. c.receiver \in Receivers
    BY ReceiversAssumption DEF Call, Receivers
  <2>2. /\ pc[q] = "idle" /\ pc' = [pc EXCEPT ![q] = "read"]
        /\ call' = [call EXCEPT ![q] = c]
        /\ UNCHANGED <<policies, upstream, transport>> /\ UNCHANGED pools
    BY <1>2 DEF Ask
  <2>3. Sent'
    BY <2>1, <2>2 DEF Sent, pools
  <2>4. GoesWhereChosen'
    BY <2>2 DEF Sent, GoesWhereChosen, pools
  <2> QED  BY <2>2, <2>3, <2>4, PoolsUntouched DEF Policed
<1>3. ASSUME NEW q \in Queries,
             \/ Read(q) \/ NotForwarded(q) \/ Respond(q)
             \/ Handle(q) /\ query[q] \notin Named
      PROVE  IInv'
  <2>1. /\ pc[q] # "idle"
        /\ \E after \in {"handle", "done"} :
              /\ pc' = [pc EXCEPT ![q] = after]
              /\ after = "handle" => pc[q] = "read"
        /\ UNCHANGED <<policies, call, upstream, transport>> /\ UNCHANGED pools
    BY <1>3 DEF Read, NotForwarded, Respond, Handle, Failed, End
  <2>2. Sent'
    BY <2>1 DEF Sent, pools
  <2>3. GoesWhereChosen'
    BY <2>1 DEF GoesWhereChosen, pools
  <2> QED  BY <2>1, <2>2, <2>3, PoolsUntouched DEF Policed
<1>4. ASSUME NEW q \in Queries, Handle(q), query[q] \in Named PROVE IInv'
  <2>1. /\ pc[q] = "handle" /\ pc' = [pc EXCEPT ![q] = "decided"]
        /\ upstream' = [upstream EXCEPT ![q] = UpstreamOf(account[q])]
        /\ UNCHANGED <<policies, call, transport>> /\ UNCHANGED pools
    BY <1>4 DEF Handle
  <2>2. UpstreamOf(account[q]) \in Upstream \cup {None}
    BY DEF UpstreamOf, Policed
  <2>3. Sent'
    BY <2>1, <2>2 DEF Sent, pools
  <2>4. GoesWhereChosen'
    BY <2>1 DEF Sent, GoesWhereChosen, pools
  <2> QED  BY <2>1, <2>3, <2>4, PoolsUntouched DEF Policed
<1>5. CASE UNCHANGED vars
  BY <1>5 DEF vars, pools, Pools, Gauged, Sent, Policed, GoesWhereChosen
<1> QED  BY <1>1, <1>2, <1>3, <1>4, <1>5, Forwarding DEF Next

LEMMA Invariance == Spec => []IInv
BY InitialPools, Inductive, PTL DEF Spec

-----------------------------------------------------------------------------
\* However many queries of however many accounts meet in a pool, each is sent
\* to the resolver of the policy that decided it, on a transport of its own
\* receiver (upstream.rs:35-50).
THEOREM SentWhereChosen == Spec => []GoesWhereChosen
<1>1. IInv => GoesWhereChosen
  BY DEF IInv
<1> QED  BY <1>1, Invariance, PTL

\* A receiver never builds a second transport for the same protocol, host, port
\* and addr, and the gauge is the size of the pool that was asked last
\* (upstream.rs:4-5, 43-49).
THEOREM PoolReuses == Spec => []OneTransportEach
<1>1. IInv => OneTransportEach
  BY DEF IInv, Pools, Gauged, OneTransportEach
<1> QED  BY <1>1, Invariance, PTL

-----------------------------------------------------------------------------
(* Names as they are dialed.                                               *)

\* A non-empty set of positions has a first one.
LEMMA FirstPosition ==
    ASSUME NEW I \in SUBSET Nat, I # {}
    PROVE  \E x \in I : \A y \in I : x =< y
<1> DEFINE R == {ss \in Nat \X Nat : ss[1] < ss[2]}
<1>1. IsWellFoundedOn(R, Nat)
  BY NatLessThanWellFounded, Zenon DEF OpToRel
<1> HIDE DEF R
<1>2. PICK x \in I : \A y \in I : <<y, x>> \notin R
  BY <1>1, WFMin
<1>3. \A y \in I : ~(y < x)
  BY <1>2 DEF R
<1> QED  BY <1>3

\* And a last one, if the positions are those of a sequence.
LEMMA MaxIsLast ==
    ASSUME NEW n \in Nat, NEW I \in SUBSET (1..n), I # {}
    PROVE  Max(I) \in I /\ \A y \in I : Max(I) >= y
<1> DEFINE Behind == {n - i : i \in I}
<1>1. Behind \in SUBSET Nat /\ Behind # {}
  <2>1. ASSUME NEW i \in I PROVE n - i \in Nat
    OBVIOUS
  <2>2. PICK i : i \in I
    OBVIOUS
  <2> QED  BY <2>1, <2>2
<1> HIDE DEF Behind
<1>2. PICK d \in Behind : \A e \in Behind : d =< e
  BY <1>1, FirstPosition
<1>3. PICK x \in I : d = n - x
  BY <1>2 DEF Behind
<1>4. \A y \in I : x >= y
  BY <1>2, <1>3 DEF Behind
<1> QED  BY <1>3, <1>4 DEF Max

\* A name without its trailing dots is a name.
LEMMA TrimmedIsName ==
    ASSUME NEW name \in Seq(Labels)
    PROVE  TrimEndDots(name) \in Seq(Labels)
<1> DEFINE I == {i \in 1..Len(name) : name[i] # Empty}
           k == IF I # {} THEN Max(I) ELSE 0
<1>1. TrimEndDots(name) = SubSeq(name, 1, k)
  BY DEF TrimEndDots, SelectLastInSeq
<1>2. k \in 0..Len(name)
  <2>1. I \in SUBSET (1..Len(name)) /\ Len(name) \in Nat
    OBVIOUS
  <2> HIDE DEF I
  <2>2. I # {} => Max(I) \in 1..Len(name)
    BY <2>1, MaxIsLast
  <2> QED  BY <2>1, <2>2
<1> HIDE DEF k
<1> QED  BY <1>1, <1>2

LEMMA ReversedIsName ==
    ASSUME NEW name \in Seq(Labels)
    PROVE  Reverse(name) \in Seq(Labels)
BY DEF Reverse

LEMMA BaseIsName == TrimDots(Domain) \in Seq(Labels)
BY ReceiversAssumption, TrimmedIsName, ReversedIsName DEF TrimDots

\* A suffix is what its sequence ends with.
LEMMA SuffixElements ==
    ASSUME NEW host, NEW base, host \in Seq(Labels), base \in Seq(Labels)
    PROVE  IsSuffix(base, host)
             <=> /\ Len(base) =< Len(host)
                 /\ \A i \in 1..Len(base) : base[i] = host[Len(host) - Len(base) + i]
<1>1. PICK m \in Nat, n \in Nat : m = Len(base) /\ n = Len(host)
  OBVIOUS
<1>2. /\ Reverse(base) = [i \in 1..m |-> base[(m - i) + 1]]
      /\ Reverse(host) = [i \in 1..n |-> host[(n - i) + 1]]
  BY <1>1 DEF Reverse
<1>3. Reverse(base) \in Seq(Labels) /\ Reverse(host) \in Seq(Labels)
  BY ReversedIsName
<1>4. Len(Reverse(base)) = m /\ Len(Reverse(host)) = n
  BY <1>2, <1>3
<1>5. CASE ~(m =< n)
  BY <1>1, <1>4, <1>5 DEF IsSuffix, IsPrefix
<1>6. CASE m =< n
  <2>1. IsSuffix(base, host) <=>
           \A i \in 1..m : Reverse(base)[i] = Reverse(host)[i]
    <3>1. /\ SubSeq(Reverse(base), 1, m) = [i \in 1..m |-> Reverse(base)[i]]
          /\ SubSeq(Reverse(host), 1, m) = [i \in 1..m |-> Reverse(host)[i]]
      BY <1>3, <1>4, <1>6
    <3> QED  BY <1>4, <1>6, <3>1 DEF IsSuffix, IsPrefix
  <2>2. (\A i \in 1..m : Reverse(base)[i] = Reverse(host)[i])
          <=> \A i \in 1..m : base[(m - i) + 1] = host[(n - i) + 1]
    <3>1. \A i \in 1..m : i \in 1..n
      BY <1>6
    <3>2. \A i \in 1..m : /\ Reverse(base)[i] = base[(m - i) + 1]
                          /\ Reverse(host)[i] = host[(n - i) + 1]
      BY <1>2, <3>1, Zenon
    <3>3. ASSUME NEW i \in 1..m
          PROVE  Reverse(base)[i] = Reverse(host)[i]
                   <=> base[(m - i) + 1] = host[(n - i) + 1]
      <4>1. /\ Reverse(base)[i] = base[(m - i) + 1]
            /\ Reverse(host)[i] = host[(n - i) + 1]
        BY <3>2
      <4> QED  BY <4>1, Zenon
    <3> QED  BY <3>3, Zenon
  <2>3. (\A i \in 1..m : base[(m - i) + 1] = host[(n - i) + 1])
          <=> \A i \in 1..m : base[i] = host[n - m + i]
    <3>1. ASSUME \A i \in 1..m : base[(m - i) + 1] = host[(n - i) + 1], NEW i \in 1..m
          PROVE  base[i] = host[n - m + i]
      <4>1. /\ (m - i) + 1 \in 1..m /\ (m - ((m - i) + 1)) + 1 = i
            /\ (n - ((m - i) + 1)) + 1 = n - m + i
        OBVIOUS
      <4> QED  BY <3>1, <4>1
    <3>2. ASSUME \A i \in 1..m : base[i] = host[n - m + i], NEW i \in 1..m
          PROVE  base[(m - i) + 1] = host[(n - i) + 1]
      <4>1. (m - i) + 1 \in 1..m /\ n - m + ((m - i) + 1) = (n - i) + 1
        OBVIOUS
      <4> QED  BY <3>2, <4>1
    <3> QED  BY <3>1, <3>2
  <2> QED  BY <1>1, <1>6, <2>1, <2>2, <2>3
<1> QED  BY <1>5, <1>6

\* One label, a dot and the base: that is what the code's checks come to.
LEMMA OneLabelBelow ==
    ASSUME NEW host, NEW base, host \in Seq(Labels), base \in Seq(Labels), NEW a
    PROVE  host = <<a>> \o base
             <=> EndsWithDot(host, base) /\ Len(host) = Len(base) + 1 /\ host[1] = a
<1>1. PICK m \in Nat, n \in Nat : m = Len(base) /\ n = Len(host)
  OBVIOUS
<1>2. PICK joined : joined = <<a>> \o base
  OBVIOUS
<1>3. /\ joined \in Seq(Labels \cup {a}) /\ Len(joined) = m + 1 /\ joined[1] = a
      /\ \A i \in 1..m : joined[i + 1] = base[i]
  <2>1. <<a>> \in Seq(Labels \cup {a}) /\ base \in Seq(Labels \cup {a})
        /\ Len(<<a>>) = 1 /\ <<a>>[1] = a
    OBVIOUS
  <2> QED  BY <1>1, <1>2, <2>1, ConcatProperties
<1>4. host \in Seq(Labels \cup {a})
  OBVIOUS
<1>5. host = joined <=> n = m + 1 /\ host[1] = a /\ \A i \in 1..m : base[i] = host[i + 1]
  <2>1. ASSUME n = m + 1, host[1] = a, \A i \in 1..m : base[i] = host[i + 1]
        PROVE  host = joined
    <3>1. ASSUME NEW i \in 1..n PROVE host[i] = joined[i]
      <4>1. CASE i = 1
        BY <1>3, <2>1, <4>1
      <4>2. CASE i # 1
        <5>1. i - 1 \in 1..m /\ (i - 1) + 1 = i
          BY <2>1, <4>2
        <5> QED  BY <1>3, <2>1, <5>1
      <4> QED  BY <4>1, <4>2
    <3> QED  BY <1>1, <1>3, <1>4, <2>1, <3>1, SeqEqual
  <2> QED  BY <1>1, <1>3, <2>1
<1>6. ASSUME n = m + 1
      PROVE  EndsWithDot(host, base) <=> \A i \in 1..m : base[i] = host[i + 1]
  <2>1. \A i \in 1..m : n - m + i = i + 1
    BY <1>6
  <2>2. IsSuffix(base, host) <=>
          m =< n /\ \A i \in 1..m : base[i] = host[n - m + i]
    BY <1>1, SuffixElements
  <2>3. IsSuffix(base, host) <=> \A i \in 1..m : base[i] = host[i + 1]
    BY <1>6, <2>1, <2>2
  <2> QED  BY <1>1, <1>6, <2>3 DEF EndsWithDot
<1> QED  BY <1>1, <1>2, <1>5, <1>6

\* account_from_sni finds exactly the label that was dialed below the domain.
LEMMA FoundIsDialed ==
    ASSUME NEW sni \in Seq(Labels), TrimDots(Domain) # << >>, NEW a \in Labels \ {Empty}
    PROVE  account_from_sni(sni, Domain) = a <=> Dials(sni, a)
<1>1. PICK host, base : host = TrimEndDots(sni) /\ base = TrimDots(Domain)
  OBVIOUS
<1>2. host \in Seq(Labels) /\ base \in Seq(Labels) /\ base # << >>
  BY <1>1, TrimmedIsName, BaseIsName
<1>3. PICK labels : labels = SubSeq(host, 1, Len(host) - Len(base))
  OBVIOUS
<1>4. account_from_sni(sni, Domain) =
        IF /\ base # << >> /\ host # << >> /\ host # base
           /\ EndsWithDot(host, base) /\ Len(labels) = 1 /\ labels[1] # Empty
        THEN labels[1] ELSE None
  BY <1>1, <1>3 DEF account_from_sni
<1>5. ASSUME EndsWithDot(host, base)
      PROVE  /\ Len(labels) = 1 <=> Len(host) = Len(base) + 1
             /\ Len(labels) = 1 => labels[1] = host[1]
             /\ host # << >> /\ host # base
  <2>1. /\ Len(base) \in Nat /\ Len(host) \in Nat /\ Len(host) > Len(base)
        /\ Len(host) - Len(base) \in 1..Len(host)
    BY <1>2, <1>5 DEF EndsWithDot
  <2> QED  BY <1>2, <1>3, <2>1, SubSeqProperties
<1>6. a # None
  BY ReceiversAssumption
<1>7. Dials(sni, a) <=> EndsWithDot(host, base) /\ Len(host) = Len(base) + 1 /\ host[1] = a
  BY <1>1, <1>2, OneLabelBelow DEF Dials
<1> QED  BY <1>2, <1>4, <1>5, <1>6, <1>7

\* It finds a label, if it finds anything.
LEMMA FoundIsLabel ==
    ASSUME NEW sni \in Seq(Labels)
    PROVE  account_from_sni(sni, Domain) \in (Labels \ {Empty}) \cup {None}
<1>1. PICK host, base : host = TrimEndDots(sni) /\ base = TrimDots(Domain)
  OBVIOUS
<1>2. host \in Seq(Labels) /\ base \in Seq(Labels)
  BY <1>1, TrimmedIsName, BaseIsName
<1>3. PICK labels : labels = SubSeq(host, 1, Len(host) - Len(base))
  OBVIOUS
<1>4. account_from_sni(sni, Domain) =
        IF /\ base # << >> /\ host # << >> /\ host # base
           /\ EndsWithDot(host, base) /\ Len(labels) = 1 /\ labels[1] # Empty
        THEN labels[1] ELSE None
  BY <1>1, <1>3 DEF account_from_sni
<1>5. EndsWithDot(host, base) => labels \in Seq(Labels)
  BY <1>2, <1>3 DEF EndsWithDot
<1> QED  BY <1>4, <1>5

-----------------------------------------------------------------------------
(* A query's account is what account_for made of the name it came with.    *)

Accounted ==
    /\ DOMAIN account = Queries /\ DOMAIN call = Queries
    /\ \A q \in Queries :
          account[q] # None =>
              /\ account[q] = account_for(call[q].sni)
              /\ call[q].sni \in Seq(Labels) \cup {None}

LEMMA AccountedInductive == Spec => []Accounted
<1>1. Init => Accounted
  BY DEF Init, Accounted
<1>2. Accounted /\ [Next]_vars => Accounted'
  <2> SUFFICES ASSUME Accounted, [Next]_vars PROVE Accounted'
    OBVIOUS
  <2>1. ASSUME NEW q \in Queries, NEW c \in Calls, Ask(q, c) PROVE Accounted'
    <3>1. c.sni \in Seq(Labels) \cup {None}
      BY ReceiversAssumption DEF Call
    <3>2. /\ call' = [call EXCEPT ![q] = c]
          /\ account' = [account EXCEPT ![q] = account_for(c.sni)]
      BY <2>1 DEF Ask
    <3> QED  BY <3>1, <3>2 DEF Accounted
  <2>2. ASSUME UNCHANGED <<call, account>> PROVE Accounted'
    BY <2>2 DEF Accounted
  <2>3. ASSUME NEW q \in Queries,
               Read(q) \/ Handle(q) \/ NotForwarded(q) \/ Forward(q) \/ Respond(q)
        PROVE  Accounted'
    BY <2>2, <2>3 DEF Read, Handle, NotForwarded, Forward, Respond
  <2>4. CASE Refresh
    BY <2>2, <2>4 DEF Refresh
  <2>5. CASE UNCHANGED vars
    BY <2>2, <2>5 DEF vars
  <2> QED  BY <2>1, <2>3, <2>4, <2>5 DEF Next
<1> QED  BY <1>1, <1>2, PTL DEF Spec

\* Whatever names clients dial and however many dots stand around them and the
\* domain, nobody acts for an account without dialing it, and whoever dials it
\* without a trailing dot acts for no other (identity.rs:11-31, receiver/dot.rs and doh.rs,
\* account_for).  The premise is that there is a domain: with an empty one,
\* account_from_sni finds no account.
THEOREM DialedTheorem == TrimDots(Domain) # << >> => (Spec => []AccountIsDialed)
<1> SUFFICES ASSUME TrimDots(Domain) # << >> PROVE Spec => []AccountIsDialed
  OBVIOUS
<1>1. Accounted => AccountIsDialed
  <2> SUFFICES ASSUME Accounted, NEW q \in Queries, account[q] # None
               PROVE  /\ \A a \in Labels \ {Empty} :
                            /\ call[q].sni # None /\ ~TrailingDot(call[q].sni)
                            /\ Dials(call[q].sni, a)
                            => account[q] = a
                      /\ account[q] # FallbackAccount =>
                            call[q].sni # None /\ Dials(call[q].sni, account[q])
    BY DEF AccountIsDialed
  <2>1. PICK sni : sni = call[q].sni
    OBVIOUS
  <2>2. account[q] = account_for(sni) /\ sni \in Seq(Labels) \cup {None}
    BY <2>1 DEF Accounted
  <2>3. ASSUME NEW a \in Labels \ {Empty}, sni # None, Dials(sni, a)
        PROVE  account[q] = a
    <3>1. a # None /\ account_from_sni(sni, Domain) = a
      BY <2>2, <2>3, FoundIsDialed, ReceiversAssumption
    <3> QED  BY <2>2, <2>3, <3>1 DEF account_for
  <2>4. ASSUME account[q] # FallbackAccount
        PROVE  sni # None /\ Dials(sni, account[q])
    <3>1. sni # None /\ account[q] = account_from_sni(sni, Domain)
      BY <2>2, <2>4 DEF account_for
    <3>2. account[q] \in Labels \ {Empty}
      BY <2>2, <3>1, FoundIsLabel
    <3> QED  BY <2>2, <3>1, <3>2, FoundIsDialed
  <2> QED  BY <2>1, <2>3, <2>4
<1> QED  BY <1>1, AccountedInductive, PTL

-----------------------------------------------------------------------------
(* percent_decode: what its recursion computes.                            *)

\* A value at each place up to n, made of one further on, or of none: there are
\* such values.
Solves(f, k, n, V, next, step, base) ==
    /\ f \in [k..n -> V]
    /\ \A i \in k..n : f[i] = IF next[i] =< n THEN step[<<i, f[next[i]]>>] ELSE base[i]

LEMMA Descend ==
    ASSUME NEW n \in Nat, NEW V, NEW next \in [0..n -> Nat], \A i \in 0..n : next[i] > i,
           NEW step \in [(0..n) \X V -> V], NEW base \in [0..n -> V]
    PROVE  \E f : Solves(f, 0, n, V, next, step, base)
<1> DEFINE Solved(d) == \E f : Solves(f, n - d, n, V, next, step, base)
           Bad == {d \in 0..n : ~Solved(d)}
<1> HIDE DEF Solved
<1>1. ASSUME NEW d \in Bad, \A e \in Bad : d =< e PROVE FALSE
  <2>1. PICK k \in 0..n : k = n - d /\ d = n - k
    OBVIOUS
  <2>2. \E f : Solves(f, k + 1, n, V, next, step, base)
    <3>1. CASE k = n
      <4>1. (k + 1)..n = {}
        BY <3>1
      <4>2. [i \in {} |-> base[i]] \in [{} -> V]
        OBVIOUS
      <4> QED  BY <4>1, <4>2 DEF Solves
    <3>2. CASE k < n
      <4>1. d - 1 \in 0..n /\ n - (d - 1) = k + 1 /\ ~(d =< d - 1)
        BY <2>1, <3>2
      <4>2. Solved(d - 1)
        BY <1>1, <4>1
      <4> QED  BY <4>1, <4>2 DEF Solved
    <3> QED  BY <3>1, <3>2
  <2>3. PICK f : /\ f \in [(k + 1)..n -> V]
                 /\ \A i \in (k + 1)..n :
                       f[i] = IF next[i] =< n THEN step[<<i, f[next[i]]>>] ELSE base[i]
    BY <2>2 DEF Solves
  <2>4. PICK v : v = IF next[k] =< n THEN step[<<k, f[next[k]]>>] ELSE base[k]
    OBVIOUS
  <2>5. v \in V
    <3>1. next[k] =< n => next[k] \in (k + 1)..n
      BY <2>1
    <3> QED  BY <2>1, <2>3, <2>4, <3>1
  <2>6. PICK g : g = [i \in k..n |-> IF i = k THEN v ELSE f[i]]
    OBVIOUS
  <2>7. g \in [k..n -> V] /\ g[k] = v /\ \A i \in (k + 1)..n : g[i] = f[i]
    <3>1. /\ k \in k..n /\ \A i \in (k + 1)..n : i \in k..n /\ i # k
          /\ \A i \in k..n : i = k \/ i \in (k + 1)..n
      BY <2>1
    <3>2. \A i \in k..n : (IF i = k THEN v ELSE f[i]) \in V
      BY <2>3, <2>5, <3>1
    <3> QED  BY <2>6, <3>1, <3>2
  <2>8. ASSUME NEW i \in k..n
        PROVE  g[i] = IF next[i] =< n THEN step[<<i, g[next[i]]>>] ELSE base[i]
    <3>1. next[i] =< n => next[i] \in (k + 1)..n
      BY <2>1, <2>8
    <3>2. next[i] =< n => g[next[i]] = f[next[i]]
      BY <2>7, <3>1
    <3>3. CASE i = k
      BY <2>4, <2>7, <3>2, <3>3
    <3>4. CASE i # k
      <4>1. i \in (k + 1)..n
        BY <2>1, <3>4
      <4>2. g[i] = f[i] /\ f[i] = IF next[i] =< n THEN step[<<i, f[next[i]]>>] ELSE base[i]
        BY <2>3, <2>7, <4>1
      <4> QED  BY <3>2, <4>2
    <3> QED  BY <3>3, <3>4
  <2>9. Solves(g, k, n, V, next, step, base)
    BY <2>7, <2>8 DEF Solves
  <2> QED  BY <2>1, <2>9 DEF Solved
<1>2. Bad \in SUBSET Nat
  OBVIOUS
<1> HIDE DEF Bad
<1>3. Bad = {}
  BY <1>1, <1>2, FirstPosition
<1>4. Solved(n)
  BY <1>3 DEF Bad
<1> QED  BY <1>4 DEF Solved

\* Is there an escape at position i?
Escape(text, i) ==
    /\ text[i] = Percent /\ i + 2 =< Len(text)
    /\ HexPair(text[i + 1], text[i + 2]) # None

Octet == 0..255

\* g[i] is what the text from i on decodes to.
IsDecoding(text, g) ==
    /\ g \in [1..(Len(text) + 1) -> Seq(Octet)]
    /\ g[Len(text) + 1] = << >>
    /\ \A i \in 1..Len(text) :
          g[i] = IF Escape(text, i) THEN <<HexPair(text[i + 1], text[i + 2])>> \o g[i + 3]
                 ELSE <<text[i]>> \o g[i + 1]

\* A pair of hex digits is an octet.
LEMMA HexPairIsOctet ==
    ASSUME NEW a \in ASCII, NEW b \in ASCII, HexPair(a, b) # None
    PROVE  HexPair(a, b) \in Octet
<1>1. \A c \in ASCII : HexDigit[c] = None \/ HexDigit[c] \in 0..15
  BY DEF HexDigit, ASCII
<1>2. PICK x, y : x = HexDigit[a] /\ y = HexDigit[b]
  OBVIOUS
<1>3. (x = None \/ x \in 0..15) /\ (y = None \/ y \in 0..15)
  BY <1>1, <1>2
<1>4. HexPair(a, b) = IF y = None THEN None ELSE IF a = Plus THEN y
                      ELSE IF x = None THEN None ELSE 16 * x + y
  BY <1>2 DEF HexPair
<1> QED  BY <1>3, <1>4 DEF Octet

\* Sets that a place is in if all places behind it are.
LEMMA FromTheEnd ==
    ASSUME NEW n \in Nat, NEW G,
           \A i \in 1..n : (\A j \in (i + 1)..n : j \in G) => i \in G
    PROVE  1..n \subseteq G
<1> SUFFICES ASSUME (1..n) \ G # {} PROVE FALSE
  OBVIOUS
<1>1. PICK I : I = (1..n) \ G
  OBVIOUS
<1>2. I \in SUBSET (1..n) /\ I # {}
  BY <1>1
<1>3. Max(I) \in I /\ \A j \in I : Max(I) >= j
  BY <1>2, MaxIsLast
<1>4. PICK i \in 1..n : i = Max(I)
  BY <1>2, <1>3
<1>5. \A j \in (i + 1)..n : j \in 1..n /\ ~(i >= j)
  BY <1>4
<1>6. \A j \in (i + 1)..n : j \in G
  BY <1>1, <1>3, <1>4, <1>5
<1> QED  BY <1>1, <1>3, <1>4, <1>6

\* The recursion of percent_decode is well defined.
LEMMA Decodes ==
    ASSUME NEW text, text \in Seq(ASCII)
    PROVE  \E g : IsDecoding(text, g) /\ percent_decode(text) = g[1]
<1>1. PICK n \in Nat : n = Len(text)
  OBVIOUS
<1> DEFINE Body(g, i) == IF i > n THEN << >>
                         ELSE IF Escape(text, i)
                              THEN <<HexPair(text[i + 1], text[i + 2])>> \o g[i + 3]
                              ELSE <<text[i]>> \o g[i + 1]
           Is(g) == g = [i \in 1..(n + 1) |-> Body(g, i)]
<1>2. percent_decode(text) = (CHOOSE g : Is(g))[1]
  <2>1. \A i : i + 3 - 1 = i + 2
    OBVIOUS
  <2> QED  BY <1>1 DEF percent_decode, DecodeWithRoom, Escape
<1>3. ASSUME NEW i \in 1..n
      PROVE  /\ text[i] \in Octet
             /\ Escape(text, i) => /\ HexPair(text[i + 1], text[i + 2]) \in Octet
                                  /\ i + 3 \in 1..(n + 1)
             /\ i + 1 \in 1..(n + 1)
  <2>1. \A k \in 1..n : text[k] \in ASCII
    BY <1>1
  <2>2. \A c \in ASCII : c \in Octet
    BY DEF ASCII, Octet
  <2>3. CASE Escape(text, i)
    <3>1. i + 1 \in 1..n /\ i + 2 \in 1..n /\ i + 3 \in 1..(n + 1)
      BY <1>1, <2>3 DEF Escape
    <3>2. HexPair(text[i + 1], text[i + 2]) # None
      BY <2>3 DEF Escape
    <3> QED  BY <2>1, <2>2, <3>1, <3>2, HexPairIsOctet
  <2> QED  BY <2>1, <2>2, <2>3
<1> DEFINE V == Seq(Octet)
           next == [j \in 0..n |-> IF j = n THEN n + 1
                                   ELSE IF Escape(text, j + 1) THEN j + 3 ELSE j + 1]
           first(j) == IF Escape(text, j + 1) THEN <<HexPair(text[j + 2], text[j + 3])>>
                       ELSE <<text[j + 1]>>
           step == [p \in (0..n) \X V |-> IF p[1] = n THEN << >> ELSE first(p[1]) \o p[2]]
           base == [j \in 0..n |-> << >>]
<1>4. ASSUME NEW j \in 0..n, j # n
      PROVE  first(j) \in V /\ next[j] \in (j + 1)..n
  <2>1. PICK i \in 1..n : i = j + 1
    BY <1>4
  <2>2. j + 1 = i /\ j + 2 = i + 1 /\ j + 3 = i + 2
    BY <2>1
  <2>3. first(j) \in V
    BY <1>3, <2>2
  <2> QED  BY <1>3, <1>4, <2>2, <2>3
<1> HIDE DEF first
<1>5. next \in [0..n -> Nat] /\ \A j \in 0..n : next[j] > j
  BY <1>4
<1>6. step \in [(0..n) \X V -> V] /\ base \in [0..n -> V]
  <2>1. << >> \in V
    OBVIOUS
  <2>2. ASSUME NEW j \in 0..n, NEW v \in V, j # n PROVE first(j) \o v \in V
    BY <1>4, <2>2
  <2> QED  BY <2>1, <2>2
<1> HIDE DEF next, V
<1>7. PICK F : Solves(F, 0, n, V, next, step, base)
  BY <1>5, <1>6, Descend
<1>8. F \in [0..n -> V] /\ \A j \in 0..n : F[j] = IF j = n THEN << >> ELSE first(j) \o F[next[j]]
  <2>1. F \in [0..n -> V]
    BY <1>7 DEF Solves
  <2>2. ASSUME NEW j \in 0..n, j = n PROVE F[j] = << >>
    <3>1. ~(next[j] =< n)
      BY <2>2 DEF next
    <3>2. F[j] = base[j]
      BY <1>7, <3>1 DEF Solves
    <3> QED  BY <3>2
  <2>3. ASSUME NEW j \in 0..n, j # n PROVE F[j] = first(j) \o F[next[j]]
    <3>1. next[j] \in 0..n /\ next[j] =< n
      BY <1>4, <2>3
    <3>2. F[j] = step[<<j, F[next[j]]>>]
      BY <1>7, <3>1 DEF Solves
    <3>3. <<j, F[next[j]]>> \in (0..n) \X V
      BY <2>1, <3>1
    <3> QED  BY <2>3, <3>2, <3>3
  <2> QED  BY <2>1, <2>2, <2>3
<1>9. Is([i \in 1..(n + 1) |-> F[i - 1]])
  <2>1. PICK f : f = [i \in 1..(n + 1) |-> F[i - 1]]
    OBVIOUS
  <2>2. \A j \in 0..n : f[j + 1] = F[j]
    BY <2>1
  <2>3. ASSUME NEW i \in 1..(n + 1) PROVE f[i] = Body(f, i)
    <3>1. PICK j \in 0..n : j = i - 1 /\ i = j + 1
      OBVIOUS
    <3>2. CASE j = n
      <4>1. f[i] = F[j] /\ F[j] = << >> /\ i > n
        BY <1>8, <2>2, <3>1, <3>2
      <4> QED  BY <4>1
    <3>3. CASE j # n
      <4>1. f[i] = first(j) \o f[next[j] + 1]
        <5>1. next[j] \in 0..n
          BY <1>4, <3>3
        <5>2. f[next[j] + 1] = F[next[j]] /\ f[i] = F[j]
          BY <2>2, <3>1, <5>1
        <5>3. F[j] = first(j) \o F[next[j]]
          BY <1>8, <3>3
        <5> QED  BY <5>2, <5>3
      <4>2. j + 2 = i + 1 /\ j + 3 = i + 2 /\ j + 4 = i + 3 /\ ~(i > n)
        BY <3>1, <3>3
      <4>3. next[j] + 1 = IF Escape(text, i) THEN i + 3 ELSE i + 1
        BY <3>1, <3>3, <4>2 DEF next
      <4>4. first(j) = IF Escape(text, i) THEN <<HexPair(text[i + 1], text[i + 2])>> ELSE <<text[i]>>
        BY <3>1, <4>2 DEF first
      <4> QED  BY <4>1, <4>2, <4>3, <4>4
    <3> QED  BY <3>2, <3>3
  <2>4. f = [i \in 1..(n + 1) |-> Body(f, i)]
    <3> HIDE DEF Body
    <3> QED  BY <2>1, <2>3
  <2> HIDE DEF Body
  <2> QED  BY <2>1, <2>4
<1>10. PICK g : Is(g) /\ percent_decode(text) = g[1]
  <2> HIDE DEF Is
  <2>1. Is(CHOOSE g : Is(g))
    BY <1>9
  <2> QED  BY <1>2, <2>1
<1>11. /\ g = [i \in 1..(n + 1) |-> g[i]] /\ g[n + 1] = << >>
       /\ \A i \in 1..n :
             g[i] = IF Escape(text, i) THEN <<HexPair(text[i + 1], text[i + 2])>> \o g[i + 3]
                    ELSE <<text[i]>> \o g[i + 1]
  <2>1. n + 1 \in 1..(n + 1) /\ n + 1 > n /\ \A i \in 1..n : i \in 1..(n + 1) /\ ~(i > n)
    OBVIOUS
  <2> QED  BY <1>10, <2>1
<1> HIDE DEF Body, Is
<1>12. ASSUME NEW i \in 1..(n + 1), \A j \in (i + 1)..(n + 1) : g[j] \in Seq(Octet)
       PROVE  g[i] \in Seq(Octet)
  <2>1. CASE i = n + 1
    <3>1. << >> \in Seq(Octet)
      OBVIOUS
    <3> QED  BY <1>11, <2>1, <3>1
  <2>2. CASE i # n + 1
    <3>1. i \in 1..n /\ i + 1 \in (i + 1)..(n + 1)
      BY <2>2
    <3>2. CASE Escape(text, i)
      <4>1. i + 3 \in (i + 1)..(n + 1) /\ HexPair(text[i + 1], text[i + 2]) \in Octet
        BY <1>3, <3>1, <3>2
      <4>2. g[i + 3] \in Seq(Octet) /\ <<HexPair(text[i + 1], text[i + 2])>> \in Seq(Octet)
        BY <1>12, <4>1
      <4>3. g[i] = <<HexPair(text[i + 1], text[i + 2])>> \o g[i + 3]
        BY <1>11, <3>1, <3>2
      <4> QED  BY <4>2, <4>3
    <3>3. CASE ~Escape(text, i)
      <4>1. g[i + 1] \in Seq(Octet) /\ <<text[i]>> \in Seq(Octet)
        BY <1>3, <1>12, <3>1
      <4>2. g[i] = <<text[i]>> \o g[i + 1]
        BY <1>11, <3>1, <3>3
      <4> QED  BY <4>1, <4>2
    <3> QED  BY <3>2, <3>3
  <2> QED  BY <2>1, <2>2
<1>13. \A i \in 1..(n + 1) : g[i] \in Seq(Octet)
  <2> DEFINE G == {i \in 1..(n + 1) : g[i] \in Seq(Octet)}
  <2>1. n + 1 \in Nat
    OBVIOUS
  <2>2. \A i \in 1..(n + 1) : (\A j \in (i + 1)..(n + 1) : j \in G) => i \in G
    BY <1>12
  <2> HIDE DEF G
  <2>3. 1..(n + 1) \subseteq G
    BY <2>1, <2>2, FromTheEnd
  <2> QED  BY <2>3 DEF G
<1>14. g \in [1..(n + 1) -> Seq(Octet)]
  BY <1>11, <1>13
<1>15. IsDecoding(text, g)
  BY <1>1, <1>11, <1>14 DEF IsDecoding
<1> QED  BY <1>10, <1>15

\* From position i on, text stands for codes.
StandsFrom(text, i, codes, at) ==
    /\ at \in [1..(Len(codes) + 1) -> 1..(Len(text) + 1)]
    /\ at[1] = i /\ at[Len(codes) + 1] = Len(text) + 1
    /\ \A k \in 1..Len(codes) : Shows(text, at[k], at[k + 1], codes[k])

\* One turn of percent_decode reads what one code is written as.
LEMMA TurnShows ==
    ASSUME NEW text, text \in Seq(ASCII), NEW i \in 1..Len(text), NEW j \in 1..(Len(text) + 1),
           NEW c \in Base64Url
    PROVE  Shows(text, i, j, c)
             <=> IF Escape(text, i) THEN j = i + 3 /\ HexPair(text[i + 1], text[i + 2]) = c
                 ELSE j = i + 1 /\ text[i] = c
<1>1. c \in 45..122 /\ c # Percent /\ c # None
  <2>1. c \in 45..122 /\ c \in Int
    BY DEF Base64Url
  <2>2. c # None
    BY <2>1, ReceiversAssumption
  <2> QED  BY <2>1, <2>2 DEF Percent
<1>2. CASE text[i] = Percent /\ i + 2 =< Len(text)
  <2>1. PICK a \in ASCII, b \in ASCII : a = text[i + 1] /\ b = text[i + 2]
    <3>1. i + 1 \in 1..Len(text) /\ i + 2 \in 1..Len(text)
      BY <1>2
    <3> QED  BY <3>1
  <2>2. PICK x, y : x = HexDigit[a] /\ y = HexDigit[b]
    OBVIOUS
  <2>3. /\ x = None \/ x \in 0..15
        /\ y = None \/ y \in 0..15
        /\ a = Plus => x = None
    <3>1. \A d \in ASCII : HexDigit[d] = None \/ HexDigit[d] \in 0..15
      BY DEF HexDigit, ASCII
    <3>2. Plus \in ASCII /\ HexDigit[Plus] = None
      BY DEF HexDigit, ASCII, Plus
    <3> QED  BY <2>2, <3>1, <3>2
  <2>4. HexPair(a, b) = IF y = None THEN None ELSE IF a = Plus THEN y
                        ELSE IF x = None THEN None ELSE 16 * x + y
    BY <2>2 DEF HexPair
  <2>5. HexPair(a, b) = c <=> x # None /\ y # None /\ c = 16 * x + y
    <3>1. None \notin Int
      BY ReceiversAssumption
    <3> QED  BY <1>1, <2>3, <2>4, <3>1
  <2>6. Shows(text, i, j, c) <=> j = i + 3 /\ x # None /\ y # None /\ c = 16 * x + y
    BY <1>1, <1>2, <2>1, <2>2 DEF Shows
  <2>7. Escape(text, i) <=> HexPair(a, b) # None
    BY <1>2, <2>1 DEF Escape
  <2> QED  BY <1>1, <1>2, <2>1, <2>5, <2>6, <2>7
<1>3. CASE ~(text[i] = Percent /\ i + 2 =< Len(text))
  <2>1. ~Escape(text, i)
    BY <1>3 DEF Escape
  <2>2. j = i + 3 => i + 2 =< Len(text)
    OBVIOUS
  <2>3. Shows(text, i, j, c) <=> j = i + 1 /\ text[i] = c
    BY <1>3, <2>2 DEF Shows
  <2> QED  BY <2>1, <2>3
<1> QED  BY <1>2, <1>3

Agrees(text, g, i) ==
    \A codes \in Seq(Base64Url) : g[i] = codes <=> \E at : StandsFrom(text, i, codes, at)

\* The text from i on decodes to codes if and only if it stands for them.
LEMMA DecodingStands ==
    ASSUME NEW text, text \in Seq(ASCII), NEW g, IsDecoding(text, g),
           NEW i \in 1..(Len(text) + 1),
           \A j \in (i + 1)..(Len(text) + 1) : Agrees(text, g, j)
    PROVE  Agrees(text, g, i)
<1> SUFFICES ASSUME NEW codes, codes \in Seq(Base64Url)
             PROVE  g[i] = codes <=> \E at : StandsFrom(text, i, codes, at)
  BY DEF Agrees
<1>1. PICK n \in Nat : n = Len(text)
  OBVIOUS
<1>2. PICK m \in Nat : m = Len(codes)
  OBVIOUS
<1>3. CASE i = n + 1
  <2>1. g[i] = << >>
    BY <1>1, <1>3 DEF IsDecoding
  <2>2. ASSUME codes = << >> PROVE \E at : StandsFrom(text, i, codes, at)
    <3>1. StandsFrom(text, i, codes, [k \in 1..1 |-> i])
      BY <1>1, <1>3, <2>2 DEF StandsFrom
    <3> QED  BY <3>1
  <2>3. ASSUME NEW at, StandsFrom(text, i, codes, at), codes # << >> PROVE FALSE
    <3>1. 1 \in 1..m /\ m > 0
      BY <1>2, <2>3
    <3>2. at[1] = i /\ at[2] \in 1..(n + 1) /\ Shows(text, at[1], at[2], codes[1])
      BY <1>1, <1>2, <2>3, <3>1 DEF StandsFrom
    <3> QED  BY <1>3, <3>2 DEF Shows
  <2> QED  BY <2>1, <2>2, <2>3
<1>4. CASE i # n + 1
  <2>1. i \in 1..n
    BY <1>1, <1>4
  <2>2. PICK c, j : /\ c = IF Escape(text, i) THEN HexPair(text[i + 1], text[i + 2]) ELSE text[i]
                    /\ j = IF Escape(text, i) THEN i + 3 ELSE i + 1
    OBVIOUS
  <2>3. j \in (i + 1)..(n + 1)
    BY <1>1, <2>1, <2>2 DEF Escape
  <2>4. g[i] = <<c>> \o g[j] /\ g[j] \in Seq(Octet)
    <3>1. g[i] = IF Escape(text, i) THEN <<HexPair(text[i + 1], text[i + 2])>> \o g[i + 3]
                 ELSE <<text[i]>> \o g[i + 1]
      BY <1>1, <2>1 DEF IsDecoding
    <3>2. j \in 1..(Len(text) + 1)
      BY <1>1, <2>1, <2>3
    <3>3. g[j] \in Seq(Octet)
      BY <3>2 DEF IsDecoding
    <3> QED  BY <2>2, <3>1, <3>3
  <2>5. \A k \in 1..(n + 1) : \A b \in Base64Url : Shows(text, i, k, b) <=> k = j /\ b = c
    BY <1>1, <2>1, <2>2, TurnShows
  <2>6. ASSUME g[i] = codes PROVE \E at : StandsFrom(text, i, codes, at)
    <3>1. codes # << >> /\ codes[1] = c /\ g[j] = Tail(codes) /\ Tail(codes) \in Seq(Base64Url)
      <4>1. PICK v : v = g[j]
        OBVIOUS
      <4>2. codes = <<c>> \o v /\ v \in Seq(Octet)
        BY <2>4, <2>6, <4>1
      <4>3. Len(codes) = Len(v) + 1 /\ codes[1] = c /\ \A k \in 1..Len(v) : codes[k + 1] = v[k]
        BY <4>2
      <4>4. codes # << >>
        BY <4>2, <4>3
      <4>5. PICK r : r = Tail(codes)
        OBVIOUS
      <4>6. /\ r \in Seq(Base64Url) /\ Len(r) = Len(v) /\ Len(v) \in Nat
            /\ \A k \in 1..Len(v) : r[k] = codes[k + 1]
        BY <4>2, <4>3, <4>4, <4>5
      <4>7. r = v
        <5>1. \A x : x \in Base64Url => x \in Octet
          BY DEF Base64Url, Octet
        <5>2. r \in Seq(Octet)
          BY <4>6, <5>1
        <5>3. \A k \in 1..Len(r) : r[k] = v[k]
          BY <4>3, <4>6
        <5> QED  BY <4>2, <4>6, <5>2, <5>3, SeqEqual
      <4> QED  BY <4>1, <4>3, <4>4, <4>5, <4>6, <4>7
    <3>2. PICK at : StandsFrom(text, j, Tail(codes), at)
      BY <1>1, <2>3, <3>1 DEF Agrees
    <3>3. m > 0 /\ Len(Tail(codes)) = m - 1 /\ \A k \in 2..m : codes[k] = Tail(codes)[k - 1]
      BY <1>2, <3>1
    <3>4. /\ at \in [1..m -> 1..(n + 1)] /\ at[1] = j /\ at[m] = n + 1
          /\ \A k \in 1..(m - 1) : Shows(text, at[k], at[k + 1], Tail(codes)[k])
      <4>1. PICK r : r = Tail(codes)
        OBVIOUS
      <4>2. Len(r) + 1 = m /\ Len(r) = m - 1
        BY <1>2, <3>3, <4>1
      <4>3. /\ at \in [1..(Len(r) + 1) -> 1..(n + 1)] /\ at[1] = j /\ at[Len(r) + 1] = n + 1
            /\ \A k \in 1..Len(r) : Shows(text, at[k], at[k + 1], r[k])
        BY <1>1, <3>2, <4>1 DEF StandsFrom
      <4> QED  BY <4>1, <4>2, <4>3
    <3>5. PICK all : all = [k \in 1..(m + 1) |-> IF k = 1 THEN i ELSE at[k - 1]]
      OBVIOUS
    <3>6. all[1] = i /\ \A k \in 2..(m + 1) : all[k] = at[k - 1]
      BY <3>3, <3>5
    <3>7. all \in [1..(m + 1) -> 1..(n + 1)] /\ all[m + 1] = n + 1
      BY <1>1, <3>3, <3>4, <3>5
    <3>8. ASSUME NEW k \in 1..m PROVE Shows(text, all[k], all[k + 1], codes[k])
      <4>1. CASE k = 1
        <5>1. all[k] = i /\ all[k + 1] = j
          BY <3>3, <3>4, <3>6, <4>1
        <5>2. c \in Base64Url /\ j \in 1..(n + 1)
          BY <1>2, <2>3, <3>1, <3>3
        <5> QED  BY <2>5, <3>1, <4>1, <5>1, <5>2
      <4>2. CASE k # 1
        <5>1. k - 1 \in 1..(m - 1) /\ k \in 2..m /\ k \in 2..(m + 1) /\ k + 1 \in 2..(m + 1)
              /\ (k - 1) + 1 = k /\ (k + 1) - 1 = k
          BY <4>2
        <5>2. all[k] = at[k - 1] /\ all[k + 1] = at[k] /\ codes[k] = Tail(codes)[k - 1]
          BY <3>3, <3>6, <5>1
        <5>3. Shows(text, at[k - 1], at[k], Tail(codes)[k - 1])
          BY <3>4, <5>1
        <5> QED  BY <5>2, <5>3
      <4> QED  BY <4>1, <4>2
    <3>9. StandsFrom(text, i, codes, all)
      BY <1>1, <1>2, <3>6, <3>7, <3>8 DEF StandsFrom
    <3> QED  BY <3>9
  <2>7. ASSUME NEW at, StandsFrom(text, i, codes, at) PROVE g[i] = codes
    <3>1. /\ at \in [1..(m + 1) -> 1..(n + 1)] /\ at[1] = i /\ at[m + 1] = n + 1
          /\ \A k \in 1..m : Shows(text, at[k], at[k + 1], codes[k])
      BY <1>1, <1>2, <2>7 DEF StandsFrom
    <3>2. m > 0
      BY <1>4, <3>1
    <3>3. codes # << >> /\ codes[1] \in Base64Url /\ at[2] \in 1..(n + 1)
      <4>1. 1 \in 1..m /\ 2 \in 1..(m + 1)
        BY <3>2
      <4>2. at[2] \in 1..(n + 1)
        BY <3>1, <4>1
      <4>3. codes # << >>
        BY <1>2, <3>2
      <4> QED  BY <1>2, <4>1, <4>2, <4>3
    <3>4. at[2] = j /\ codes[1] = c
      <4>1. Shows(text, i, at[2], codes[1])
        BY <3>1, <3>2
      <4> QED  BY <2>5, <3>3, <4>1
    <3>5. PICK rest : rest = Tail(codes)
      OBVIOUS
    <3>6. rest \in Seq(Base64Url) /\ Len(rest) = m - 1 /\ \A k \in 1..(m - 1) : rest[k] = codes[k + 1]
      BY <1>2, <3>3, <3>5
    <3>7. PICK later : later = [k \in 1..m |-> at[k + 1]]
      OBVIOUS
    <3>8. StandsFrom(text, j, rest, later)
      <4>1. later \in [1..m -> 1..(n + 1)] /\ later[1] = j /\ later[m] = n + 1
        BY <3>1, <3>2, <3>4, <3>7
      <4>2. ASSUME NEW k \in 1..(m - 1) PROVE Shows(text, later[k], later[k + 1], rest[k])
        <5>1. k \in 1..m /\ k + 1 \in 1..m
          OBVIOUS
        <5>2. later[k] = at[k + 1] /\ later[k + 1] = at[(k + 1) + 1] /\ rest[k] = codes[k + 1]
          BY <3>6, <3>7, <5>1
        <5> QED  BY <3>1, <5>1, <5>2
      <4> QED  BY <1>1, <3>2, <3>6, <4>1, <4>2 DEF StandsFrom
    <3>9. g[j] = rest
      BY <1>1, <2>3, <3>6, <3>8 DEF Agrees
    <3>10. <<codes[1]>> \o Tail(codes) = codes
      BY <3>3
    <3> QED  BY <2>4, <3>4, <3>5, <3>9, <3>10
  <2> QED  BY <2>6, <2>7
<1> QED  BY <1>3, <1>4

\* percent_decode gives back what the text stands for, and gives no codes of
\* base64url that it does not stand for.
LEMMA PercentDecodes ==
    ASSUME NEW text, text \in Seq(ASCII), NEW codes, codes \in Seq(Base64Url)
    PROVE  percent_decode(text) = codes <=> StandsFor(text, codes)
<1>1. PICK g : IsDecoding(text, g) /\ percent_decode(text) = g[1]
  BY Decodes
<1> DEFINE n == Len(text) + 1
<1>2. n \in Nat /\ 1 \in 1..n
  OBVIOUS
<1> DEFINE G == {i \in 1..n : Agrees(text, g, i)}
<1>3. ASSUME NEW i \in 1..n, \A j \in (i + 1)..n : j \in G PROVE i \in G
  <2>1. \A j \in (i + 1)..n : Agrees(text, g, j)
    BY <1>3
  <2>2. Agrees(text, g, i)
    BY <1>1, <2>1, DecodingStands
  <2> QED  BY <2>2
<1> HIDE DEF G
<1>4. 1..n \subseteq G
  <2> HIDE DEF n
  <2> QED  BY <1>2, <1>3, FromTheEnd
<1>5. g[1] = codes <=> \E at : StandsFrom(text, 1, codes, at)
  BY <1>2, <1>4 DEF G, Agrees
<1> QED  BY <1>1, <1>5 DEF StandsFor, StandsFrom

-----------------------------------------------------------------------------
(* A request is read as the message its client means.                      *)

MessageIn(c) == IF c.receiver = "dot" THEN c.sent ELSE extract_query(c.form)

\* What extract_query makes of a text is the message it stands for.
LEMMA DecodedIsMeant ==
    ASSUME NEW text, text \in Seq(ASCII)
    PROVE  /\ \A m \in Messages : StandsFor(text, Encoded[m]) => Decoded(percent_decode(text)) = m
           /\ (\A m \in Messages : ~StandsFor(text, Encoded[m])) => Decoded(percent_decode(text)) = None
<1>1. \A m \in Messages : Encoded[m] \in Seq(Base64Url)
  BY ReceiversAssumption
<1>2. \A m \in Messages : Encoded[m] = percent_decode(text) <=> StandsFor(text, Encoded[m])
  BY <1>1, PercentDecodes
<1>3. PICK t : t = percent_decode(text)
  OBVIOUS
<1>4. ASSUME NEW m \in Messages, StandsFor(text, Encoded[m]) PROVE Decoded(t) = m
  <2>1. Encoded[m] = t
    BY <1>2, <1>3, <1>4
  <2>2. \A k \in Messages : Encoded[k] = t => k = m
    BY <2>1, ReceiversAssumption
  <2> QED  BY <2>1, <2>2 DEF Decoded
<1>5. ASSUME \A m \in Messages : ~StandsFor(text, Encoded[m]) PROVE Decoded(t) = None
  BY <1>2, <1>3, <1>5 DEF Decoded
<1> QED  BY <1>3, <1>4, <1>5

\* Of a request, what it means is extracted, and nothing from nonsense.
LEMMA ExtractedIsMeant ==
    ASSUME NEW c \in Calls
    PROVE  \/ MessageIn(c) = c.sent
           \/ /\ c.form.kind = "POST" /\ Len(c.form.chunks) > 1
              /\ MessageIn(c) = c.form.chunks[1] /\ MessageIn(c) # None
<1>1. CASE c.receiver = "dot"
  BY <1>1 DEF MessageIn
<1>2. CASE c.receiver # "dot"
  <2> DEFINE form == c.form
  <2>1. /\ c.receiver = "doh" /\ c.sent \in Messages \cup {None}
        /\ \/ /\ form.kind = "GET" /\ form.pairs \in Seq([name : STRING, value : Seq(ASCII)])
           \/ form.kind = "POST" /\ form.chunks \in Seq(Messages)
           \/ form.kind = "PUT"
    BY <1>2, ReceiversAssumption DEF Call
  <2>2. MessageIn(c) = extract_query(form)
    BY <1>2 DEF MessageIn
  <2>3. CASE form.kind = "GET"
    <3> DEFINE dns == {i \in DOMAIN form.pairs : form.pairs[i].name = "dns"}
               text == form.pairs[Min(dns)].value
    <3>1. IF c.sent = None THEN dns # {} => \A m \in Messages : ~StandsFor(text, Encoded[m])
          ELSE dns # {} /\ StandsFor(text, Encoded[c.sent])
      BY <2>1, <2>3, CallsAreMeant
    <3>2. PICK pairs : pairs = form.pairs /\ pairs \in Seq([name : STRING, value : Seq(ASCII)])
      BY <2>1, <2>3
    <3>3. DOMAIN pairs = 1..Len(pairs) /\ Len(pairs) \in Nat
      BY <3>2
    <3>4. dns = {i \in 1..Len(pairs) : pairs[i].name = "dns"}
      BY <3>2, <3>3
    <3>5. dns_query_param(pairs) =
            IF (IF dns = {} THEN 0 ELSE Min(dns)) = 0 THEN None
            ELSE pairs[IF dns = {} THEN 0 ELSE Min(dns)].value
      BY <3>4 DEF dns_query_param, SelectInSeq
    <3>6. CASE dns = {}
      <4>1. dns_query_param(form.pairs) = None
        BY <3>2, <3>5, <3>6
      <4>2. extract_query(form) = None
        BY <2>3, <4>1 DEF extract_query
      <4> QED  BY <2>2, <3>1, <3>6, <4>2
    <3>7. CASE dns # {}
      <4>1. Min(dns) \in dns
        <5>1. dns \in SUBSET Nat
          BY <3>4
        <5>2. \E x \in dns : \A y \in dns : x =< y
          BY <3>7, <5>1, FirstPosition
        <5> HIDE DEF dns
        <5> QED  BY <5>2 DEF Min
      <4>2. Min(dns) \in 1..Len(pairs)
        BY <3>4, <4>1
      <4>3. text \in Seq(ASCII) /\ dns_query_param(form.pairs) = text
        <5>1. PICK k : k = Min(dns) /\ k \in 1..Len(pairs)
          BY <4>2
        <5>2. pairs[k] \in [name : STRING, value : Seq(ASCII)]
          <6> DEFINE Pair == [name : STRING, value : Seq(ASCII)]
          <6>1. pairs \in Seq(Pair)
            BY <3>2
          <6> HIDE DEF Pair
          <6>2. pairs[k] \in Pair
            BY <5>1, <6>1, ElementOfSeq
          <6> QED  BY <6>2 DEF Pair
        <5>3. pairs[k].value \in Seq(ASCII)
          BY <5>2
        <5>4. k # 0
          BY <5>1
        <5> HIDE DEF dns
        <5>5. dns_query_param(pairs) = pairs[k].value
          BY <3>5, <3>7, <5>1, <5>4
        <5> QED  BY <3>2, <5>1, <5>3, <5>5
      <4>4. text # None
        BY <4>3, ReceiversAssumption
      <4> HIDE DEF text
      <4>5. extract_query(form) = Decoded(percent_decode(text))
        BY <2>3, <4>3, <4>4 DEF extract_query
      <4> QED  BY <2>1, <2>2, <3>1, <3>7, <4>3, <4>5, DecodedIsMeant
    <3> QED  BY <3>6, <3>7
  <2>4. CASE form.kind = "POST"
    <3>1. PICK chunks : chunks = form.chunks /\ chunks \in Seq(Messages)
      BY <2>1, <2>4
    <3>2. c.sent = IF chunks = << >> THEN None ELSE FlattenSeq(chunks)
      BY <2>1, <2>4, <3>1, CallsAreMeant
    <3>3. extract_query(form) = IF chunks = << >> THEN None ELSE chunks[1]
      BY <2>4, <3>1 DEF extract_query
    <3>4. CASE chunks = << >>
      BY <2>2, <3>2, <3>3, <3>4
    <3>5. CASE chunks # << >> /\ Len(chunks) = 1
      <4>1. FlattenSeq(chunks) = chunks[1]
        <5> DEFINE Is(f) == f = [i \in 1..1 |-> IF i = 1 THEN chunks[i] ELSE f[i - 1] \o chunks[i]]
        <5>1. FlattenSeq(chunks) = (CHOOSE f : Is(f))[1]
          BY <3>5 DEF FlattenSeq
        <5>2. Is([i \in 1..1 |-> chunks[1]])
          OBVIOUS
        <5> HIDE DEF Is
        <5>3. Is(CHOOSE f : Is(f))
          BY <5>2
        <5>4. \A f : Is(f) => f[1] = chunks[1]
          BY DEF Is
        <5> QED  BY <5>1, <5>3, <5>4
      <4> QED  BY <2>2, <3>2, <3>3, <3>5, <4>1
    <3>6. CASE Len(chunks) > 1
      <4>1. chunks # << >> /\ chunks[1] \in Messages /\ chunks[1] # None
        BY <3>1, <3>6, ReceiversAssumption
      <4> QED  BY <2>2, <2>4, <3>1, <3>3, <3>6, <4>1
    <3>7. Len(chunks) \in Nat /\ (chunks # << >> => Len(chunks) > 0)
      BY <3>1
    <3>8. chunks = << >> \/ Len(chunks) = 1 \/ Len(chunks) > 1
      <4> PICK l \in Nat : l = Len(chunks) /\ (chunks # << >> => l > 0)
        BY <3>7
      <4> HIDE DEF form
      <4>1. l = 0 \/ l = 1 \/ l > 1
        OBVIOUS
      <4> QED  BY <4>1
    <3> QED  BY <3>4, <3>5, <3>6, <3>8
  <2>5. CASE form.kind = "PUT"
    <3>1. c.sent = None
      BY <2>1, <2>5, CallsAreMeant
    <3>2. extract_query(form) = None
      BY <2>5 DEF extract_query
    <3> QED  BY <2>2, <3>1, <3>2
  <2> QED  BY <2>1, <2>3, <2>4, <2>5
<1> QED  BY <1>1, <1>2
-----------------------------------------------------------------------------
(* The inductive invariant of what is read: nothing is, and nothing is      *)
(* refused, before a request is there to read.                              *)

Asked ==
    /\ DOMAIN pc = Queries /\ DOMAIN call = Queries
    /\ DOMAIN query = Queries /\ DOMAIN status = Queries
    /\ \A q \in Queries :
          /\ pc[q] # "idle" => call[q] \in Calls
          /\ pc[q] = "idle" => query[q] = None /\ status[q] # "400"
    /\ QueryAsSent

LEMMA InitialAsked == Init => Asked
BY ReceiversAssumption DEF Init, Asked, QueryAsSent

\* What is neither asked nor read, nor refused, disturbs nothing.
LEMMA AskedKept ==
    ASSUME Asked, NEW q \in Queries, pc[q] # "idle", NEW at, at # "idle", NEW how, how # "400",
           pc' = [pc EXCEPT ![q] = at],
           status' = [status EXCEPT ![q] = how] \/ UNCHANGED status,
           UNCHANGED <<call, query>>
    PROVE  Asked'
<1>1. \A p \in Queries : status'[p] = "400" => status[p] = "400"
  BY DEF Asked
<1>2. \A p \in Queries : pc'[p] = "idle" => pc[p] = "idle"
  BY DEF Asked
<1>3. \A p \in Queries : p # q => pc'[p] = pc[p]
  BY DEF Asked
<1>4. QueryAsSent'
  BY <1>1 DEF Asked, QueryAsSent
<1> QED  BY <1>1, <1>2, <1>3, <1>4 DEF Asked

LEMMA AskedInductive == Asked /\ [Next]_vars => Asked'
<1> SUFFICES ASSUME Asked, [Next]_vars PROVE Asked'
  OBVIOUS
<1>1. CASE Refresh
  BY <1>1 DEF Refresh, Asked, QueryAsSent
<1>2. ASSUME NEW q \in Queries, NEW c \in Calls, Ask(q, c) PROVE Asked'
  <2>1. /\ pc[q] = "idle" /\ pc' = [pc EXCEPT ![q] = "read"]
        /\ call' = [call EXCEPT ![q] = c] /\ UNCHANGED <<query, status>>
    BY <1>2 DEF Ask
  <2>2. query[q] = None /\ status[q] # "400"
    BY <2>1 DEF Asked
  <2>3. QueryAsSent'
    BY <2>1, <2>2 DEF Asked, QueryAsSent
  <2> QED  BY <2>1, <2>3 DEF Asked
<1>3. ASSUME NEW q \in Queries, Read(q) PROVE Asked'
  <2>1. PICK c \in Calls : c = call[q]
    BY <1>3 DEF Read, Asked
  <2>2. PICK m : m = MessageIn(c)
    OBVIOUS
  <2>3. /\ pc[q] = "read" /\ UNCHANGED call
        /\ IF m = None
           THEN /\ pc' = [pc EXCEPT ![q] = "done"] /\ status' = [status EXCEPT ![q] = "400"]
                /\ UNCHANGED query
           ELSE /\ pc' = [pc EXCEPT ![q] = "handle"] /\ query' = [query EXCEPT ![q] = m]
                /\ UNCHANGED status
    BY <1>3, <2>1, <2>2 DEF Read, End, MessageIn
  <2>4. \/ m = c.sent
        \/ c.form.kind = "POST" /\ Len(c.form.chunks) > 1 /\ m = c.form.chunks[1] /\ m # None
    BY <2>2, ExtractedIsMeant
  <2>5. CASE m = None
    <3>1. c.sent = None
      BY <2>4, <2>5
    <3>2. QueryAsSent'
      BY <2>1, <2>3, <2>5, <3>1 DEF Asked, QueryAsSent
    <3> QED  BY <2>3, <2>5, <3>2 DEF Asked
  <2>6. CASE m # None
    <3>1. QueryAsSent'
      BY <2>1, <2>3, <2>4, <2>6 DEF Asked, QueryAsSent
    <3> QED  BY <2>3, <2>6, <3>1 DEF Asked
  <2> QED  BY <2>5, <2>6
<1>4. ASSUME NEW q \in Queries, Handle(q) \/ NotForwarded(q) \/ Forward(q) \/ Respond(q)
      PROVE  Asked'
  <2>1. \E at \in {"decided", "sent", "done"}, how \in {"200", "502", "closed"} :
           /\ pc[q] # "idle" /\ pc' = [pc EXCEPT ![q] = at]
           /\ status' = [status EXCEPT ![q] = how] \/ UNCHANGED status
           /\ UNCHANGED <<call, query>>
    <3>1. CASE Handle(q)
      BY <3>1 DEF Handle, Failed, End
    <3>2. CASE NotForwarded(q)
      BY <3>2 DEF NotForwarded, Failed, End
    <3>3. CASE Forward(q)
      BY <3>3 DEF Forward
    <3>4. CASE Respond(q)
      BY <3>4 DEF Respond, Failed, End
    <3> QED  BY <1>4, <3>1, <3>2, <3>3, <3>4
  <2> QED  BY <2>1, AskedKept
<1>5. CASE UNCHANGED vars
  BY <1>5 DEF vars, Asked, QueryAsSent
<1> QED  BY <1>1, <1>2, <1>3, <1>4, <1>5 DEF Next

\* Whatever messages there are, whatever text base64url makes of them, and
\* however a client escapes that text and whatever parameters it adds, the
\* pipeline is given the message the client means, and only nonsense is
\* refused (receiver/doh.rs:205-252).  A POST in several chunks is the
\* exception: its first chunk is the message.
THEOREM SentAsMeant == Spec => []QueryAsSent
<1>1. Asked => QueryAsSent
  BY DEF Asked
<1> QED  BY <1>1, InitialAsked, AskedInductive, PTL DEF Spec
=============================================================================
