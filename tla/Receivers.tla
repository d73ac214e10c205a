------------------------------ MODULE Receivers ------------------------------
(***************************************************************************)
(* From the name a client dials to the resolver its query reaches:         *)
(*                                                                         *)
(*   - account_for of both receivers, with identity::account_from_sni;     *)
(*   - the DoH exchange: DohReceiver::request_filter and extract_query     *)
(*     (receiver/doh.rs), for clients that send what DohTransport sends    *)
(*     (transport/doh.rs), what other DoH clients send, or nonsense;       *)
(*   - the pool of upstream transports each receiver has to itself         *)
(*     (upstream.rs), and the gauge that all of them set.                  *)
(*                                                                         *)
(* A query arrives whole at the DoT receiver (module DotConnection reads   *)
(* it) and is decided by the pipeline (module QueryPath), which is free    *)
(* here to answer, fail or forward it, under the policy it had when the    *)
(* query came in.  Text in a URL is a sequence of ASCII codes, and base64  *)
(* a table; host names are those of DomainNames.                           *)
(***************************************************************************)
EXTENDS DomainNames, Integers, FiniteSets, Functions

CONSTANTS
    None,
    Queries,        \* requests in flight, each made at most once
    Calls,          \* what a request may be
    Messages,       \* sequences of octets, with the empty one: all that base64url
                    \* text in Calls encodes
    Named,          \* the messages query_name finds a name in
    Encoded,        \* base64url, without padding: message |-> text
    Domain,         \* server.domain
    FallbackAccount, \* server.fallback_account
    PolicyMaps,     \* what the policy cache may hold: account |-> upstream
    SocketAddrs,    \* the addrs that parse as an IP and a port
    MaxRefreshes    \* bound: changes of the policy cache

Protocols == {"dot", "doh", "udp"}
Upstream == [protocol : Protocols, host : STRING, port : Nat, addr : STRING \cup {None}]
Receivers == {"dot", "doh"}
ASCII == 0..127
\* A-Z, a-z, 0-9, - and _
Base64Url == 65..90 \cup 97..122 \cup 48..57 \cup {45, 95}

\* A request: the name in its TLS handshake, None without one; the message the
\* client means, None for nonsense; and the form it is sent in.
Call == [receiver : {"dot"}, sni : Seq(Labels) \cup {None}, sent : Messages,
         form : [kind : {"message"}]]
        \cup
        [receiver : {"doh"}, sni : Seq(Labels) \cup {None}, sent : Messages \cup {None},
         form : [kind : {"GET"}, pairs : Seq([name : STRING, value : Seq(ASCII)])]
                 \cup [kind : {"POST"}, chunks : Seq(Messages)]
                 \cup [kind : {"PUT"}]]

ASSUME ReceiversAssumption ==
    /\ Calls \subseteq Call
    /\ Named \subseteq Messages
    /\ << >> \in Messages \ Named
    /\ None \notin Messages /\ None \notin Seq(ASCII)
    /\ Encoded \in [Messages -> Seq(Base64Url)]
    /\ Encoded[<< >>] = << >>
    /\ \A m, n \in Messages : Encoded[m] = Encoded[n] => m = n
    /\ Domain \in Seq(Labels) /\ None \notin Labels
    /\ None \notin Int /\ None # "400"
    /\ PolicyMaps # {}
    /\ \A map \in PolicyMaps : Range(map) \subseteq Upstream \cup {None}
    /\ MaxRefreshes \in Nat

VARIABLES
    policies,       \* PolicyCache: account |-> active upstream
    refreshes,      \* how often it changed
    pc, call,       \* per query: where it is, and the request
    account,        \* what account_for made of its SNI
    query,          \* the message the pipeline is given, None before
    upstream,       \* its account's upstream in the policy it is decided by
    transport,      \* what it is sent on
    status,         \* how the exchange ended
    pool,           \* UpstreamPool.cache of each receiver: key |-> transport
    built,          \* every transport that was built, oldest first
    gauge           \* brdns_upstream_transports

vars == <<policies, refreshes, pc, call, account, query, upstream, transport, status,
          pool, built, gauge>>
pools == <<pool, built, gauge>>

-----------------------------------------------------------------------------
(* identity.rs                                                             *)

\* domain.trim_matches('.')
TrimDots(name) == Reverse(TrimEndDots(Reverse(TrimEndDots(name))))

\* Mutant: the leftmost label is the account, however many there are.
LeftmostLabel(sni, domain) ==
    LET host == TrimEndDots(sni)  base == TrimDots(domain)
    IN  IF base # << >> /\ EndsWithDot(host, base) /\ host[1] # Empty THEN host[1] ELSE None

account_from_sni(sni, domain) ==
    LET host == TrimEndDots(sni)  base == TrimDots(domain)
        labels == SubSeq(host, 1, Len(host) - Len(base))
    IN  IF /\ base # << >> /\ host # << >> /\ host # base
           /\ EndsWithDot(host, base)
           /\ Len(labels) = 1 /\ labels[1] # Empty
        THEN labels[1] ELSE None

account_for(sni) ==
    LET found == IF sni = None THEN None ELSE account_from_sni(sni, Domain)
    IN  IF found = None THEN FallbackAccount ELSE found

-----------------------------------------------------------------------------
(* extract_query.                                                          *)

Percent == 37
Plus == 43

HexDigit == [c \in ASCII |->
    CASE c \in 48..57  -> c - 48
      [] c \in 65..70  -> c - 55
      [] c \in 97..102 -> c - 87
      [] OTHER         -> None]

\* u8::from_str_radix, which takes a sign for a first digit.
HexPair(a, b) ==
    IF HexDigit[b] = None THEN None
    ELSE IF a = Plus THEN HexDigit[b]
    ELSE IF HexDigit[a] = None THEN None
    ELSE 16 * HexDigit[a] + HexDigit[b]

\* In text, position i up to j is code: itself, or its escape.
Shows(text, i, j, code) ==
    \/ j = i + 1 /\ text[i] = code
    \/ /\ j = i + 3 /\ text[i] = Percent
       /\ HexDigit[text[i + 1]] # None /\ HexDigit[text[i + 2]] # None
       /\ code = 16 * HexDigit[text[i + 1]] + HexDigit[text[i + 2]]

\* The ways to write codes in a URL (RFC 3986, 2.1).
StandsFor(text, codes) ==
    \E at \in [1..Len(codes) + 1 -> 1..Len(text) + 1] :
        /\ at[1] = 1 /\ at[Len(codes) + 1] = Len(text) + 1
        /\ \A k \in 1..Len(codes) : Shows(text, at[k], at[k + 1], codes[k])

\* What a DoH client means by a request: the message its first parameter "dns"
\* stands for, or its chunks together, if there is one (RFC 8484, 4.1).
ASSUME CallsAreMeant ==
    \A c \in Calls : c.receiver = "doh" =>
        CASE c.form.kind = "GET" ->
                LET dns  == {i \in DOMAIN c.form.pairs : c.form.pairs[i].name = "dns"}
                    text == c.form.pairs[Min(dns)].value
                IN  IF c.sent = None
                    THEN dns # {} => \A m \in Messages : ~StandsFor(text, Encoded[m])
                    ELSE dns # {} /\ StandsFor(text, Encoded[c.sent])
          [] c.form.kind = "POST" ->
                c.sent = IF c.form.chunks = << >> THEN None ELSE FlattenSeq(c.form.chunks)
          [] OTHER -> c.sent = None

\* Decodes the escapes that have at least room codes from their % to the end.
DecodeWithRoom(text, room) ==
    LET n == Len(text)
        from[i \in 1..n + 1] ==
            IF i > n THEN << >>
            ELSE IF /\ text[i] = Percent /\ i + room - 1 <= n
                    /\ HexPair(text[i + 1], text[i + 2]) # None
                 THEN <<HexPair(text[i + 1], text[i + 2])>> \o from[i + 3]
                 ELSE <<text[i]>> \o from[i + 1]
    IN  from[1]

\* Mutant: an escape that ends the text stays as it is.
DecodeBeforeEnd(text) == DecodeWithRoom(text, 4)

percent_decode(text) == DecodeWithRoom(text, 3)

\* URL_SAFE_NO_PAD: None for text that is no encoding.  No text encodes no octets.
Decoded(text) ==
    IF \E m \in Messages : Encoded[m] = text
    THEN CHOOSE m \in Messages : Encoded[m] = text ELSE None

\* The first pair that starts with "dns=".
dns_query_param(pairs) ==
    LET i == SelectInSeq(pairs, LAMBDA p : p.name = "dns")
    IN  IF i = 0 THEN None ELSE pairs[i].value

\* Of a POST the first chunk is read.  None stands for the errors and for the
\* requests without a query, which both get status 400.
extract_query(form) ==
    CASE form.kind = "GET"  -> LET text == dns_query_param(form.pairs)
                               IN  IF text = None THEN None ELSE Decoded(percent_decode(text))
      [] form.kind = "POST" -> IF form.chunks = << >> THEN None ELSE form.chunks[1]
      [] OTHER              -> None

-----------------------------------------------------------------------------
(* upstream.rs                                                             *)

\* Mutant: resolvers are told apart by protocol, host and port alone.
KeyWithoutAddr(u) == [protocol |-> u.protocol, host |-> u.host, port |-> u.port]

PoolKey(u) == [protocol |-> u.protocol, host |-> u.host, port |-> u.port, addr |-> u.addr]

\* Where build_transport's result sends: only DohTransport looks at the addr,
\* and at one that does not parse it does not.
Reaches(u) ==
    [protocol |-> u.protocol, host |-> u.host, port |-> u.port,
     pinned |-> IF u.protocol = "doh" /\ u.addr \in SocketAddrs THEN u.addr ELSE None]

With(cache, key, t) ==
    [k \in DOMAIN cache \cup {key} |-> IF k = key THEN t ELSE cache[k]]

\* Mutant: the transport that is found is not used.
BuildAlways(r, u) ==
    /\ built' = Append(built, [receiver |-> r, key |-> PoolKey(u), reaches |-> Reaches(u)])
    /\ pool' = [pool EXCEPT ![r] = With(@, PoolKey(u), Len(built'))]

\* cache.entry(key).or_insert_with(..), with the pool locked
GetOrBuild(r, u) ==
    IF PoolKey(u) \in DOMAIN pool[r] THEN UNCHANGED <<built, pool>>
    ELSE /\ built' = Append(built, [receiver |-> r, key |-> PoolKey(u), reaches |-> Reaches(u)])
         /\ pool' = [pool EXCEPT ![r] = With(@, PoolKey(u), Len(built'))]

-----------------------------------------------------------------------------
\* The transport without an upstream record, one per receiver.
Fallback == 0

Init ==
    /\ policies \in PolicyMaps /\ refreshes = 0
    /\ pc = [q \in Queries |-> "idle"]
    /\ call = [q \in Queries |-> None]
    /\ account = [q \in Queries |-> None]
    /\ query = [q \in Queries |-> None]
    /\ upstream = [q \in Queries |-> None]
    /\ transport = [q \in Queries |-> None]
    /\ status = [q \in Queries |-> None]
    /\ pool = [r \in Receivers |-> [k \in {} |-> 0]]
    /\ built = << >>
    /\ gauge = 0

\* The poll task refreshes the cache.
Refresh ==
    /\ refreshes < MaxRefreshes
    /\ policies' \in PolicyMaps
    /\ refreshes' = refreshes + 1
    /\ UNCHANGED <<pc, call, account, query, upstream, transport, status, pools>>

\* A request arrives, and account_for is told the name in its handshake.
Ask(q, c) ==
    /\ pc[q] = "idle"
    /\ pc' = [pc EXCEPT ![q] = "read"]
    /\ call' = [call EXCEPT ![q] = c]
    /\ account' = [account EXCEPT ![q] = account_for(c.sni)]
    /\ UNCHANGED <<policies, refreshes, query, upstream, transport, status, pools>>

End(q, how) ==
    /\ pc' = [pc EXCEPT ![q] = "done"]
    /\ status' = [status EXCEPT ![q] = how]

\* The message is there, or the request is refused.
Read(q) ==
    /\ pc[q] = "read"
    /\ LET c == call[q]
           m == IF c.receiver = "dot" THEN c.sent ELSE extract_query(c.form)
       IN  IF m = None THEN End(q, "400") /\ UNCHANGED query
           ELSE /\ query' = [query EXCEPT ![q] = m]
                /\ pc' = [pc EXCEPT ![q] = "handle"]
                /\ UNCHANGED status
    /\ UNCHANGED <<policies, refreshes, call, account, upstream, transport, pools>>

\* A pipeline error is status 502, or the end of a DoT connection.
Failed(q) == End(q, IF call[q].receiver = "dot" THEN "closed" ELSE "502")

\* PolicyCache::get: an account that is not in the map has no policy.
UpstreamOf(a) == IF a \in DOMAIN policies THEN policies[a] ELSE None

\* handle_inner up to its first await.
Handle(q) ==
    /\ pc[q] = "handle"
    /\ IF query[q] \in Named
       THEN /\ upstream' = [upstream EXCEPT ![q] = UpstreamOf(account[q])]
            /\ pc' = [pc EXCEPT ![q] = "decided"]
            /\ UNCHANGED status
       ELSE Failed(q) /\ UNCHANGED upstream
    /\ UNCHANGED <<policies, refreshes, call, account, query, transport, pools>>

\* It is denied, over its budget, or record_quota fails.
NotForwarded(q) ==
    /\ pc[q] = "decided"
    /\ End(q, "200") \/ Failed(q)
    /\ UNCHANGED <<policies, refreshes, call, account, query, upstream, transport, pools>>

\* transport_for and UpstreamPool::get.
Forward(q) ==
    /\ pc[q] = "decided"
    /\ pc' = [pc EXCEPT ![q] = "sent"]
    /\ LET r == call[q].receiver  u == upstream[q]
       IN  IF u = None
           THEN transport' = [transport EXCEPT ![q] = Fallback] /\ UNCHANGED pools
           ELSE /\ GetOrBuild(r, u)
                /\ transport' = [transport EXCEPT ![q] = pool'[r][PoolKey(u)]]
                /\ gauge' = Cardinality(DOMAIN pool'[r])
    /\ UNCHANGED <<policies, refreshes, call, account, query, upstream, status>>

\* send_recv returns; the response is written.
Respond(q) ==
    /\ pc[q] = "sent"
    /\ End(q, "200") \/ Failed(q)
    /\ UNCHANGED <<policies, refreshes, call, account, query, upstream, transport, pools>>

Next ==
    \/ Refresh
    \/ \E q \in Queries :
          \/ \E c \in Calls : Ask(q, c)
          \/ Read(q) \/ Handle(q) \/ NotForwarded(q) \/ Forward(q) \/ Respond(q)

Spec == Init /\ [][Next]_vars

-----------------------------------------------------------------------------
(* Properties.                                                             *)

\* What the pipeline is given is the message the client means, under whatever
\* escapes and parameters it comes, and only nonsense is refused.  The
\* exception is a POST in several chunks, of which the first one is taken for
\* the message (receiver/doh.rs:205-220, 235-252).
QueryAsSent ==
    \A q \in Queries :
        /\ query[q] # None =>
              \/ query[q] = call[q].sent
              \/ call[q].form.kind = "POST" /\ Len(call[q].form.chunks) > 1
                 /\ query[q] = call[q].form.chunks[1]
        /\ status[q] = "400" => call[q].sent = None

\* The host names that stand for account a: one label below the domain, and
\* any number of dots after it.
Dials(sni, a) == TrimEndDots(sni) = <<a>> \o TrimDots(Domain)

TrailingDot(sni) == sni # << >> /\ sni[Len(sni)] = Empty

\* Nobody acts for an account without dialing its name, and whoever dials it
\* acts for no other (identity.rs:11-31).  What a trailing dot makes of the
\* name is left open: the account or the fallback.  "Returns None when the SNI
\* ... carries a trailing dot" (identity.rs:9-10) says one thing, the code and
\* its test handles_trailing_dot (identity.rs:12, 61-66) the other.
AccountIsDialed ==
    \A q \in Queries : account[q] # None =>
        /\ \A a \in Labels \ {Empty} :
              call[q].sni # None /\ ~TrailingDot(call[q].sni) /\ Dials(call[q].sni, a)
                  => account[q] = a
        /\ account[q] # FallbackAccount => call[q].sni # None /\ Dials(call[q].sni, account[q])

\* Whoever shares a pool with it and whatever the cache holds by now, a query
\* goes to the resolver of the policy it was decided by: its protocol, host,
\* port and pinned address (upstream.rs:35-50).
GoesWhereChosen ==
    \A q \in Queries : transport[q] # None =>
        IF upstream[q] = None THEN transport[q] = Fallback
        ELSE /\ built[transport[q]].receiver = call[q].receiver
             /\ built[transport[q]].reaches = Reaches(upstream[q])

\* "Pool builds one transport per distinct (protocol, host, port, addr) tuple
\* and reuses it" (upstream.rs:4-5): in each receiver, for all its life.  The
\* gauge is the size of one of the pools.
OneTransportEach ==
    /\ \A i, j \in DOMAIN built :
          built[i].receiver = built[j].receiver /\ built[i].key = built[j].key => i = j
    /\ \E r \in Receivers : gauge = Cardinality(DOMAIN pool[r])

\* "used when no/unknown SNI; "" refuses" (example.brdns.toml:6): without a
\* fallback account, a query that names none is not forwarded.
EmptyFallbackRefuses ==
    \A q \in Queries : account[q] = Empty => transport[q] = None
=============================================================================
