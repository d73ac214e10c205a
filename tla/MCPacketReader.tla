--------------------------- MODULE MCPacketReader ---------------------------
(***************************************************************************)
(* Messages for PacketReader: well-formed ones that use every record type  *)
(* and every kind of pointer, with the packet they mean, and every short   *)
(* name over a few bytes, well-formed or not.                              *)
(***************************************************************************)
EXTENDS PacketReader, TLC

\* id 0x1234, recursion desired; the counts are below 256.
Head12(qd, an, ns, ar) == <<18, 52, 1, 0, 0, qd, 0, an, 0, ns, 0, ar>>
Packet12(qd, an, ns, ar, qs, as, ns_, rs) ==
    [header |-> [id |-> <<18, 52>>, a |-> 1, b |-> 0, questions |-> qd, answers |-> an,
                 authoritative_entries |-> ns, resource_entries |-> ar],
     questions |-> qs, answers |-> as, authorities |-> ns_, resources |-> rs]
Rec(type, domain, data) == [type |-> type, domain |-> domain, ttl |-> <<0, 0, 1, 44>>, data |-> data]
Q(name, qtype) == [name |-> name, qtype |-> qtype]

In(type) == <<0, type, 0, 1>>
Fixed(type, len) == In(type) \o <<0, 0, 1, 44, 0, len>>
Zeros(n) == [i \in 1..n |-> 0]

a == 97
b == 98
ab == <<a, Dot, b>>
Name_ab == <<1, a, 1, b, 0>>   \* at position 12 of a message that begins with it
To(p) == <<192, p>>

\* The plan of a message: the places behind the one that the name at p begins
\* at, and what is there; places of entries and of hosts in them; and the
\* places of strings.
On(m, p) ==
    CASE m[p + 1] = 0    -> {}
      [] m[p + 1] >= 192 -> {u16(m[p + 1], m[p + 2]) - 192 * 256}
      [] OTHER           -> {p + 1 + m[p + 1]}
RECURSIVE NameAt(_, _), Places(_, _), StringsAt(_, _, _)
NameAt(m, p) ==
    IF m[p + 1] = 0 THEN [NoName EXCEPT !.after = p + 1]
    ELSE LET on == CHOOSE on \in On(m, p) : TRUE
         IN  IF m[p + 1] >= 192 THEN [NameAt(m, on) EXCEPT !.jumps = @ + 1, !.after = p + 2]
             ELSE [NameAt(m, on) EXCEPT !.text = Joined(LossyLower(SubSeq(m, p + 2, on)), @)]
Places(m, p) == {p} \cup UNION {Places(m, on) : on \in On(m, p)}
StringsAt(m, p, end) ==
    IF p = end THEN p :> [data |-> << >>, end |-> end]
    ELSE LET on == p + 1 + m[p + 1]
             rest == StringsAt(m, on, end)
         IN  p :> [data |-> SubSeq(m, p + 2, on) \o rest[on].data, end |-> end] @@ rest
Plan(m, at, hosts, strings) ==
    [names |-> [p \in UNION {Places(m, q) : q \in ToSet(Front(at)) \cup hosts} |-> NameAt(m, p)],
     at |-> at, strings |-> strings]

\* The query tool, for a name with upper case, and with an EDNS record of
\* four bytes of data whose id and codes are not those of the tool.
Tool(domain, text) ==
    LET m == Write(ToolQuery(domain))
    IN  [bytes |-> m, meant |-> WithCounts(ToolQuery(text)),
         plan |-> Plan(m, <<12, Len(m)>>, {}, << >>)]
EdnsBytes ==
    <<0, 7, 1, 17, 0, 1, 0, 0, 0, 0, 0, 1>> \o Name_ab \o In(AAAA)
      \o <<0, 0, 41>> \o <<4, 208, 0, 0, 0, 0, 0, 4, 0, 10, 0, 0>>
Edns ==
    [bytes |-> EdnsBytes, plan |-> Plan(EdnsBytes, <<12, 21, 36>>, {}, << >>),
     meant |-> [header |-> [NewHeader EXCEPT !.id = <<0, 7>>, !.a = 1, !.b = 17,
                                             !.questions = 1, !.resource_entries = 1],
                questions |-> <<Q(ab, AAAA)>>, answers |-> << >>, authorities |-> << >>,
                resources |-> <<[type |-> 41, domain |-> << >>, ttl |-> <<0, 0, 0, 0>>,
                                 data |-> <<0, 4>>]>>]]

\* Two questions, the second inside the first.
TwoBytes == Head12(2, 0, 0, 0) \o Name_ab \o In(A) \o To(14) \o In(TXT)
TwoQuestions ==
    [bytes |-> TwoBytes, plan |-> Plan(TwoBytes, <<12, 21, 27>>, {}, << >>),
     meant |-> Packet12(2, 0, 0, 0, <<Q(ab, A), Q(<<b>>, TXT)>>, << >>, << >>, << >>)]

\* A record of every type in every section, hosts and owners compressed.
EverythingBytes ==
    Head12(1, 3, 2, 3) \o Name_ab \o In(MX)
      \o To(12) \o Fixed(CNAME, 4) \o <<1, b>> \o To(14)
      \o To(12) \o Fixed(MX, 4) \o <<0, 9>> \o To(14)
      \o To(12) \o Fixed(A, 4) \o <<9, 8, 7, 6>>
      \o To(14) \o Fixed(NS, 2) \o To(12)
      \o To(14) \o Fixed(99, 3) \o <<1, 2, 3>>
      \o To(12) \o Fixed(TXT, 5) \o <<2, a, b, 1, b>>
      \o To(12) \o Fixed(TXT, 0)
      \o To(12) \o Fixed(AAAA, 16) \o Zeros(15) \o <<1>>
Everything ==
    [bytes |-> EverythingBytes,
     plan  |-> Plan(EverythingBytes, <<12, 21, 37, 53, 69, 83, 98, 115, 127, 155>>, {33, 51, 81},
                    StringsAt(EverythingBytes, 110, 115) @@ StringsAt(EverythingBytes, 127, 127)),
     meant |-> Packet12(1, 3, 2, 3, <<Q(ab, MX)>>,
                 <<Rec(CNAME, ab, <<b, Dot, b>>), Rec(MX, ab, <<0, 9, b>>),
                   Rec(A, ab, <<9, 8, 7, 6>>)>>,
                 <<Rec(NS, <<b>>, ab), Rec(99, <<b>>, <<0, 3>>)>>,
                 <<Rec(TXT, ab, <<a, b, b>>), Rec(TXT, ab, << >>),
                   Rec(AAAA, ab, Zeros(15) \o <<1>>)>>)]

\* Five jumps are allowed: the question's name is at the end of a chain.
Chain(n) ==
    Head12(1, 0, 0, 0) \o To(18) \o In(A)
      \o FlattenSeq([i \in 1..(n - 1) |-> To(18 + 2 * i)]) \o <<1, a, 0>>
FiveJumps ==
    [bytes |-> Chain(5), plan |-> Plan(Chain(5), <<12, 18>>, {}, << >>),
     meant |-> Packet12(1, 0, 0, 0, <<Q(<<a>>, A)>>, << >>, << >>, << >>)]

\* A label that no longer fits when its 22 bytes have become U+FFFD.
SwollenBytes == Head12(1, 0, 0, 0) \o <<22>> \o [i \in 1..22 |-> 255] \o <<0>> \o In(A)
Swollen ==
    [bytes |-> SwollenBytes, plan |-> Plan(SwollenBytes, <<12, Len(SwollenBytes)>>, {}, << >>),
     meant |-> Packet12(1, 0, 0, 0, <<Q(FlattenSeq([i \in 1..22 |-> Replacement]), A)>>,
                        << >>, << >>, << >>)]

WellFormed ==
    {Tool(<<65, Dot, b>>, ab), Tool(<<a>>, <<a>>), Edns, TwoQuestions, Everything, FiveJumps, Swollen,
     Tool([i \in 1..63 |-> a], [i \in 1..63 |-> a])}

\* Any bytes: pieces of up to three of these after the header, then a type
\* and a class.
Pieces ==
    {<<0>>, <<1, a>>, <<2, Dot, 65>>, <<1, Dot>>, <<1, 255>>, To(12), To(13), To(14), To(60), <<255, 255>>, <<3>>}
Scraps ==
    {Head12(1, 0, 0, 0) \o FlattenSeq(ps) \o rest :
        ps \in UNION {[1..n -> Pieces] : n \in 1..3}, rest \in {<<0>> \o In(A), In(AAAA)}}

\* Too many jumps; messages cut short anywhere; no question; strings and unknown
\* data behind the end.
Bad ==
    {Chain(6), Head12(0, 0, 0, 0),
     Head12(1, 0, 0, 1) \o Name_ab \o In(A) \o To(12) \o Fixed(TXT, 2) \o <<1, a, 7, b>>,
     Head12(1, 0, 0, 1) \o Name_ab \o In(A) \o To(12) \o Fixed(TXT, 1) \o <<2, a, b>>,
     Head12(1, 0, 0, 1) \o Name_ab \o In(A) \o To(12) \o Fixed(99, 200)}
      \cup {SubSeq(Everything.bytes, 1, n) : n \in 0..(Len(Everything.bytes) - 1)}

MCQueries == WellFormed \cup {[bytes |-> m, meant |-> None, plan |-> None] : m \in Scraps \cup Bad}

Address(n) == [i \in 1..n |-> i]
MCPolicies == {[response |-> r, ipv4 |-> Address(4), ipv6 |-> Address(16)] :
                  r \in {"nxdomain", "refused", "null", "custom"}}
=============================================================================
