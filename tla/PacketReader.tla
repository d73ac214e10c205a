---------------------------- MODULE PacketReader ----------------------------
(***************************************************************************)
(* A message on its way through the parser: DnsPacket::from_buffer, one    *)
(* loop iteration per step, first on the server, where handle_query blocks *)
(* the query with synthesize, and then on the client that reads the answer *)
(* as bin/g.rs and the tests do.                                           *)
(*                                                                         *)
(* read_qname follows compression pointers wherever they lead, so the walk *)
(* over a name is modelled turn by turn.  A read that fails at the end of  *)
(* the buffer fails the parse whatever was read just before it.  handle_   *)
(* inner parses the same bytes twice, in query_name and in synthesize,     *)
(* with the same outcome: the model parses once.                           *)
(***************************************************************************)
EXTENDS WireFormat

CONSTANTS
    Queries,    \* [bytes, meant, plan]: a message, the packet its sender meant by
                \* it, and how it is laid out
    Policies,   \* the block policies a server may have
    None

max_jumps == 5

Policy == [response : {"nxdomain", "refused", "null", "custom"},
           ipv4 : [1..4 -> Byte], ipv6 : [1..16 -> Byte]]

-----------------------------------------------------------------------------
(* What bytes mean (RFC 1035, 4.1), as their sender laid them out: plan.at *)
(* has the place where each entry begins, plan.names what name is at a     *)
(* place, and plan.strings what is left of a TXT record from a place on.   *)

Question == [name : Bytes, qtype : Word]
Record == [type : Word, domain : Bytes, ttl : Bytes, data : Bytes]
Packet == [header : Header, questions : Seq(Question),
           answers : Seq(Record), authorities : Seq(Record), resources : Seq(Record)]

Names == [text : Bytes, jumps : 0..max_jumps, after : Nat]
NoName == [text |-> << >>, jumps |-> 0, after |-> 0]

Joined(s, t) == IF s = << >> \/ t = << >> THEN s \o t ELSE s \o <<Dot>> \o t

\* A name ends with a zero byte, goes on where a pointer says, or begins with a
\* label: its text, how many pointers it has, and the place behind it.
NamesLaid(bytes, names) ==
    \A p \in DOMAIN names :
        /\ p \in 0..(Len(bytes) - 1) /\ names[p] \in Names
        /\ LET b  == bytes[p + 1]
               to == u16(b, bytes[p + 2]) - 192 * 256
               on == p + 1 + b
           IN  \/ b = 0 /\ names[p] = [NoName EXCEPT !.after = p + 1]
               \/ /\ b >= 192 /\ p + 2 <= Len(bytes) /\ to \in DOMAIN names
                  /\ names[p] = [names[to] EXCEPT !.jumps = @ + 1, !.after = p + 2]
               \/ /\ b \in 1..63 /\ on \in DOMAIN names
                  /\ names[p] = [names[on] EXCEPT
                                    !.text = Joined(LossyLower(SubSeq(bytes, p + 2, on)), @)]

StringsLaid(bytes, strings) ==
    \A p \in DOMAIN strings :
        /\ p \in 0..Len(bytes) /\ strings[p] \in [data : Bytes, end : Nat]
        /\ LET on == p + 1 + bytes[p + 1]
           IN  \/ p = strings[p].end /\ strings[p].data = << >>
               \/ /\ p < strings[p].end /\ p < Len(bytes) /\ on \in DOMAIN strings
                  /\ strings[p] = [strings[on] EXCEPT !.data = SubSeq(bytes, p + 2, on) \o @]

\* From d up to end there is the data of record r.
DataLaid(bytes, plan, d, end, r) ==
    LET host == IF r.type = MX THEN d + 2 ELSE d
    IN  CASE r.type = A    -> end = d + 4 /\ r.data = SubSeq(bytes, d + 1, end)
          [] r.type = AAAA -> end = d + 16 /\ r.data = SubSeq(bytes, d + 1, end)
          [] r.type \in {CNAME, NS, MX} ->
                /\ host \in DOMAIN plan.names /\ plan.names[host].after = end
                /\ r.data = SubSeq(bytes, d + 1, host) \o plan.names[host].text
          [] r.type = TXT  ->
                d \in DOMAIN plan.strings /\ plan.strings[d] = [data |-> r.data, end |-> end]
          [] OTHER         -> r.data = write_u16(end - d)

\* From p up to end there is question q, or record r.
QuestionLaid(bytes, plan, p, end, q) ==
    /\ p \in DOMAIN plan.names /\ plan.names[p].text = q.name
    /\ LET f == plan.names[p].after
       IN  end = f + 4 /\ q.qtype = u16(bytes[f + 1], bytes[f + 2])

RecordLaid(bytes, plan, p, end, r) ==
    /\ p \in DOMAIN plan.names /\ plan.names[p].text = r.domain
    /\ LET f == plan.names[p].after
       IN  /\ f + 10 <= end /\ end = f + 10 + u16(bytes[f + 9], bytes[f + 10])
           /\ r.type = u16(bytes[f + 1], bytes[f + 2])
           /\ r.ttl = SubSeq(bytes, f + 5, f + 8)
           /\ DataLaid(bytes, plan, f + 10, end, r)

\* The message is packet p, laid out by plan, within two limits of the reader's
\* own: a name has at most max_jumps pointers, and a code beyond REFUSED is read
\* as NOERROR, so the header has none.
Laid(bytes, p, plan) ==
    /\ p \in Packet
    /\ NamesLaid(bytes, plan.names) /\ StringsLaid(bytes, plan.strings)
    /\ Len(bytes) >= 12
    /\ p.header = [id |-> SubSeq(bytes, 1, 2), a |-> bytes[3], b |-> bytes[4],
                   questions |-> u16(bytes[5], bytes[6]), answers |-> u16(bytes[7], bytes[8]),
                   authoritative_entries |-> u16(bytes[9], bytes[10]),
                   resource_entries |-> u16(bytes[11], bytes[12])]
    /\ p.header.b % 16 <= 5
    /\ p.header.questions = Len(p.questions) /\ p.header.answers = Len(p.answers)
    /\ p.header.authoritative_entries = Len(p.authorities)
    /\ p.header.resource_entries = Len(p.resources)
    /\ LET n == Len(p.questions)  rs == Records(p)
       IN  /\ plan.at \in [1..(n + Len(rs) + 1) -> 12..Len(bytes)] /\ plan.at[1] = 12
           /\ \A i \in 1..n :
                 QuestionLaid(bytes, plan, plan.at[i], plan.at[i + 1], p.questions[i])
           /\ \A i \in 1..Len(rs) :
                 RecordLaid(bytes, plan, plan.at[n + i], plan.at[n + i + 1], rs[i])

ASSUME ReaderAssumption ==
    /\ \A q \in Queries : /\ q.bytes \in Bytes
                          /\ q.meant # None => Laid(q.bytes, q.meant, q.plan)
    /\ Policies \subseteq Policy

-----------------------------------------------------------------------------
VARIABLES
    buf, pos,  \* BytePacketBuffer; pos counts from 0
    pc,        \* where from_buffer is
    walk,      \* read_qname: its locals, where it began and the turns it took
    record,    \* DnsRecord::read: domain, type, ttl and data_len
    packet,    \* the packet read so far
    side,      \* who reads: "server" or "client"
    policy,    \* the block policy of the answer
    asked,     \* history: the query as the server read it
    meant      \* history: the packet the sender meant, None for any bytes

vars == <<buf, pos, pc, walk, record, packet, side, policy, asked, meant>>
message == <<buf, side, policy, asked, meant>>

NoRecord == [domain |-> << >>, type |-> 0, ttl |-> << >>, data_len |-> 0, end |-> 0, data |-> << >>]
WalkFrom(p) == [from |-> p, at |-> p, jumped |-> FALSE, jumps |-> 0, text |-> << >>, turns |-> 0]

Init ==
    /\ \E q \in Queries : buf = q.bytes /\ meant = q.meant
    /\ pos = 0 /\ pc = "header"
    /\ walk = WalkFrom(0) /\ record = NoRecord /\ packet = NewPacket
    /\ side = "server" /\ policy = None /\ asked = None

\* get, get_range, read_u16, and the test that lets each of them succeed
get(p) == buf[p + 1]
get_range(p, n) == SubSeq(buf, p + 1, p + n)
u16_at(p) == u16(get(p), get(p + 1))
Has(p, n) == p + n <= Len(buf)

\* "End of buffer", or too many jumps: from_buffer returns the error.
Fail ==
    /\ pc' = "failed"
    /\ UNCHANGED <<pos, walk, record, packet, message>>

-----------------------------------------------------------------------------
(* from_buffer.                                                            *)

ReadHeader ==
    /\ pc = "header" /\ Has(0, 12)
    /\ packet' = [packet EXCEPT !.header =
          [id |-> get_range(0, 2), a |-> get(2), b |-> from_num(get(3)),
           questions |-> u16_at(4), answers |-> u16_at(6),
           authoritative_entries |-> u16_at(8), resource_entries |-> u16_at(10)]]
    /\ pos' = 12
    /\ pc' = "entry"
    /\ UNCHANGED <<walk, record, message>>

\* The list that the next entry goes to: the first that is not complete.
Section ==
    IF Len(packet.questions) < packet.header.questions THEN "questions"
    ELSE IF Len(packet.answers) < packet.header.answers THEN "answers"
    ELSE IF Len(packet.authorities) < packet.header.authoritative_entries THEN "authorities"
    ELSE IF Len(packet.resources) < packet.header.resource_entries THEN "resources"
    ELSE "none"

\* Each entry begins with a name.
NextEntry ==
    /\ pc = "entry"
    /\ IF Section = "none"
       THEN pc' = "parsed" /\ UNCHANGED walk
       ELSE pc' = "owner" /\ walk' = WalkFrom(pos)
    /\ UNCHANGED <<pos, record, packet, message>>

KeepEntry(entry) ==
    /\ packet' = [packet EXCEPT ![Section] = Append(@, entry)]
    /\ pc' = "entry"

ReadQuestion ==
    /\ pc = "named" /\ Section = "questions" /\ Has(pos, 4)
    /\ KeepEntry([name |-> walk.text, qtype |-> u16_at(pos)])
    /\ pos' = pos + 4
    /\ UNCHANGED <<walk, record, message>>

\* type, class, ttl and data_len of a record
ReadFields ==
    /\ pc = "named" /\ Section # "questions" /\ Has(pos, 10)
    /\ record' = [domain |-> walk.text, type |-> u16_at(pos), ttl |-> get_range(pos + 4, 4),
                  data_len |-> u16_at(pos + 8), end |-> pos + 10 + u16_at(pos + 8), data |-> << >>]
    /\ pos' = pos + 10
    /\ pc' = "data"
    /\ UNCHANGED <<walk, packet, message>>

-----------------------------------------------------------------------------
(* read_qname, for the owner of an entry or the host in its data.          *)

Walking == pc \in {"owner", "host"}

\* Mutant: the limit is not looked at.
Unlimited(jumps) == FALSE

TooMany(jumps) == jumps > max_jumps

\* The byte the loop looks at is there.
AtByte == Walking /\ ~TooMany(walk.jumps) /\ Has(walk.at, 1)

IsPointer == get(walk.at) >= 192

\* Mutant: the pointer's second byte is read again.
SeekIntoPointer == IF walk.jumped THEN pos ELSE walk.at + 1

\* Mutant: every pointer moves the position, not only the first.
SeekAlways == walk.at + 2

\* Reading goes on behind the first pointer.
Seek == IF walk.jumped THEN pos ELSE walk.at + 2

Offset == u16_at(walk.at) - 192 * 256

FollowPointer ==
    /\ AtByte /\ IsPointer /\ Has(walk.at, 2)
    /\ pos' = Seek
    /\ walk' = [walk EXCEPT !.at = Offset, !.jumped = TRUE, !.jumps = @ + 1, !.turns = @ + 1]
    /\ UNCHANGED <<pc, record, packet, message>>

ReadLabel ==
    LET len   == get(walk.at)
        delim == IF walk.text = << >> THEN << >> ELSE <<Dot>>
    IN  /\ AtByte /\ ~IsPointer /\ len # 0 /\ Has(walk.at + 1, len)
        /\ walk' = [walk EXCEPT !.text = @ \o delim \o LossyLower(get_range(walk.at + 1, len)),
                                !.at = @ + 1 + len, !.turns = @ + 1]
        /\ UNCHANGED <<pos, pc, record, packet, message>>

EndOfName ==
    /\ AtByte /\ get(walk.at) = 0
    /\ pos' = IF walk.jumped THEN pos ELSE walk.at + 1
    /\ walk' = [walk EXCEPT !.turns = @ + 1]
    /\ pc' = IF pc = "owner" THEN "named" ELSE "hosted"
    /\ UNCHANGED <<record, packet, message>>

WalkFails ==
    /\ Walking
    /\ AtByte => \/ IsPointer /\ ~Has(walk.at, 2)
                 \/ ~IsPointer /\ ~Has(walk.at + 1, get(walk.at))
    /\ Fail

-----------------------------------------------------------------------------
(* The data of a record, by its type.                                      *)

KeepRecord(data) ==
    KeepEntry([type |-> record.type, domain |-> record.domain, ttl |-> record.ttl, data |-> data])

\* An address has the length of its type, whatever data_len says.
AddressLength == IF record.type = A THEN 4 ELSE 16

ReadAddress ==
    /\ pc = "data" /\ record.type \in {A, AAAA} /\ Has(pos, AddressLength)
    /\ KeepRecord(get_range(pos, AddressLength))
    /\ pos' = pos + AddressLength
    /\ UNCHANGED <<walk, record, message>>

\* The two bytes of priority before the host of an MX record.
PriorityLength == IF record.type = MX THEN 2 ELSE 0

ReadPriority ==
    /\ pc = "data" /\ record.type \in {CNAME, NS, MX} /\ Has(pos, PriorityLength)
    /\ record' = [record EXCEPT !.data = get_range(pos, PriorityLength)]
    /\ pos' = pos + PriorityLength
    /\ walk' = WalkFrom(pos + PriorityLength)
    /\ pc' = "host"
    /\ UNCHANGED <<packet, message>>

KeepHost ==
    /\ pc = "hosted"
    /\ KeepRecord(record.data \o walk.text)
    /\ UNCHANGED <<pos, walk, record, message>>

\* One length-prefixed string of a TXT record, each byte taken as a character;
\* the last may end behind `end`.
ReadString ==
    /\ pc = "data" /\ record.type = TXT /\ pos < record.end
    /\ Has(pos, 1) /\ Has(pos + 1, get(pos))
    /\ record' = [record EXCEPT !.data = @ \o get_range(pos + 1, get(pos))]
    /\ pos' = pos + 1 + get(pos)
    /\ UNCHANGED <<pc, walk, packet, message>>

KeepStrings ==
    /\ pc = "data" /\ record.type = TXT /\ pos >= record.end
    /\ KeepRecord(record.data)
    /\ UNCHANGED <<pos, walk, record, message>>

\* Other data is stepped over, and only its length kept; step does not look
\* for the end of the buffer.
SkipUnknown ==
    /\ pc = "data" /\ record.type \notin {A, AAAA, CNAME, NS, MX, TXT}
    /\ KeepRecord(write_u16(record.data_len))
    /\ pos' = pos + record.data_len
    /\ UNCHANGED <<walk, record, message>>

EndOfBuffer ==
    /\ \/ pc = "header" /\ ~Has(0, 12)
       \/ pc = "named" /\ ~Has(pos, IF Section = "questions" THEN 4 ELSE 10)
       \/ pc = "data" /\ record.type \in {A, AAAA} /\ ~Has(pos, AddressLength)
       \/ pc = "data" /\ record.type \in {CNAME, NS, MX} /\ ~Has(pos, PriorityLength)
       \/ pc = "data" /\ record.type = TXT /\ pos < record.end
            /\ (Has(pos, 1) => ~Has(pos + 1, get(pos)))
    /\ Fail

-----------------------------------------------------------------------------
(* synthesize.                                                             *)

Codes == [nxdomain |-> 3, refused |-> 5, null |-> 0, custom |-> 0]

\* Mutant: the new code is or-ed into the query's.
OrCode(b, code) == b + code

SetCode(b, code) == b - (b % 16) + code

\* What the first question is answered with: an address, or nothing.
BlockRecords(questions, p) ==
    IF p.response \notin {"null", "custom"} \/ questions = << >> THEN << >>
    ELSE LET q    == questions[1]
             addr == IF q.qtype = A THEN p.ipv4 ELSE p.ipv6
         IN  IF q.qtype \in {A, AAAA}
             THEN <<[type |-> q.qtype, domain |-> q.name, ttl |-> <<0, 0, 0, 60>>,
                     data |-> IF p.response = "custom" THEN addr ELSE [i \in DOMAIN addr |-> 0]]>>
             ELSE << >>

synthesize(query, p) ==
    [query EXCEPT !.header = [query.header EXCEPT !.a = 128 + (@ % 128),
                                                  !.b = SetCode(@, Codes[p.response])],
                  !.answers = BlockRecords(query.questions, p),
                  !.authorities = << >>, !.resources = << >>]

\* The answer is written to a buffer of its own, and the client reads it; a
\* label may have become too long to be written.
Answer ==
    /\ pc = "parsed" /\ side = "server"
    /\ \E p \in Policies :
          LET answer == synthesize(packet, p)
          IN  IF ~Writable(answer)
              THEN /\ pc' = "unwritable"
                   /\ UNCHANGED <<pos, walk, record, packet, message>>
              ELSE /\ buf' = Write(answer)
                   /\ side' = "client" /\ policy' = p /\ asked' = packet
                   /\ pos' = 0 /\ pc' = "header"
                   /\ walk' = WalkFrom(0) /\ record' = NoRecord /\ packet' = NewPacket
                   /\ UNCHANGED meant

Next ==
    \/ ReadHeader \/ NextEntry \/ ReadQuestion \/ ReadFields
    \/ FollowPointer \/ ReadLabel \/ EndOfName \/ WalkFails
    \/ ReadAddress \/ ReadPriority \/ KeepHost
    \/ ReadString \/ KeepStrings \/ SkipUnknown
    \/ EndOfBuffer
    \/ Answer

Spec == Init /\ [][Next]_vars

-----------------------------------------------------------------------------
(* Properties.                                                             *)

\* What a sender encodes by the rules of DNS, pointers, unknown types and
\* records of every section included, is what the server reads, if no name has
\* more than max_jumps pointers and the code is at most REFUSED.
QueryIsUnderstood ==
    side = "server" /\ meant # None =>
        /\ pc # "failed"
        /\ pc = "parsed" => packet = meant

\* Splitting at the dots leaves no empty label: neither the root name nor a
\* name that begins or ends with a dot, or has two in a row.
IsPlain(text) == \A start \in LabelStarts(text) : LabelLength(text, start) > 0

\* "`deny` rules and over-quota `limit` rules answer with a synthesized DNS
\* response" (blocking.rs:3-9) that fits the query: the client reads back its
\* id and questions, the code of the policy, and an address exactly where the
\* policy gives one.  The names have to be plain: write_qname ends a name at
\* its first empty label.
AnswerFits ==
    side = "client" /\ (\A q \in ToSet(asked.questions) : IsPlain(q.name)) =>
        /\ pc # "failed"
        /\ pc = "parsed" =>
             /\ packet.header.id = asked.header.id
             /\ packet.header.a = 128 + (asked.header.a % 128)
             /\ packet.header.b % 16 = Codes[policy.response]
             /\ packet.questions = asked.questions
             /\ packet.answers = BlockRecords(asked.questions, policy)
             /\ packet.authorities = << >> /\ packet.resources = << >>

\* Where a name that begins at p ends in the message itself: behind its first
\* pointer, or its zero byte.
EndInPlace(p) ==
    LET end[q \in 0..Len(buf)] ==
            IF ~Has(q, 1) THEN Len(buf)
            ELSE CASE get(q) >= 192 -> q + 2
                   [] get(q) = 0    -> q + 1
                   [] OTHER -> IF Has(q + 1, get(q)) THEN end[q + 1 + get(q)] ELSE Len(buf)
    IN  end[p]

\* However often a name jumps, and wherever to, the fields behind it are read
\* from where it ends in place.
FieldsFollowName == pc \in {"named", "hosted"} => pos = EndInPlace(walk.from)

\* No message, whatever loops its pointers make, keeps read_qname going for
\* more turns than this.
WalkIsBounded == walk.turns <= (max_jumps + 2) * (Len(buf) + 1)
=============================================================================
