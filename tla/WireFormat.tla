----------------------------- MODULE WireFormat -----------------------------
(***************************************************************************)
(* DNS messages as lib/buffer.rs and lib/protocol/ write them: bytes, the  *)
(* text of a name, and packets.                                            *)
(*                                                                         *)
(* A text is the sequence of its UTF-8 bytes.  The flag bits of a header   *)
(* are kept in their two bytes, a and b: reading and writing them are      *)
(* inverse bit by bit, the result code in b apart.  A time to live stays   *)
(* four bytes.                                                             *)
(***************************************************************************)
EXTENDS Integers, Sequences, SequencesExt

Byte == 0..255
Bytes == Seq(Byte)

Word == 0..65535
as_u16(n) == n % 65536
u16(hi, lo) == hi * 256 + lo
write_u16(n) == <<(n \div 256) % 256, n % 256>>

-----------------------------------------------------------------------------
(* Names.                                                                  *)

Dot == 46
Replacement == <<239, 191, 189>>   \* U+FFFD in UTF-8

lowercase(b) == IF b \in 65..90 THEN b + 32 ELSE b

\* Is byte i of a label part of well-formed text?  Of the characters beyond
\* ASCII only U+FFFD is looked for: labels hold no other.
Valid(label, i) ==
    \/ label[i] < 128
    \/ \E start \in (i - 2)..i : /\ start >= 1 /\ start + 2 <= Len(label)
                                 /\ SubSeq(label, start, start + 2) = Replacement

\* String::from_utf8_lossy(label).to_lowercase()
LossyLower(label) ==
    FlattenSeq([i \in DOMAIN label |->
        IF Valid(label, i) THEN <<lowercase(label[i])>> ELSE Replacement])

\* qname.split('.'): where the labels of a text begin, at least one even if
\* the text is empty, and how long each of them is.
LabelStarts(text) == {1} \cup {i \in 2..(Len(text) + 1) : text[i - 1] = Dot}
LabelLength(text, start) ==
    Min({i \in start..(Len(text) + 1) : i > Len(text) \/ text[i] = Dot}) - start

\* write_qname refuses a label of more than 63 bytes.
NameFits(text) == \A start \in LabelStarts(text) : LabelLength(text, start) <= 63

\* Each label behind its length: what was a dot becomes the next label's.
write_qname(text) ==
    [i \in 1..(Len(text) + 1) |->
        IF i \in LabelStarts(text) THEN LabelLength(text, i) ELSE text[i - 1]] \o <<0>>

-----------------------------------------------------------------------------
(* Packets.                                                                *)

A == 1
NS == 2
CNAME == 5
MX == 15
TXT == 16
AAAA == 28

\* ResultCode::from_num in the low half of b: codes above 5 read as NOERROR.
from_num(b) == IF b % 16 > 5 THEN b - (b % 16) ELSE b

Header == [id : Byte \X Byte, a : Byte, b : Byte,
           questions : Word, answers : Word,
           authoritative_entries : Word, resource_entries : Word]

NewHeader == [id |-> <<0, 0>>, a |-> 0, b |-> 0, questions |-> 0, answers |-> 0,
              authoritative_entries |-> 0, resource_entries |-> 0]

NewPacket == [header |-> NewHeader, questions |-> << >>, answers |-> << >>,
              authorities |-> << >>, resources |-> << >>]

WriteHeader(h) ==
    h.id \o <<h.a, h.b>> \o write_u16(h.questions) \o write_u16(h.answers)
      \o write_u16(h.authoritative_entries) \o write_u16(h.resource_entries)

WriteQuestion(q) == write_qname(q.name) \o write_u16(q.qtype) \o write_u16(1)

\* The data of a CNAME is its host.  Other records are counted but not written.
WriteRecord(r) ==
    LET fixed == write_qname(r.domain) \o write_u16(r.type) \o write_u16(1) \o r.ttl
        data  == IF r.type = CNAME THEN write_qname(r.data) ELSE r.data
    IN  IF r.type \in {A, AAAA, CNAME}
        THEN fixed \o write_u16(Len(data)) \o data
        ELSE << >>

\* DnsPacket::write sets the counts to the lengths of the lists.
WithCounts(p) ==
    [p EXCEPT !.header = [@ EXCEPT !.questions = as_u16(Len(p.questions)),
                                   !.answers = as_u16(Len(p.answers)),
                                   !.authoritative_entries = as_u16(Len(p.authorities)),
                                   !.resource_entries = as_u16(Len(p.resources))]]

Records(p) == p.answers \o p.authorities \o p.resources

\* The names that write puts down; it fails if one does not fit.
Writable(p) ==
    /\ \A q \in ToSet(p.questions) : NameFits(q.name)
    /\ \A r \in ToSet(Records(p)) :
          /\ r.type \in {A, AAAA, CNAME} => NameFits(r.domain)
          /\ r.type = CNAME => NameFits(r.data)

Write(p) ==
    WriteHeader(WithCounts(p).header)
      \o FlattenSeq([i \in DOMAIN p.questions |-> WriteQuestion(p.questions[i])])
      \o FlattenSeq([i \in DOMAIN Records(p) |-> WriteRecord(Records(p)[i])])

\* The query that the tool bin/g.rs sends for a domain.
ToolQuery(domain) ==
    [NewPacket EXCEPT !.header = [@ EXCEPT !.id = write_u16(6666), !.a = 1],
                      !.questions = <<[name |-> domain, qtype |-> A]>>]
=============================================================================
