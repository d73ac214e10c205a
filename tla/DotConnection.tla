--------------------------- MODULE DotConnection ---------------------------
(***************************************************************************)
(* One DNS-over-TLS connection: DotApp::process_new (receiver/dot.rs) on   *)
(* the one end, and on the other a client that frames and reads as         *)
(* DotTransport::send_recv (transport/dot.rs) does, and may ask again on   *)
(* the same connection before it has the answers.                          *)
(*                                                                         *)
(* A message is a sequence of bytes, and a byte is below Byte (256 in the  *)
(* code): the prefix is the length in two bytes, whatever Byte is.  TLS    *)
(* and TCP are two streams of bytes that arrive one by one; a connection   *)
(* that breaks loses the end of both.                                      *)
(***************************************************************************)
EXTENDS Integers, Sequences, SequencesExt

CONSTANTS
    Byte,           \* how many values a byte has
    Questions,      \* messages a client sends
    Answers,        \* messages the pipeline returns
    MaxAsked        \* bound: queries on the connection

ASSUME DotAssumption ==
    /\ Byte \in Nat \ {0, 1}
    /\ Questions \cup Answers \subseteq Seq(0..Byte - 1)
    /\ MaxAsked \in Nat

VARIABLES
    up, down,       \* the bytes in flight to the server and to the client
    broken,         \* the client's end is closed
    pc,             \* where process_new is
    buf, query_len, \* what read_exact has of its buffer, and the body's length
    response,       \* the answer being written
    expected,       \* the length the client reads: -1 before its prefix is in
    got,            \* what the client has of its buffer
    asked,          \* history: queries sent
    handled,        \* history: queries given to handle_query
    answered,       \* history: what handle_query returned
    taken           \* history: answers the client has read

vars == <<up, down, broken, pc, buf, query_len, response,
          expected, got, asked, handled, answered, taken>>
client == <<broken, expected, got, asked, taken>>
server == <<pc, buf, query_len, response, handled, answered>>

-----------------------------------------------------------------------------
\* (len as u16).to_be_bytes()
to_be_bytes(len) == LET n == len % (Byte * Byte) IN <<n \div Byte, n % Byte>>
from_be_bytes(bytes) == bytes[1] * Byte + bytes[2]

\* Mutant: the prefix counts itself, as that of DNS over TCP does not.
PrefixOfFrame(message) == to_be_bytes(Len(message) + 2)

Prefix(message) == to_be_bytes(Len(message))

Init ==
    /\ up = << >> /\ down = << >> /\ broken = FALSE
    /\ pc = "length" /\ buf = << >> /\ query_len = 0 /\ response = << >>
    /\ expected = -1 /\ got = << >>
    /\ asked = << >> /\ handled = << >> /\ answered = << >> /\ taken = << >>

-----------------------------------------------------------------------------
(* The client.                                                             *)

\* write_all of the prefix and the message
Ask ==
    /\ ~broken /\ Len(asked) < MaxAsked
    /\ \E q \in Questions :
          /\ up' = up \o Prefix(q) \o q
          /\ asked' = Append(asked, q)
    /\ UNCHANGED <<down, broken, expected, got, taken, server>>

\* The client closes its end, or the connection breaks: some of what is under
\* way still arrives.
HangUp ==
    /\ ~broken
    /\ broken' = TRUE
    /\ \E n \in 0..Len(up) : up' = SubSeq(up, 1, n)
    /\ down' = << >>
    /\ UNCHANGED <<expected, got, asked, taken, server>>

\* read_exact of two bytes, then of as many as they say
Take ==
    /\ ~broken /\ down # << >>
    /\ down' = Tail(down)
    /\ LET bytes == Append(got, Head(down))
           complete == Len(bytes) = IF expected = -1 THEN 2 ELSE expected
           len == IF expected = -1 /\ complete THEN from_be_bytes(bytes) ELSE expected
       IN  IF ~complete
           THEN got' = bytes /\ UNCHANGED <<expected, taken>>
           ELSE /\ got' = << >>
                /\ expected' = IF expected = -1 /\ len # 0 THEN len ELSE -1
                /\ taken' = IF expected # -1 THEN Append(taken, bytes)
                            ELSE IF len = 0 THEN Append(taken, << >>) ELSE taken
    /\ UNCHANGED <<up, broken, asked, server>>

-----------------------------------------------------------------------------
(* process_new.                                                            *)

Wanted == IF pc = "length" THEN 2 ELSE query_len
Reading == pc \in {"length", "body"}

\* Mutant: read instead of read_exact takes what has arrived for the message.
SomeRead == Reading /\ buf # << >>

AllRead == Reading /\ Len(buf) = Wanted

\* A byte arrives for the read_exact that waits.
Receive ==
    /\ Reading /\ Len(buf) < Wanted /\ up # << >>
    /\ buf' = Append(buf, Head(up))
    /\ up' = Tail(up)
    /\ UNCHANGED <<down, pc, query_len, response, handled, answered, client>>

LengthRead ==
    /\ pc = "length" /\ Len(buf) = 2
    /\ query_len' = from_be_bytes(buf)
    /\ buf' = << >>
    /\ pc' = "body"
    /\ UNCHANGED <<up, down, response, handled, answered, client>>

BodyRead ==
    /\ pc = "body" /\ AllRead
    /\ handled' = Append(handled, buf)
    /\ buf' = << >>
    /\ pc' = "handling"
    /\ UNCHANGED <<up, down, query_len, response, answered, client>>

\* The stream ends, between messages or inside one: return None.
EndOfStream ==
    /\ Reading /\ Len(buf) < Wanted /\ up = << >> /\ broken
    /\ pc' = "closed"
    /\ UNCHANGED <<up, down, buf, query_len, response, handled, answered, client>>

\* The pipeline answers; an empty message has no header, and fails.
HandleQuery ==
    /\ pc = "handling" /\ query_len > 0
    /\ \E r \in Answers : response' = r /\ answered' = Append(answered, r)
    /\ pc' = "write length"
    /\ UNCHANGED <<up, down, buf, query_len, handled, client>>

\* The pipeline fails, or a write does: return None.
Fail ==
    /\ \/ pc = "handling"
       \/ pc \in {"write length", "write body"} /\ broken
    /\ pc' = "closed"
    /\ UNCHANGED <<up, down, buf, query_len, response, handled, answered, client>>

\* Mutant: the next query is read while the answer is still to be written.
WriteLengthAndGoOn ==
    /\ pc = "write length" /\ ~broken
    /\ down' = down \o Prefix(response)
    /\ pc' = "length"
    /\ UNCHANGED <<up, buf, query_len, response, handled, answered, client>>

WriteLength ==
    /\ pc = "write length" /\ ~broken
    /\ down' = down \o Prefix(response)
    /\ pc' = "write body"
    /\ UNCHANGED <<up, buf, query_len, response, handled, answered, client>>

\* write_all of the message, and flush
WriteBody ==
    /\ pc = "write body" /\ ~broken
    /\ down' = down \o response
    /\ pc' = "length"
    /\ UNCHANGED <<up, buf, query_len, response, handled, answered, client>>

Serve == Receive \/ LengthRead \/ BodyRead \/ EndOfStream \/ WriteLength \/ WriteBody

Next ==
    \/ Ask \/ HangUp \/ Take
    \/ Serve
    \/ HandleQuery \/ Fail

Spec == Init /\ [][Next]_vars

\* The streams deliver and the task of the connection is scheduled.  Nothing
\* bounds how long handle_query takes: no transport has a timeout.
FairSpec == Spec /\ WF_vars(Serve) /\ WF_vars(Take)

-----------------------------------------------------------------------------
(* Properties.                                                             *)

\* However the bytes arrive and wherever the stream breaks, what the pipeline
\* is given are the queries of the client, each whole and in the order they
\* were sent (receiver/dot.rs:67-87).
QueriesAsSent == IsPrefix(handled, asked)

\* "a 2-byte big-endian length prefix followed by the DNS message"
\* (receiver/dot.rs:22-23): what the client reads are the answers the pipeline
\* gave, each whole and in the order of the queries.
AnswersAsGiven == IsPrefix(taken, answered)

\* If the pipeline always returns, no query waits for ever behind others on
\* its connection: each is answered unless the connection ends.
ReturnsAlways == (pc = "handling") ~> (pc # "handling")
EveryQueryIsAnswered ==
    ReturnsAlways =>
        \A n \in 1..MaxAsked : (Len(asked) >= n) ~> (Len(taken) >= n \/ broken \/ pc = "closed")
=============================================================================
