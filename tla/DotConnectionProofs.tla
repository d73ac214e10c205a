------------------------ MODULE DotConnectionProofs ------------------------
(***************************************************************************)
(* Theorems about DotConnection: the messages of a connection arrive as    *)
(* they were sent, in both directions.                                     *)
(*                                                                         *)
(* Both ends read in the same way, so the proof has one notion of a        *)
(* direction, Delivers, and one lemma for each thing that happens on it: a *)
(* message is sent, a byte is read, a prefix is complete, a message is     *)
(* complete.  The bytes of a direction are never looked at as a            *)
(* concatenation of all messages, which would be a recursive definition:   *)
(* there is a stream, and a sequence of places where it is cut into        *)
(* frames.                                                                 *)
(***************************************************************************)
EXTENDS DotConnection, TLAPS, SequenceTheorems

\* What the two bytes of a prefix can say the length of.
Fits(messages) == \A m \in messages : Len(m) < Byte * Byte

Messages == {m \in Seq(Nat) : Len(m) < Byte * Byte}

-----------------------------------------------------------------------------
(* Sequences of bytes.                                                     *)

\* The stream has bytes behind its first from bytes.
Holds(bytes, stream, from) ==
    /\ from + Len(bytes) =< Len(stream)
    /\ \A i \in 1..Len(bytes) : bytes[i] = stream[from + i]

\* Bytes that are there in two parts are there.
LEMMA HoldsParts ==
    ASSUME NEW a \in Seq(Nat), NEW b \in Seq(Nat), NEW stream \in Seq(Nat), NEW from \in Nat
    PROVE  Holds(a \o b, stream, from)
             <=> Holds(a, stream, from) /\ Holds(b, stream, from + Len(a))
<1>1. /\ Len(a) \in Nat /\ Len(b) \in Nat /\ Len(a \o b) = Len(a) + Len(b)
      /\ \A i \in 1..Len(a) : (a \o b)[i] = a[i]
      /\ \A i \in 1..Len(b) : (a \o b)[Len(a) + i] = b[i]
  OBVIOUS
<1>2. ASSUME Holds(a \o b, stream, from)
      PROVE  Holds(a, stream, from) /\ Holds(b, stream, from + Len(a))
  <2>1. \A i \in 1..Len(b) : b[i] = stream[from + Len(a) + i]
    <3> TAKE i \in 1..Len(b)
    <3>1. Len(a) + i \in 1..Len(a \o b) /\ from + (Len(a) + i) = from + Len(a) + i
      BY <1>1
    <3> QED  BY <1>1, <1>2, <3>1 DEF Holds
  <2> QED  BY <1>1, <1>2, <2>1 DEF Holds
<1>3. ASSUME Holds(a, stream, from), Holds(b, stream, from + Len(a))
      PROVE  Holds(a \o b, stream, from)
  <2>1. ASSUME NEW i \in 1..Len(a \o b)
        PROVE  (a \o b)[i] = stream[from + i]
    <3>1. CASE i \in 1..Len(a)
      BY <1>1, <1>3, <3>1 DEF Holds
    <3>2. CASE i \notin 1..Len(a)
      <4>1. i - Len(a) \in 1..Len(b) /\ i = Len(a) + (i - Len(a))
            /\ from + Len(a) + (i - Len(a)) = from + i
        BY <1>1, <3>2
      <4> QED  BY <1>1, <1>3, <4>1 DEF Holds
    <3> QED  BY <3>1, <3>2
  <2> QED  BY <1>1, <1>3, <2>1 DEF Holds
<1> QED  BY <1>2, <1>3

\* Two sequences that are at one place and equally long are one.
LEMMA HoldsOne ==
    ASSUME NEW a \in Seq(Nat), NEW b \in Seq(Nat), NEW stream \in Seq(Nat), NEW from \in Nat,
           Holds(a, stream, from), Holds(b, stream, from), Len(a) = Len(b)
    PROVE  a = b
<1>1. \A i \in 1..Len(a) : a[i] = b[i]
  BY DEF Holds
<1> QED  BY <1>1, SeqEqual

\* A stream that grows keeps what it has.
LEMMA HoldsMore ==
    ASSUME NEW a \in Seq(Nat), NEW b \in Seq(Nat), NEW stream \in Seq(Nat), NEW from \in Nat,
           Holds(a, stream, from)
    PROVE  Holds(a, stream \o b, from)
<1>1. \A i \in 1..Len(stream) : (stream \o b)[i] = stream[i]
  OBVIOUS
<1>2. \A i \in 1..Len(a) : from + i \in 1..Len(stream)
  BY DEF Holds
<1> QED  BY <1>1, <1>2 DEF Holds

\* A concatenation is as long as its parts, and associative.
LEMMA Concat ==
    ASSUME NEW a \in Seq(Nat), NEW b \in Seq(Nat)
    PROVE  /\ a \o b \in Seq(Nat) /\ Len(a \o b) = Len(a) + Len(b)
           /\ Len(a) \in Nat /\ Len(b) \in Nat /\ Len(a \o b) \in Nat
OBVIOUS

LEMMA Associative ==
    ASSUME NEW a \in Seq(Nat), NEW b \in Seq(Nat), NEW c \in Seq(Nat)
    PROVE  (a \o b) \o c = a \o (b \o c)
OBVIOUS

\* The byte that is read moves from one side of the seam to the other.
LEMMA ByteMoves ==
    ASSUME NEW a \in Seq(Nat), NEW b \in Seq(Nat), NEW c \in Seq(Nat), b # << >>
    PROVE  \E x \in Nat, t \in Seq(Nat) :
              /\ x = Head(b) /\ t = Tail(b)
              /\ Append(a, x) \in Seq(Nat) /\ Append(a, x) \o (t \o c) = a \o (b \o c)
<1>1. /\ Head(b) \in Nat /\ Tail(b) \in Seq(Nat) /\ b = <<Head(b)>> \o Tail(b)
      /\ <<Head(b)>> \in Seq(Nat)
  OBVIOUS
<1>2. PICK x \in Nat, t \in Seq(Nat) : x = Head(b) /\ t = Tail(b)
  BY <1>1
<1>3. <<x>> \in Seq(Nat) /\ Append(a, x) = a \o <<x>> /\ Append(a, x) \in Seq(Nat)
  OBVIOUS
<1>4. (a \o <<x>>) \o (t \o c) = a \o ((<<x>> \o t) \o c)
  <2>1. t \o c \in Seq(Nat) /\ <<x>> \in Seq(Nat)
    OBVIOUS
  <2>2. (a \o <<x>>) \o (t \o c) = a \o (<<x>> \o (t \o c))
    BY <2>1, Associative
  <2>3. (<<x>> \o t) \o c = <<x>> \o (t \o c)
    BY <2>1, Associative
  <2> QED  BY <2>2, <2>3
<1>5. Append(a, x) \o (t \o c) = a \o (b \o c)
  BY <1>1, <1>2, <1>3, <1>4, Zenon
<1> QED  BY <1>2, <1>3, <1>5

-----------------------------------------------------------------------------
(* The prefix.                                                             *)

\* A prefix says the length of every message that fits.
LEMMA PrefixSaysLength ==
    ASSUME NEW m \in Messages
    PROVE  /\ Prefix(m) \in Seq(Nat) /\ Len(Prefix(m)) = 2
           /\ from_be_bytes(Prefix(m)) = Len(m)
<1>1. m \in Seq(Nat) /\ Len(m) \in Nat /\ Len(m) < Byte * Byte
  BY DEF Messages
<1>2. Byte \in Nat /\ Byte > 1 /\ Byte * Byte \in Nat
  BY DotAssumption
<1>3. \A n \in Nat : n < Byte * Byte => n % (Byte * Byte) = n
  BY <1>2
<1>4. \A n \in Nat : /\ n \div Byte \in Nat /\ n % Byte \in Nat
                     /\ (n \div Byte) * Byte + (n % Byte) = n
  BY <1>2
<1>5. Prefix(m) = <<Len(m) \div Byte, Len(m) % Byte>>
  BY <1>1, <1>3 DEF Prefix, to_be_bytes
<1> QED  BY <1>1, <1>4, <1>5 DEF from_be_bytes
-----------------------------------------------------------------------------
(* One direction of the connection.                                        *)

\* The stream is the frames of the messages, and is cut between them.
Framed(stream, cut, messages) ==
    /\ Len(cut) = Len(messages) + 1 /\ cut[1] = 0 /\ cut[Len(cut)] = Len(stream)
    /\ \A i \in 1..Len(messages) :
          /\ cut[i + 1] = cut[i] + 2 + Len(messages[i])
          /\ Holds(Prefix(messages[i]), stream, cut[i])
          /\ Holds(messages[i], stream, cut[i] + 2)

\* The reader has done with so many of the messages, has read head bytes of the
\* next one's prefix and knows its length if these are both, and has got some
\* bytes since; what it has yet to read is what is left of the stream.
Reads(stream, cut, messages, done, head, len, have, rest) ==
    /\ Len(done) =< Len(messages)
    /\ \A i \in 1..Len(done) : done[i] = messages[i]
    /\ head # 0 => Len(done) < Len(messages) /\ len = Len(messages[Len(done) + 1])
    /\ Holds(have \o rest, stream, cut[Len(done) + 1] + head)
    /\ cut[Len(done) + 1] + head + Len(have \o rest) = Len(stream)

Delivers(messages, done, head, len, have, rest) ==
    \E stream \in Seq(Nat), cut \in Seq(Nat) :
       /\ Framed(stream, cut, messages)
       /\ Reads(stream, cut, messages, done, head, len, have, rest)

\* Nothing was sent, nothing is there.
LEMMA NothingSent == \A len : Delivers(<< >>, << >>, 0, len, << >>, << >>)
<1> TAKE len
<1>1. Framed(<< >>, <<0>>, << >>) /\ Reads(<< >>, <<0>>, << >>, << >>, 0, len, << >>, << >>)
  BY DEF Framed, Reads, Holds
<1>2. << >> \in Seq(Nat) /\ <<0>> \in Seq(Nat) /\ << >> \in Seq(Messages)
  OBVIOUS
<1> QED  BY <1>1, <1>2 DEF Delivers

\* A message is sent: its frame is the end of the stream.
LEMMA MessageSent ==
    ASSUME NEW messages, NEW done, NEW head, NEW len, NEW have, NEW rest, NEW m,
           messages \in Seq(Messages), done \in Seq(Messages), head \in {0, 2},
           have \in Seq(Nat), rest \in Seq(Nat), m \in Messages,
           Delivers(messages, done, head, len, have, rest)
    PROVE  Delivers(Append(messages, m), done, head, len, have, rest \o (Prefix(m) \o m))
<1>0. m \in Seq(Nat) /\ Len(m) \in Nat /\ Prefix(m) \in Seq(Nat) /\ Len(Prefix(m)) = 2
  BY PrefixSaysLength DEF Messages
<1>1. PICK stream, cut :
          /\ stream \in Seq(Nat) /\ cut \in Seq(Nat)
          /\ Framed(stream, cut, messages)
          /\ Reads(stream, cut, messages, done, head, len, have, rest)
  BY DEF Delivers
<1>2. PICK frame : frame = Prefix(m) \o m
  OBVIOUS
<1>3. frame \in Seq(Nat) /\ Len(frame) \in Nat /\ Len(frame) = 2 + Len(m)
  BY <1>0, <1>2, Concat
<1>4. PICK stream2 : stream2 = stream \o frame
  OBVIOUS
<1>5. /\ stream2 \in Seq(Nat) /\ Len(stream2) \in Nat
      /\ Len(stream2) = Len(stream) + Len(frame) /\ Len(stream) \in Nat
  BY <1>1, <1>3, <1>4, Concat
<1>6. PICK cut2 : cut2 = Append(cut, Len(stream2))
  OBVIOUS
<1>7. /\ cut2 \in Seq(Nat) /\ Len(cut2) = Len(cut) + 1
      /\ cut2[Len(cut) + 1] = Len(stream2)
      /\ \A i \in 1..Len(cut) : cut2[i] = cut[i]
  BY <1>1, <1>5, <1>6, AppendProperties
<1>8. PICK messages2 : messages2 = Append(messages, m)
  OBVIOUS
<1>9. /\ messages2 \in Seq(Messages) /\ Len(messages2) = Len(messages) + 1
      /\ messages2[Len(messages) + 1] = m
      /\ \A i \in 1..Len(messages) : messages2[i] = messages[i]
  BY <1>8, AppendProperties
<1>10. /\ Len(messages) \in Nat /\ Len(done) \in Nat
       /\ Len(cut) = Len(messages) + 1 /\ cut[Len(cut)] = Len(stream) /\ cut[1] = 0
       /\ \A i \in 1..Len(cut) : cut[i] \in Nat
  <2>1. Len(messages) \in Nat /\ Len(done) \in Nat /\ \A i \in 1..Len(cut) : cut[i] \in Nat
    BY <1>1, LenProperties, ElementOfSeq
  <2> QED  BY <1>1, <2>1 DEF Framed
<1>11. Holds(frame, stream2, Len(stream))
  <2>1. \A i \in 1..Len(frame) : stream2[Len(stream) + i] = frame[i]
    BY <1>1, <1>3, <1>4
  <2> QED  BY <1>5, <2>1 DEF Holds
<1>12. ASSUME NEW i, i \in 1..Len(messages2)
       PROVE  /\ cut2[i + 1] = cut2[i] + 2 + Len(messages2[i])
              /\ Holds(Prefix(messages2[i]), stream2, cut2[i])
              /\ Holds(messages2[i], stream2, cut2[i] + 2)
  <2>1. CASE i \in 1..Len(messages)
    <3>0. i \in 1..Len(cut) /\ i + 1 \in 1..Len(cut)
      BY <1>10, <2>1
    <3>1. messages[i] \in Messages
      BY <2>1, ElementOfSeq
    <3>2. /\ cut[i + 1] = cut[i] + 2 + Len(messages[i])
          /\ Holds(Prefix(messages[i]), stream, cut[i])
          /\ Holds(messages[i], stream, cut[i] + 2)
      BY <1>1, <2>1 DEF Framed
    <3>3. /\ Prefix(messages[i]) \in Seq(Nat) /\ messages[i] \in Seq(Nat)
          /\ cut[i] \in Nat /\ cut[i] + 2 \in Nat
      <4>1. cut[i] \in Nat
        BY <1>10, <3>0
      <4>2. cut[i] + 2 \in Nat
        BY <4>1
      <4>3. Prefix(messages[i]) \in Seq(Nat)
        BY <3>1, PrefixSaysLength
      <4>4. messages[i] \in Seq(Nat)
        BY <3>1 DEF Messages
      <4> QED  BY <4>1, <4>2, <4>3, <4>4
    <3>4. /\ Holds(Prefix(messages[i]), stream2, cut[i])
          /\ Holds(messages[i], stream2, cut[i] + 2)
      BY <1>1, <1>3, <1>4, <3>2, <3>3, HoldsMore
    <3> QED  BY <1>7, <1>9, <2>1, <3>0, <3>2, <3>4
  <2>2. CASE i = Len(messages) + 1
    <3>1. i = Len(cut) /\ i \in 1..Len(cut)
      BY <1>10, <2>2
    <3>2. cut2[i] = Len(stream) /\ cut2[i + 1] = Len(stream2) /\ messages2[i] = m
      BY <1>7, <1>9, <1>10, <2>2, <3>1
    <3>3. Len(stream2) = Len(stream) + 2 + Len(m)
      BY <1>0, <1>3, <1>5
    <3>4. Holds(Prefix(m), stream2, Len(stream)) /\ Holds(m, stream2, Len(stream) + 2)
      BY <1>0, <1>2, <1>5, <1>11, HoldsParts
    <3> QED  BY <3>2, <3>3, <3>4
  <2> QED  BY <1>9, <1>10, <1>12, <2>1, <2>2
<1>13. Framed(stream2, cut2, messages2)
  <2>1. Len(cut2) = Len(messages2) + 1 /\ cut2[1] = 0 /\ cut2[Len(cut2)] = Len(stream2)
    BY <1>7, <1>9, <1>10
  <2> QED  BY <1>12, <2>1 DEF Framed
<1>14. Reads(stream2, cut2, messages2, done, head, len, have, rest \o frame)
  <2> DEFINE at == Len(done) + 1
  <2>1. /\ Len(done) =< Len(messages)
        /\ \A i \in 1..Len(done) : done[i] = messages[i]
        /\ head # 0 => Len(done) < Len(messages) /\ len = Len(messages[at])
        /\ Holds(have \o rest, stream, cut[at] + head)
        /\ cut[at] + head + Len(have \o rest) = Len(stream)
    BY <1>1 DEF Reads
  <2>2. at \in 1..Len(cut)
    BY <1>10, <2>1
  <2>3. PICK from : from = cut[at] + head
    OBVIOUS
  <2> HIDE DEF at
  <2>4. cut2[at] = cut[at] /\ from \in Nat
    BY <1>7, <1>10, <2>2, <2>3
  <2>5. PICK pending : pending = have \o rest
    OBVIOUS
  <2>6. /\ pending \in Seq(Nat) /\ Len(pending) \in Nat
        /\ have \o (rest \o frame) = pending \o frame
        /\ Len(pending \o frame) = Len(pending) + Len(frame)
    BY <1>3, <2>5, Associative, Concat
  <2>7. Holds(pending, stream, from) /\ from + Len(pending) = Len(stream)
    BY <2>1, <2>3, <2>5
  <2>8. Holds(pending \o frame, stream2, from)
    <3>1. Holds(pending, stream2, from)
      BY <1>1, <1>3, <1>4, <2>4, <2>6, <2>7, HoldsMore
    <3>2. Holds(frame, stream2, from + Len(pending))
      BY <1>11, <2>7
    <3> QED  BY <1>3, <1>5, <2>4, <2>6, <3>1, <3>2, HoldsParts
  <2>9. from + Len(pending \o frame) = Len(stream2)
    <3>1. PICK all : all = Len(pending \o frame)
      OBVIOUS
    <3>2. all = Len(pending) + Len(frame)
      BY <2>6, <3>1
    <3>3. Len(pending) \in Nat /\ Len(frame) \in Nat /\ from \in Nat /\ Len(stream) \in Nat
      BY <1>3, <1>5, <2>4, <2>6
    <3>4. Len(stream2) = Len(stream) + Len(frame) /\ from + Len(pending) = Len(stream)
      BY <1>5, <2>7
    <3>5. PICK p, f, t, u : p = Len(pending) /\ f = Len(frame) /\ t = Len(stream) /\ u = Len(stream2)
      OBVIOUS
    <3>6. from + all = u
      <4>1. p \in Nat /\ f \in Nat /\ from \in Nat /\ t \in Nat
        BY <3>3, <3>5
      <4>2. all = p + f /\ u = t + f /\ from + p = t
        BY <3>2, <3>4, <3>5
      <4> QED  BY <4>1, <4>2
    <3> QED  BY <3>1, <3>5, <3>6
  <2>10. Len(done) =< Len(messages2) /\ \A i \in 1..Len(done) : done[i] = messages2[i]
    BY <1>9, <1>10, <2>1
  <2>11. head # 0 => Len(done) < Len(messages2) /\ len = Len(messages2[at])
    <3>1. SUFFICES ASSUME head # 0
                   PROVE  Len(done) < Len(messages2) /\ len = Len(messages2[at])
      OBVIOUS
    <3>2. Len(done) < Len(messages) /\ len = Len(messages[at])
      BY <2>1, <3>1
    <3>3. Len(done) < Len(messages2) /\ at \in 1..Len(messages)
      BY <1>9, <1>10, <3>2 DEF at
    <3>4. messages2[at] = messages[at]
      BY <1>9, <3>3
    <3> QED  BY <3>2, <3>3, <3>4
  <2> QED  BY <2>3, <2>4, <2>6, <2>8, <2>9, <2>10, <2>11 DEF Reads, at
<1> QED  BY <1>1, <1>2, <1>5, <1>7, <1>8, <1>13, <1>14 DEF Delivers

\* A byte is read: it was left, and is got.
LEMMA ByteRead ==
    ASSUME NEW messages, NEW done, NEW head, NEW len, NEW have, NEW rest, NEW more,
           have \in Seq(Nat), rest \in Seq(Nat), more \in Seq(Nat), rest # << >>,
           Delivers(messages, done, head, len, have, rest \o more)
    PROVE  Delivers(messages, done, head, len, Append(have, Head(rest)), Tail(rest) \o more)
<1>1. PICK x \in Nat, t \in Seq(Nat) :
          /\ x = Head(rest) /\ t = Tail(rest)
          /\ Append(have, x) \in Seq(Nat)
          /\ Append(have, x) \o (t \o more) = have \o (rest \o more)
  BY ByteMoves, Zenon
<1>2. PICK have2, rest2 : have2 = Append(have, x) /\ rest2 = t \o more
  OBVIOUS
<1>3. have2 \o rest2 = have \o (rest \o more)
  BY <1>1, <1>2, Zenon
<1>4. \A stream, cut : Reads(stream, cut, messages, done, head, len, have, rest \o more)
                         => Reads(stream, cut, messages, done, head, len, have2, rest2)
  BY <1>3 DEF Reads
<1> QED  BY <1>1, <1>2, <1>4 DEF Delivers

\* The two bytes of a prefix are read: they say how long the next message is.
LEMMA PrefixRead ==
    ASSUME NEW messages, NEW done, NEW len, NEW have, NEW rest,
           messages \in Seq(Messages), done \in Seq(Messages),
           have \in Seq(Nat), rest \in Seq(Nat), Len(have) = 2,
           Delivers(messages, done, 0, len, have, rest)
    PROVE  Delivers(messages, done, 2, from_be_bytes(have), << >>, rest)
<1>1. PICK stream, cut :
          /\ stream \in Seq(Nat) /\ cut \in Seq(Nat)
          /\ Framed(stream, cut, messages)
          /\ Reads(stream, cut, messages, done, 0, len, have, rest)
  BY DEF Delivers
<1>2. PICK n, from : n = Len(done) + 1 /\ from = cut[n]
  OBVIOUS
<1>3. /\ Len(messages) \in Nat /\ Len(done) \in Nat /\ Len(cut) = Len(messages) + 1
      /\ Len(done) =< Len(messages) /\ cut[Len(cut)] = Len(stream) /\ Len(stream) \in Nat
      /\ \A i \in 1..Len(done) : done[i] = messages[i]
  <2>1. Len(messages) \in Nat /\ Len(done) \in Nat /\ Len(stream) \in Nat
    BY <1>1, LenProperties
  <2> QED  BY <1>1, <2>1 DEF Framed, Reads
<1>4. from \in Nat /\ n \in 1..Len(cut) /\ n \in Nat
  <2>1. n \in 1..Len(cut) /\ n \in Nat
    BY <1>2, <1>3
  <2> QED  BY <1>1, <1>2, <2>1, ElementOfSeq
<1>5. Holds(have \o rest, stream, from + 0) /\ from + 0 + Len(have \o rest) = Len(stream)
  BY <1>1, <1>2 DEF Reads
<1>6. Len(have \o rest) = 2 + Len(rest) /\ Len(rest) \in Nat
  BY Concat
<1>7. Holds(have, stream, from) /\ Holds(rest, stream, from + 2)
  <2>1. from + 0 = from
    BY <1>4
  <2> QED  BY <1>1, <1>4, <1>5, <2>1, HoldsParts
<1>8. n \in 1..Len(messages)
  <2>1. from # Len(stream)
    <3>1. PICK all : all = Len(have \o rest)
      OBVIOUS
    <3> QED  BY <1>3, <1>4, <1>5, <1>6, <3>1
  <2> QED  BY <1>2, <1>3, <1>4, <2>1
<1>9. messages[n] \in Messages /\ Holds(Prefix(messages[n]), stream, from)
  BY <1>1, <1>2, <1>8, ElementOfSeq DEF Framed
<1>10. have = Prefix(messages[n]) /\ from_be_bytes(have) = Len(messages[n])
  <2>1. /\ Prefix(messages[n]) \in Seq(Nat) /\ Len(Prefix(messages[n])) = 2
        /\ from_be_bytes(Prefix(messages[n])) = Len(messages[n])
    BY <1>9, PrefixSaysLength
  <2>2. have = Prefix(messages[n])
    BY <1>1, <1>4, <1>7, <1>9, <2>1, HoldsOne
  <2> QED  BY <2>1, <2>2
<1>11. Reads(stream, cut, messages, done, 2, from_be_bytes(have), << >>, rest)
  <2>1. << >> \o rest = rest
    BY ConcatEmptySeq
  <2>2. from + 2 + Len(rest) = Len(stream)
    <3>1. PICK all : all = Len(have \o rest)
      OBVIOUS
    <3> QED  BY <1>3, <1>4, <1>5, <1>6, <3>1
  <2>3. Len(done) < Len(messages)
    BY <1>2, <1>3, <1>8
  <2> QED  BY <1>2, <1>3, <1>7, <1>10, <2>1, <2>2, <2>3 DEF Reads
<1> QED  BY <1>1, <1>11 DEF Delivers

\* As many bytes are read as the prefix said: they are the next message.
LEMMA BodyIsRead ==
    ASSUME NEW messages, NEW done, NEW len, NEW have, NEW rest, NEW none,
           messages \in Seq(Messages), done \in Seq(Messages),
           have \in Seq(Nat), rest \in Seq(Nat), Len(have) = len,
           Delivers(messages, done, 2, len, have, rest)
    PROVE  /\ have \in Messages
           /\ Delivers(messages, Append(done, have), 0, none, << >>, rest)
<1>1. PICK stream, cut :
          /\ stream \in Seq(Nat) /\ cut \in Seq(Nat)
          /\ Framed(stream, cut, messages)
          /\ Reads(stream, cut, messages, done, 2, len, have, rest)
  BY DEF Delivers
<1>2. PICK n, from : n = Len(done) + 1 /\ from = cut[n] + 2
  OBVIOUS
<1>3. /\ Len(messages) \in Nat /\ Len(done) \in Nat /\ Len(cut) = Len(messages) + 1
      /\ Len(done) < Len(messages) /\ len = Len(messages[n])
      /\ \A i \in 1..Len(done) : done[i] = messages[i]
  <2>1. Len(messages) \in Nat /\ Len(done) \in Nat
    BY LenProperties
  <2> QED  BY <1>1, <1>2, <2>1 DEF Framed, Reads
<1>4. n \in 1..Len(messages) /\ n \in 1..Len(cut) /\ n \in Nat
  BY <1>2, <1>3
<1>5. from \in Nat /\ cut[n] \in Nat
  <2>1. cut[n] \in Nat
    BY <1>1, <1>4, ElementOfSeq
  <2> QED  BY <1>2, <2>1
<1>6. Holds(have \o rest, stream, from) /\ from + Len(have \o rest) = Len(stream)
  BY <1>1, <1>2 DEF Reads
<1>7. Holds(have, stream, from) /\ Holds(rest, stream, from + Len(have))
  BY <1>1, <1>5, <1>6, HoldsParts
<1>8. /\ messages[n] \in Messages /\ Holds(messages[n], stream, from)
      /\ cut[n + 1] = from + Len(have)
  <2>1. /\ Holds(messages[n], stream, cut[n] + 2)
        /\ cut[n + 1] = cut[n] + 2 + Len(messages[n])
    BY <1>1, <1>4 DEF Framed
  <2> QED  BY <1>2, <1>3, <1>4, <2>1, ElementOfSeq
<1>9. have = messages[n]
  BY <1>1, <1>3, <1>5, <1>7, <1>8, HoldsOne DEF Messages
<1>10. PICK done2 : done2 = Append(done, have)
  OBVIOUS
<1>11. /\ Len(done2) = n /\ done2[n] = messages[n]
       /\ \A i \in 1..Len(done) : done2[i] = done[i]
  BY <1>2, <1>8, <1>9, <1>10, AppendProperties
<1>12. Reads(stream, cut, messages, done2, 0, none, << >>, rest)
  <2>1. << >> \o rest = rest
    BY ConcatEmptySeq
  <2>2. PICK to : to = cut[n + 1]
    OBVIOUS
  <2>3. to \in Nat /\ to + 0 = to /\ to = from + Len(have)
    BY <1>5, <1>8, <2>2, LenProperties
  <2>4. to + Len(rest) = Len(stream)
    <3>1. Len(have \o rest) = Len(have) + Len(rest) /\ Len(rest) \in Nat /\ Len(have) \in Nat
      BY Concat
    <3>2. PICK all : all = Len(have \o rest)
      OBVIOUS
    <3> QED  BY <1>5, <1>6, <2>3, <3>1, <3>2
  <2>5. Len(done2) =< Len(messages)
    BY <1>4, <1>11
  <2>6. ASSUME NEW i, i \in 1..Len(done2)
        PROVE  done2[i] = messages[i]
    <3>1. i \in 1..Len(done) \/ i = n
      BY <1>2, <1>3, <1>11, <2>6
    <3> QED  BY <1>3, <1>11, <3>1
  <2>7. Holds(rest, stream, to + 0) /\ to + 0 + Len(rest) = Len(stream)
    BY <1>7, <2>3, <2>4
  <2> QED  BY <1>11, <2>1, <2>2, <2>5, <2>6, <2>7 DEF Reads
<1> QED  BY <1>1, <1>8, <1>9, <1>10, <1>12 DEF Delivers

\* A length that is not known yet may be any.
LEMMA NoLength ==
    ASSUME NEW messages, NEW done, NEW len, NEW len2, NEW have, NEW rest,
           Delivers(messages, done, 0, len, have, rest)
    PROVE  Delivers(messages, done, 0, len2, have, rest)
BY DEF Delivers, Reads

\* What is done with is the beginning of what was sent.
Begins(done, messages) ==
    Len(done) =< Len(messages) /\ \A i \in 1..Len(done) : done[i] = messages[i]

LEMMA DeliversInOrder ==
    ASSUME NEW messages, NEW done, NEW head, NEW len, NEW have, NEW rest,
           Delivers(messages, done, head, len, have, rest)
    PROVE  Begins(done, messages)
BY DEF Delivers, Reads, Begins

\* It stays so when more is sent.
LEMMA BeginsMore ==
    ASSUME NEW messages \in Seq(Messages), NEW done \in Seq(Messages), NEW m \in Messages,
           Begins(done, messages)
    PROVE  Begins(done, Append(messages, m))
BY DEF Begins

\* In the words of the community modules.
LEMMA BeginsIsPrefix ==
    ASSUME NEW messages \in Seq(Messages), NEW done \in Seq(Messages), Begins(done, messages)
    PROVE  IsPrefix(done, messages)
<1>1. PICK n \in Nat : n = Len(done) /\ n =< Len(messages)
  BY DEF Begins
<1>2. \A i \in 1..n : done[i] \in Messages /\ messages[i] \in Messages /\ done[i] = messages[i]
  BY <1>1 DEF Begins
<1>3. /\ SubSeq(done, 1, n) \in Seq(Messages) /\ SubSeq(messages, 1, n) \in Seq(Messages)
      /\ Len(SubSeq(done, 1, n)) = n /\ Len(SubSeq(messages, 1, n)) = n
      /\ \A i \in 1..n : SubSeq(done, 1, n)[i] = done[i] /\ SubSeq(messages, 1, n)[i] = messages[i]
  BY <1>1
<1>4. SubSeq(done, 1, n) = SubSeq(messages, 1, n)
  BY <1>2, <1>3, SeqEqual
<1> QED  BY <1>1, <1>4 DEF IsPrefix

-----------------------------------------------------------------------------
(* The server's direction.                                                 *)

ServerTypes ==
    /\ asked \in Seq(Messages) /\ handled \in Seq(Messages)
    /\ up \in Seq(Nat) /\ buf \in Seq(Nat)

\* What the server has read of the prefix of the message it is at.
PrefixBytes == IF pc = "body" THEN 2 ELSE 0

\* What the server reads, is about to read and, if the connection broke, will
\* never read are the queries of the client.
QueriesArrive ==
    /\ ServerTypes
    /\ Begins(handled, asked)
    /\ pc # "closed" =>
          \E lost \in Seq(Nat) :
             /\ ~broken => lost = << >>
             /\ Delivers(asked, handled, PrefixBytes, query_len, buf, up \o lost)

\* The client adds a query to the stream.
LEMMA AskKeepsQueries ==
    ASSUME Fits(Questions), QueriesArrive, Ask
    PROVE  QueriesArrive'
<1>1. PICK q \in Questions : up' = up \o Prefix(q) \o q /\ asked' = Append(asked, q)
  BY DEF Ask
<1>2. q \in Messages /\ q \in Seq(Nat) /\ Prefix(q) \in Seq(Nat)
  <2>1. q \in Seq(0..Byte - 1) /\ Len(q) < Byte * Byte /\ 0..Byte - 1 \subseteq Nat
    BY DotAssumption DEF Fits
  <2>2. q \in Seq(Nat)
    BY <2>1, SeqMonotonic
  <2> QED  BY <2>1, <2>2, PrefixSaysLength DEF Messages
<1>3. ServerTypes /\ ~broken /\ UNCHANGED <<handled, buf, pc, broken, query_len>>
  BY DEF QueriesArrive, Ask, server
<1>4. up' = up \o (Prefix(q) \o q) /\ up' \in Seq(Nat)
  <2>1. (up \o Prefix(q)) \o q = up \o (Prefix(q) \o q)
    BY <1>2, <1>3, Associative DEF ServerTypes
  <2>2. Prefix(q) \o q \in Seq(Nat)
    BY <1>2, Concat
  <2>3. up \o (Prefix(q) \o q) \in Seq(Nat)
    BY <1>3, <2>2, Concat DEF ServerTypes
  <2> QED  BY <1>1, <2>1, <2>3, Zenon
<1>5. ServerTypes'
  BY <1>1, <1>2, <1>3, <1>4 DEF ServerTypes
<1>6. Begins(handled, asked)'
  <2>1. Begins(handled, Append(asked, q))
    BY <1>2, <1>3, BeginsMore DEF ServerTypes, QueriesArrive
  <2> QED  BY <1>1, <1>3, <2>1 DEF Begins
<1>7. ASSUME pc # "closed"
      PROVE  Delivers(asked', handled', PrefixBytes', query_len', buf', up' \o << >>)
  <2>1. Delivers(asked, handled, PrefixBytes, query_len, buf, up)
    BY <1>3, <1>7, ConcatEmptySeq DEF QueriesArrive, ServerTypes
  <2>2. PrefixBytes \in {0, 2} /\ PrefixBytes' = PrefixBytes
    BY <1>3 DEF PrefixBytes
  <2>3. Delivers(Append(asked, q), handled, PrefixBytes, query_len, buf, up \o (Prefix(q) \o q))
    BY <1>2, <1>3, <2>1, <2>2, MessageSent DEF ServerTypes
  <2>4. up' \o << >> = up'
    BY <1>4, ConcatEmptySeq
  <2> QED  BY <1>1, <1>3, <1>4, <2>2, <2>3, <2>4
<1>8. << >> \in Seq(Nat)
  OBVIOUS
<1> QED  BY <1>3, <1>5, <1>6, <1>7, <1>8 DEF QueriesArrive

\* The connection breaks: the end of the stream is lost.
LEMMA HangUpKeepsQueries ==
    ASSUME QueriesArrive, HangUp
    PROVE  QueriesArrive'
<1>1. PICK n \in 0..Len(up) : up' = SubSeq(up, 1, n)
  BY DEF HangUp
<1>2. ServerTypes /\ broken' = TRUE /\ UNCHANGED <<asked, handled, buf, pc, query_len>>
  BY DEF QueriesArrive, HangUp, server
<1>3. PICK tail : tail = SubSeq(up, n + 1, Len(up))
  OBVIOUS
<1>4. tail \in Seq(Nat) /\ up' \in Seq(Nat) /\ up' \o tail = up
  <2>1. up \in Seq(Nat) /\ Len(up) \in Nat /\ n \in Nat /\ n =< Len(up)
    BY <1>2 DEF ServerTypes
  <2>2. SubSeq(up, 1, n) \in Seq(Nat) /\ SubSeq(up, n + 1, Len(up)) \in Seq(Nat)
    BY <2>1
  <2>3. SubSeq(up, 1, n) \o SubSeq(up, n + 1, Len(up)) = SubSeq(up, 1, Len(up))
    <3>1. 1 \in 1..Len(up) + 1 /\ n \in 1 - 1..Len(up) /\ Len(up) \in n..Len(up)
      BY <2>1
    <3> QED  BY <2>1, <3>1, ConcatAdjacentSubSeq, Zenon
  <2>4. SubSeq(up, 1, Len(up)) = up
    BY <2>1, SubSeqFull
  <2> QED  BY <1>1, <1>3, <2>2, <2>3, <2>4
<1>5. ServerTypes'
  BY <1>2, <1>4 DEF ServerTypes
<1>6. ASSUME pc # "closed"
      PROVE  \E lost \in Seq(Nat) :
                Delivers(asked', handled', PrefixBytes', query_len', buf', up' \o lost)
  <2>1. PICK lost \in Seq(Nat) : Delivers(asked, handled, PrefixBytes, query_len, buf, up \o lost)
    BY <1>6 DEF QueriesArrive
  <2>2. PICK lost2 : lost2 = tail \o lost
    OBVIOUS
  <2>3. up' \o lost2 = up \o lost /\ lost2 \in Seq(Nat)
    <3>1. (up' \o tail) \o lost = up' \o (tail \o lost)
      BY <1>4, Associative
    <3> QED  BY <1>4, <2>2, <3>1, Concat
  <2>4. PrefixBytes' = PrefixBytes
    BY <1>2 DEF PrefixBytes
  <2> QED  BY <1>2, <2>1, <2>3, <2>4
<1>7. Begins(handled, asked)'
  BY <1>2 DEF QueriesArrive, Begins
<1> QED  BY <1>2, <1>5, <1>6, <1>7 DEF QueriesArrive

\* A byte arrives.
LEMMA ReceiveKeepsQueries ==
    ASSUME QueriesArrive, Receive
    PROVE  QueriesArrive'
<1>1. /\ ServerTypes /\ up # << >> /\ buf' = Append(buf, Head(up)) /\ up' = Tail(up)
      /\ pc # "closed" /\ UNCHANGED <<asked, handled, pc, broken, query_len>>
  BY DEF QueriesArrive, Receive, Reading, client
<1>2. ServerTypes'
  BY <1>1 DEF ServerTypes
<1>3. PICK lost \in Seq(Nat) :
         /\ ~broken => lost = << >>
         /\ Delivers(asked, handled, PrefixBytes, query_len, buf, up \o lost)
  BY <1>1 DEF QueriesArrive
<1>4. Delivers(asked, handled, PrefixBytes, query_len, buf', up' \o lost)
  BY <1>1, <1>3, ByteRead DEF ServerTypes
<1>5. PrefixBytes' = PrefixBytes
  BY <1>1 DEF PrefixBytes
<1>6. Begins(handled, asked)'
  BY <1>1 DEF QueriesArrive, Begins
<1> QED  BY <1>1, <1>2, <1>3, <1>4, <1>5, <1>6 DEF QueriesArrive

\* A prefix is complete.
LEMMA LengthReadKeepsQueries ==
    ASSUME QueriesArrive, LengthRead
    PROVE  QueriesArrive'
<1>1. /\ ServerTypes /\ pc = "length" /\ pc' = "body" /\ Len(buf) = 2
      /\ query_len' = from_be_bytes(buf) /\ buf' = << >>
      /\ UNCHANGED <<asked, handled, up, broken>>
  BY DEF QueriesArrive, LengthRead, client
<1>2. ServerTypes'
  BY <1>1 DEF ServerTypes
<1>3. PICK lost \in Seq(Nat) :
         /\ ~broken => lost = << >>
         /\ Delivers(asked, handled, 0, query_len, buf, up \o lost)
  BY <1>1 DEF QueriesArrive, PrefixBytes
<1>4. up \o lost \in Seq(Nat)
  BY <1>1, Concat DEF ServerTypes
<1>5. Delivers(asked, handled, 2, query_len', << >>, up \o lost)
  BY <1>1, <1>3, <1>4, PrefixRead DEF ServerTypes
<1>6. Begins(handled, asked)'
  BY <1>1 DEF QueriesArrive, Begins
<1> QED  BY <1>1, <1>2, <1>3, <1>5, <1>6 DEF QueriesArrive, PrefixBytes

\* A query is complete.
LEMMA BodyReadKeepsQueries ==
    ASSUME QueriesArrive, BodyRead
    PROVE  QueriesArrive'
<1>1. /\ ServerTypes /\ pc = "body" /\ pc' = "handling" /\ Len(buf) = query_len
      /\ handled' = Append(handled, buf) /\ buf' = << >>
      /\ UNCHANGED <<asked, up, broken, query_len>>
  BY DEF QueriesArrive, BodyRead, AllRead, Reading, Wanted, client
<1>3. PICK lost \in Seq(Nat) :
         /\ ~broken => lost = << >>
         /\ Delivers(asked, handled, 2, query_len, buf, up \o lost)
  BY <1>1 DEF QueriesArrive, PrefixBytes
<1>4. up \o lost \in Seq(Nat)
  BY <1>1, Concat DEF ServerTypes
<1>5. buf \in Messages /\ Delivers(asked, handled', 0, query_len, << >>, up \o lost)
  BY <1>1, <1>3, <1>4, BodyIsRead DEF ServerTypes
<1>6. ServerTypes'
  BY <1>1, <1>5 DEF ServerTypes
<1>7. Begins(handled, asked)'
  BY <1>1, <1>5, DeliversInOrder DEF Begins
<1> QED  BY <1>1, <1>3, <1>5, <1>6, <1>7 DEF QueriesArrive, PrefixBytes

\* The pipeline and the writes touch nothing of this direction.
LEMMA OthersKeepQueries ==
    ASSUME QueriesArrive, Take \/ EndOfStream \/ HandleQuery \/ Fail \/ WriteLength \/ WriteBody
                          \/ UNCHANGED vars
    PROVE  QueriesArrive'
<1>1. UNCHANGED <<asked, handled, up, buf, broken, query_len>>
  BY DEF Take, EndOfStream, HandleQuery, Fail, WriteLength, WriteBody, vars, server, client
<1>2. pc' = pc \/ pc' = "closed" \/ (pc' # "body" /\ pc # "body" /\ pc # "closed")
  BY DEF Take, EndOfStream, HandleQuery, Fail, WriteLength, WriteBody, vars, server
<1>3. ServerTypes' /\ Begins(handled, asked)'
  BY <1>1 DEF QueriesArrive, ServerTypes, Begins
<1>4. ASSUME pc' # "closed"
      PROVE  pc # "closed" /\ PrefixBytes' = PrefixBytes
  BY <1>2, <1>4 DEF PrefixBytes
<1> QED  BY <1>1, <1>3, <1>4 DEF QueriesArrive

\* Whatever the bytes of the messages are, however they arrive and wherever the
\* stream breaks: if each query fits a prefix, the pipeline is given the
\* client's queries, whole and in their order (receiver/dot.rs:67-87).
THEOREM QueriesInOrder == Fits(Questions) => (Spec => []QueriesAsSent)
<1> SUFFICES ASSUME Fits(Questions) PROVE Spec => []QueriesAsSent
  OBVIOUS
<1>1. Init => QueriesArrive
  <2> SUFFICES ASSUME Init PROVE QueriesArrive
    OBVIOUS
  <2>1. Delivers(<< >>, << >>, 0, query_len, << >>, << >>) /\ << >> \o << >> = << >>
    BY NothingSent
  <2>2. Begins(<< >>, << >>)
    BY <2>1, DeliversInOrder
  <2>3. ServerTypes /\ Begins(handled, asked) /\ PrefixBytes = 0
    BY <2>2 DEF Init, ServerTypes, PrefixBytes
  <2>4. << >> \in Seq(Nat) /\ Delivers(asked, handled, PrefixBytes, query_len, buf, up \o << >>)
    BY <2>1, <2>3 DEF Init
  <2> QED  BY <2>3, <2>4 DEF QueriesArrive
<1>2. QueriesArrive /\ [Next]_vars => QueriesArrive'
  BY AskKeepsQueries, HangUpKeepsQueries, ReceiveKeepsQueries, LengthReadKeepsQueries,
     BodyReadKeepsQueries, OthersKeepQueries DEF Next, Serve
<1>3. QueriesArrive => QueriesAsSent
  BY BeginsIsPrefix DEF QueriesArrive, ServerTypes, QueriesAsSent
<1> QED  BY <1>1, <1>2, <1>3, PTL DEF Spec

-----------------------------------------------------------------------------
(* The client's direction.                                                 *)

ClientTypes ==
    /\ answered \in Seq(Messages) /\ taken \in Seq(Messages)
    /\ down \in Seq(Nat) /\ got \in Seq(Nat) /\ response \in Messages

\* What of an answer is still to be written.
Unwritten ==
    IF pc = "write length" THEN Prefix(response) \o response
    ELSE IF pc = "write body" THEN response ELSE << >>

\* What the client has read of the prefix of the message it is at.
PrefixTaken == IF expected = -1 THEN 0 ELSE 2

\* What the client reads, and what is still to be written for it to read, are
\* the answers of the pipeline.
AnswersArrive ==
    /\ ClientTypes
    /\ Begins(taken, answered)
    /\ ~broken => Delivers(answered, taken, PrefixTaken, expected, got, down \o Unwritten)

\* What is still to be written is bytes.
LEMMA UnwrittenBytes ==
    ASSUME ClientTypes
    PROVE  /\ response \in Seq(Nat) /\ Prefix(response) \in Seq(Nat)
           /\ Prefix(response) \o response \in Seq(Nat) /\ Unwritten \in Seq(Nat)
<1>1. response \in Seq(Nat) /\ Prefix(response) \in Seq(Nat)
  BY PrefixSaysLength DEF ClientTypes, Messages
<1>2. Prefix(response) \o response \in Seq(Nat) /\ << >> \in Seq(Nat)
  BY <1>1, Concat
<1> QED  BY <1>1, <1>2 DEF Unwritten

\* The pipeline answers: the frame of its answer is still to be written.
LEMMA HandleQueryKeepsAnswers ==
    ASSUME Fits(Answers), AnswersArrive, HandleQuery
    PROVE  AnswersArrive'
<1>1. PICK r \in Answers : response' = r /\ answered' = Append(answered, r)
  BY DEF HandleQuery
<1>2. r \in Messages
  <2>1. r \in Seq(0..Byte - 1) /\ Len(r) < Byte * Byte /\ 0..Byte - 1 \subseteq Nat
    BY DotAssumption DEF Fits
  <2> QED  BY <2>1, SeqMonotonic DEF Messages
<1>3. /\ ClientTypes /\ pc = "handling" /\ pc' = "write length"
      /\ UNCHANGED <<broken, expected, got, taken, down>>
  BY DEF AnswersArrive, HandleQuery, client
<1>4. ClientTypes'
  <2>1. Append(answered, r) \in Seq(Messages)
    BY <1>2, <1>3, AppendProperties DEF ClientTypes
  <2> QED  BY <1>1, <1>2, <1>3, <2>1 DEF ClientTypes
<1>5. Begins(taken, answered)'
  <2>1. Begins(taken, Append(answered, r))
    BY <1>2, <1>3, BeginsMore DEF ClientTypes, AnswersArrive
  <2> QED  BY <1>1, <1>3, <2>1 DEF Begins
<1>6. ASSUME ~broken
      PROVE  Delivers(answered', taken, PrefixTaken, expected, got, down \o (Prefix(r) \o r))
  <2>1. Unwritten = << >> /\ down \o << >> = down
    BY <1>3, ConcatEmptySeq DEF ClientTypes, Unwritten
  <2>2. Delivers(answered, taken, PrefixTaken, expected, got, down)
    BY <1>6, <2>1 DEF AnswersArrive
  <2>3. PrefixTaken \in {0, 2}
    BY DEF PrefixTaken
  <2> QED  BY <1>1, <1>2, <1>3, <2>2, <2>3, MessageSent DEF ClientTypes
<1>7. Unwritten' = Prefix(r) \o r /\ PrefixTaken' = PrefixTaken
  BY <1>1, <1>3 DEF Unwritten, PrefixTaken, Prefix
<1> QED  BY <1>3, <1>4, <1>5, <1>6, <1>7 DEF AnswersArrive

\* A part of an answer is written: it was going to be read, and is.
LEMMA WritesKeepAnswers ==
    ASSUME AnswersArrive, WriteLength \/ WriteBody
    PROVE  AnswersArrive'
<1>1. ClientTypes /\ UNCHANGED <<broken, expected, got, taken, answered, response>>
  BY DEF AnswersArrive, WriteLength, WriteBody, client
<1>2. down' \in Seq(Nat) /\ down' \o Unwritten' = down \o Unwritten
  <2>1. CASE WriteLength
    <3>1. down' = down \o Prefix(response) /\ Unwritten' = response
          /\ Unwritten = Prefix(response) \o response
      BY <1>1, <2>1 DEF WriteLength, Unwritten
    <3>2. (down \o Prefix(response)) \o response = down \o (Prefix(response) \o response)
      BY <1>1, UnwrittenBytes, Associative DEF ClientTypes
    <3>3. down \o Prefix(response) \in Seq(Nat)
      BY <1>1, UnwrittenBytes, Concat DEF ClientTypes
    <3> QED  BY <3>1, <3>2, <3>3
  <2>2. CASE WriteBody
    <3>1. down' = down \o response /\ Unwritten' = << >> /\ Unwritten = response
      BY <2>2 DEF WriteBody, Unwritten
    <3>2. down \o response \in Seq(Nat)
      BY <1>1, UnwrittenBytes, Concat DEF ClientTypes
    <3>3. (down \o response) \o << >> = down \o response
      BY <3>2, ConcatEmptySeq
    <3> QED  BY <3>1, <3>2, <3>3
  <2> QED  BY <2>1, <2>2
<1>3. ClientTypes' /\ Begins(taken, answered)'
  BY <1>1, <1>2 DEF AnswersArrive, ClientTypes, Begins
<1>4. PrefixTaken' = PrefixTaken
  BY <1>1 DEF PrefixTaken
<1> QED  BY <1>1, <1>2, <1>3, <1>4 DEF AnswersArrive

\* The client reads a byte, which may be the last of a prefix or of an answer.
LEMMA TakeKeepsAnswers ==
    ASSUME AnswersArrive, Take
    PROVE  AnswersArrive'
<1> DEFINE complete(bytes) == Len(bytes) = IF expected = -1 THEN 2 ELSE expected
<1>1. /\ ClientTypes /\ ~broken /\ down # << >>
      /\ UNCHANGED <<broken, answered, response, pc>>
      /\ down' = Tail(down)
  BY DEF AnswersArrive, Take, server
<1>2. PICK bytes, rest : bytes = Append(got, Head(down)) /\ rest = down' \o Unwritten
  OBVIOUS
<1>3. /\ bytes \in Seq(Nat) /\ down' \in Seq(Nat) /\ rest \in Seq(Nat)
      /\ Unwritten \in Seq(Nat) /\ Unwritten' = Unwritten
  <2>1. bytes \in Seq(Nat) /\ down' \in Seq(Nat) /\ Unwritten \in Seq(Nat)
    BY <1>1, <1>2, UnwrittenBytes DEF ClientTypes
  <2> QED  BY <1>1, <1>2, <2>1, Concat DEF Unwritten, Prefix
<1>4. Delivers(answered, taken, PrefixTaken, expected, bytes, rest)
  BY <1>1, <1>2, <1>3, ByteRead DEF AnswersArrive, ClientTypes
<1>5. SUFFICES /\ taken' \in Seq(Messages) /\ got' \in Seq(Nat)
               /\ Delivers(answered, taken', PrefixTaken', expected', got', rest)
  <2>1. ASSUME taken' \in Seq(Messages), got' \in Seq(Nat),
               Delivers(answered, taken', PrefixTaken', expected', got', rest)
        PROVE  AnswersArrive'
    <3>1. Begins(taken', answered)
      BY <2>1, DeliversInOrder
    <3>2. ClientTypes' /\ Begins(taken, answered)'
      BY <1>1, <1>3, <2>1, <3>1 DEF ClientTypes, Begins
    <3> QED  BY <1>1, <1>2, <1>3, <2>1, <3>2 DEF AnswersArrive
  <2> QED  BY <2>1
<1>6. << >> \in Seq(Nat) /\ taken \in Seq(Messages) /\ answered \in Seq(Messages)
  BY <1>1 DEF ClientTypes
<1>7. CASE ~complete(bytes)
  <2>1. got' = bytes /\ UNCHANGED <<expected, taken>>
    BY <1>2, <1>7 DEF Take
  <2> QED  BY <1>3, <1>4, <1>6, <2>1 DEF PrefixTaken
<1>8. CASE complete(bytes) /\ expected = -1
  <2>1. PICK len : len = from_be_bytes(bytes)
    OBVIOUS
  <2>2. /\ got' = << >> /\ expected' = IF len # 0 THEN len ELSE -1
        /\ taken' = IF len = 0 THEN Append(taken, << >>) ELSE taken
    BY <1>2, <1>8, <2>1 DEF Take
  <2>3. Delivers(answered, taken, 2, len, << >>, rest)
    BY <1>3, <1>4, <1>6, <1>8, <2>1, PrefixRead DEF PrefixTaken
  <2>4. CASE len = 0
    <3>1. << >> \in Messages /\ Delivers(answered, Append(taken, << >>), 0, -1, << >>, rest)
      BY <1>3, <1>6, <2>3, <2>4, BodyIsRead
    <3>2. taken' = Append(taken, << >>) /\ expected' = -1
      BY <2>2, <2>4
    <3> QED  BY <1>6, <2>2, <3>1, <3>2 DEF PrefixTaken
  <2>5. CASE len # 0
    <3>1. len # -1
      <4>1. bytes[1] \in Nat /\ bytes[2] \in Nat
        <5>1. Len(bytes) = 2 /\ 1 \in 1..2 /\ 2 \in 1..2
          BY <1>8
        <5> QED  BY <1>3, <5>1, ElementOfSeq
      <4> QED  BY <2>1, <4>1, DotAssumption DEF from_be_bytes
    <3> QED  BY <1>6, <2>2, <2>3, <2>5, <3>1 DEF PrefixTaken
  <2> QED  BY <2>4, <2>5
<1>9. CASE complete(bytes) /\ expected # -1
  <2>1. got' = << >> /\ expected' = -1 /\ taken' = Append(taken, bytes)
    BY <1>2, <1>9 DEF Take
  <2>2. bytes \in Messages /\ Delivers(answered, Append(taken, bytes), 0, -1, << >>, rest)
    BY <1>3, <1>4, <1>6, <1>9, BodyIsRead DEF PrefixTaken
  <2> QED  BY <1>6, <2>1, <2>2 DEF PrefixTaken
<1> QED  BY <1>7, <1>8, <1>9

\* Nothing of this direction changes, or it ends.
LEMMA OthersKeepAnswers ==
    ASSUME AnswersArrive, Ask \/ HangUp \/ Receive \/ LengthRead \/ BodyRead \/ EndOfStream
                          \/ Fail \/ UNCHANGED vars
    PROVE  AnswersArrive'
<1>1. CASE HangUp
  <2>1. broken' = TRUE /\ down' = << >> /\ UNCHANGED <<got, taken, answered, response>>
    BY <1>1 DEF HangUp, server
  <2> QED  BY <2>1 DEF AnswersArrive, ClientTypes, Begins
<1>2. CASE ~HangUp
  <2>1. UNCHANGED <<got, taken, answered, response, broken, down, expected>>
    BY <1>2 DEF Ask, Receive, LengthRead, BodyRead, EndOfStream, Fail, vars, server, client
  <2>2. ~broken => Unwritten' = Unwritten
    BY <1>2, <2>1 DEF Ask, Receive, LengthRead, BodyRead, EndOfStream, Fail, vars, server, client,
                      Unwritten, Prefix, Reading
  <2> QED  BY <2>1, <2>2 DEF AnswersArrive, ClientTypes, Begins, PrefixTaken
<1> QED  BY <1>1, <1>2

\* If each answer of the pipeline fits a prefix, what the client reads are the
\* answers, whole and in their order, until the connection breaks
\* (receiver/dot.rs:94-99).
THEOREM AnswersInOrder == Fits(Answers) => (Spec => []AnswersAsGiven)
<1> SUFFICES ASSUME Fits(Answers) PROVE Spec => []AnswersAsGiven
  OBVIOUS
<1>1. Init => AnswersArrive
  <2> SUFFICES ASSUME Init PROVE AnswersArrive
    OBVIOUS
  <2>1. Delivers(<< >>, << >>, 0, -1, << >>, << >>) /\ << >> \o << >> = << >>
    BY NothingSent
  <2>2. Begins(<< >>, << >>)
    BY <2>1, DeliversInOrder
  <2>3. << >> \in Messages
    BY DotAssumption DEF Messages
  <2> QED  BY <2>1, <2>2, <2>3 DEF Init, AnswersArrive, ClientTypes, PrefixTaken, Unwritten
<1>2. AnswersArrive /\ [Next]_vars => AnswersArrive'
  BY HandleQueryKeepsAnswers, WritesKeepAnswers, TakeKeepsAnswers, OthersKeepAnswers
     DEF Next, Serve
<1>3. AnswersArrive => AnswersAsGiven
  BY BeginsIsPrefix DEF AnswersArrive, ClientTypes, AnswersAsGiven
<1> QED  BY <1>1, <1>2, <1>3, PTL DEF Spec
=============================================================================
