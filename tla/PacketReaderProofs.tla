------------------------- MODULE PacketReaderProofs -------------------------
(***************************************************************************)
(* For any message, its labels as WireFormat takes them (ASCII, U+FFFD or  *)
(* no text), and any policy: the server and the client read the names of a *)
(* message in a bounded number of turns and go on behind each of them, the *)
(* server reads a query as its sender laid it out, and the client reads an *)
(* answer as the server made it up.                                        *)
(*                                                                         *)
(* First what the writer puts down (FlattenSeq, the text of a name, the    *)
(* bytes of an answer), then the invariants of the reader, then the reader *)
(* in step with a plan of the message, and the plan of an answer.          *)
(***************************************************************************)
EXTENDS PacketReader, SequenceTheorems, WellFoundedInduction, TLAPS

-----------------------------------------------------------------------------
(* Induction up to a number, as sets that it is shown to be in.            *)

\* What holds at a number if it holds below it, holds up to n.
LEMMA Upward ==
    ASSUME NEW n \in Nat, NEW G,
           \A k \in 0..n : (\A j \in 0..(k - 1) : j \in G) => k \in G
    PROVE  0..n \subseteq G
<1> DEFINE R == {ss \in Nat \X Nat : ss[1] < ss[2]}
           I == (0..n) \ G
<1>1. IsWellFoundedOn(R, Nat)
  BY NatLessThanWellFounded, Zenon DEF OpToRel
<1>2. I \in SUBSET Nat
  OBVIOUS
<1> SUFFICES ASSUME I # {} PROVE FALSE
  OBVIOUS
<1> HIDE DEF R
<1>3. PICK k \in I : \A j \in I : <<j, k>> \notin R
  BY <1>1, <1>2, WFMin
<1>4. \A j \in 0..(k - 1) : j \notin I
  <2> SUFFICES ASSUME NEW j \in 0..(k - 1), j \in I PROVE FALSE
    OBVIOUS
  <2>1. k \in Nat /\ j \in Nat /\ j < k
    BY <1>2
  <2>2. <<j, k>> \in R
    BY <2>1 DEF R
  <2> QED  BY <1>3, <2>2
<1>5. k \in 0..n /\ \A j \in 0..(k - 1) : j \in 0..n
  OBVIOUS
<1>6. \A j \in 0..(k - 1) : j \in G
  BY <1>4, <1>5
<1> QED  BY <1>3, <1>5, <1>6

\* And what holds at 0 and goes from a number to the next one.
LEMMA StepByStep ==
    ASSUME NEW n \in Nat, NEW G, 0 \in G, \A k \in 0..(n - 1) : k \in G => k + 1 \in G
    PROVE  0..n \subseteq G
<1>1. ASSUME NEW k \in 0..n, \A j \in 0..(k - 1) : j \in G PROVE k \in G
  <2>1. CASE k = 0
    BY <2>1
  <2>2. CASE k # 0
    <3>1. k - 1 \in 0..(n - 1) /\ k - 1 \in 0..(k - 1) /\ (k - 1) + 1 = k
      BY <2>2
    <3> QED  BY <1>1, <3>1
  <2> QED  BY <2>1, <2>2
<1> QED  BY <1>1, Upward

-----------------------------------------------------------------------------
(* FlattenSeq.                                                             *)

\* f[i] is the first i sequences together.
Flattens(seqs, f, S) ==
    /\ f \in [0..Len(seqs) -> Seq(S)]
    /\ f[0] = << >>
    /\ \A i \in 1..Len(seqs) : f[i] = f[i - 1] \o seqs[i]

\* FlattenSeq's recursion is well defined.
LEMMA Flattened ==
    ASSUME NEW S, NEW seqs, seqs \in Seq(Seq(S))
    PROVE  \E f : Flattens(seqs, f, S) /\ FlattenSeq(seqs) = f[Len(seqs)]
<1>1. PICK n \in Nat : n = Len(seqs)
  OBVIOUS
<1>2. \A i \in 1..n : seqs[i] \in Seq(S)
  BY <1>1
<1> DEFINE Solves(f, k) == /\ f \in [0..k -> Seq(S)] /\ f[0] = << >>
                           /\ \A i \in 1..k : f[i] = f[i - 1] \o seqs[i]
           G == {k \in 0..n : \E f : Solves(f, k)}
<1>3. 0 \in G
  <2>1. PICK f : f = [i \in 0..0 |-> << >>]
    OBVIOUS
  <2>2. << >> \in Seq(S) /\ 0 \in 0..0
    OBVIOUS
  <2>3. f \in [0..0 -> Seq(S)] /\ f[0] = << >>
    BY <2>1, <2>2
  <2>4. Solves(f, 0)
    BY <2>3
  <2>5. 0 \in 0..n
    OBVIOUS
  <2> HIDE DEF Solves
  <2> QED  BY <2>4, <2>5
<1>4. ASSUME NEW k \in 0..(n - 1), k \in G PROVE k + 1 \in G
  <2>1. PICK f : Solves(f, k)
    BY <1>4
  <2>2. PICK v \in Seq(S) : v = f[k] \o seqs[k + 1]
    <3>1. k \in 0..k /\ k + 1 \in 1..n
      OBVIOUS
    <3>2. f[k] \in Seq(S) /\ seqs[k + 1] \in Seq(S)
      BY <1>2, <2>1, <3>1
    <3>3. PICK a \in Seq(S), b \in Seq(S) : a = f[k] /\ b = seqs[k + 1]
      BY <3>2
    <3>4. a \o b \in Seq(S)
      OBVIOUS
    <3> QED  BY <3>3, <3>4
  <2>3. PICK g : g = [i \in 0..(k + 1) |-> IF i = k + 1 THEN v ELSE f[i]]
    OBVIOUS
  <2>4. g[k + 1] = v /\ \A i \in 0..k : g[i] = f[i]
    BY <2>3
  <2>5. g \in [0..(k + 1) -> Seq(S)]
    <3>1. \A i \in 0..(k + 1) : i = k + 1 \/ i \in 0..k
      OBVIOUS
    <3>2. \A i \in 0..k : f[i] \in Seq(S)
      BY <2>1
    <3>3. \A i \in 0..(k + 1) : (IF i = k + 1 THEN v ELSE f[i]) \in Seq(S)
      BY <2>2, <3>1, <3>2
    <3> QED  BY <2>3, <3>3
  <2>6. ASSUME NEW i \in 1..(k + 1) PROVE g[i] = g[i - 1] \o seqs[i]
    <3>1. CASE i = k + 1
      <4>1. i - 1 = k /\ k \in 0..k
        BY <3>1
      <4> QED  BY <2>2, <2>4, <3>1, <4>1
    <3>2. CASE i # k + 1
      <4>1. i \in 1..k /\ i - 1 \in 0..k /\ i \in 0..k
        BY <3>2
      <4> QED  BY <2>1, <2>4, <4>1
    <3> QED  BY <3>1, <3>2
  <2>7. g[0] = << >>
    BY <2>1, <2>4
  <2>8. Solves(g, k + 1)
    BY <2>5, <2>6, <2>7
  <2>9. k + 1 \in 0..n
    OBVIOUS
  <2> QED  BY <2>8, <2>9
<1>5. n \in G
  <2> HIDE DEF G
  <2>1. 0..n \subseteq G
    BY <1>3, <1>4, StepByStep
  <2> QED  BY <2>1
<1>6. PICK f : Solves(f, n)
  BY <1>5
<1>7. Flattens(seqs, f, S)
  BY <1>1, <1>6 DEF Flattens
<1>8. CASE n = 0
  <2>1. seqs = << >>
    BY <1>1, <1>8, EmptySeq
  <2>2. FlattenSeq(seqs) = << >>
    BY <2>1 DEF FlattenSeq
  <2> QED  BY <1>1, <1>6, <1>7, <1>8, <2>2
<1>9. CASE n # 0
  <2> DEFINE Is(g) == g = [i \in 1..n |-> IF i = 1 THEN seqs[i] ELSE g[i - 1] \o seqs[i]]
  <2>1. FlattenSeq(seqs) = (CHOOSE g : Is(g))[n]
    BY <1>1, <1>9 DEF FlattenSeq
  <2>2. Is([i \in 1..n |-> f[i]])
    <3>1. PICK g : g = [i \in 1..n |-> f[i]]
      OBVIOUS
    <3>2. ASSUME NEW i \in 1..n PROVE g[i] = IF i = 1 THEN seqs[i] ELSE g[i - 1] \o seqs[i]
      <4>1. f[i] = f[i - 1] \o seqs[i]
        BY <1>6
      <4>2. CASE i = 1
        <5>1. f[0] = << >> /\ seqs[1] \in Seq(S) /\ f[1] = << >> \o seqs[1]
          <6>1. i - 1 = 0 /\ 1 \in 1..n
            BY <4>2
          <6> QED  BY <1>2, <1>6, <4>1, <4>2, <6>1
        <5>2. << >> \o seqs[1] = seqs[1]
          BY <5>1
        <5> QED  BY <3>1, <4>2, <5>1, <5>2
      <4>3. CASE i # 1
        <5>1. i - 1 \in 1..n
          BY <4>3
        <5> QED  BY <3>1, <4>1, <4>3, <5>1
      <4> QED  BY <4>2, <4>3
    <3>3. g = [i \in 1..n |-> IF i = 1 THEN seqs[i] ELSE g[i - 1] \o seqs[i]]
      BY <3>1, <3>2
    <3> QED  BY <3>1, <3>3
  <2>3. PICK g : Is(g) /\ FlattenSeq(seqs) = g[n]
    <3> HIDE DEF Is
    <3>1. Is(CHOOSE g : Is(g))
      BY <2>2
    <3> QED  BY <2>1, <3>1
  <2> DEFINE H == {k \in 0..n : k = 0 \/ g[k] = f[k]}
  <2>4. 0 \in H
    OBVIOUS
  <2>5. ASSUME NEW k \in 0..(n - 1), k \in H PROVE k + 1 \in H
    <3>1. k + 1 \in 1..n /\ k + 1 \in 0..n /\ (k + 1) - 1 = k
      OBVIOUS
    <3>2. g[k + 1] = IF k + 1 = 1 THEN seqs[k + 1] ELSE g[k] \o seqs[k + 1]
      BY <2>3, <3>1
    <3>3. f[k + 1] = f[k] \o seqs[k + 1]
      BY <1>6, <3>1
    <3>4. CASE k = 0
      <4>1. f[0] = << >> /\ seqs[1] \in Seq(S) /\ << >> \o seqs[1] = seqs[1]
        BY <1>2, <1>6, <3>1, <3>4
      <4> QED  BY <3>1, <3>2, <3>3, <3>4, <4>1
    <3>5. CASE k # 0
      <4>1. k + 1 # 1 /\ g[k] = f[k]
        BY <2>5, <3>5
      <4> QED  BY <3>1, <3>2, <3>3, <4>1
    <3> QED  BY <3>4, <3>5
  <2>6. n \in H
    <3> HIDE DEF H
    <3>1. 0..n \subseteq H
      BY <2>4, <2>5, StepByStep
    <3> QED  BY <3>1
  <2>7. g[n] = f[n]
    BY <1>9, <2>6
  <2> QED  BY <1>1, <1>7, <2>3, <2>7
<1> QED  BY <1>8, <1>9

LEMMA FlattenSeqType ==
    ASSUME NEW S, NEW seqs, seqs \in Seq(Seq(S))
    PROVE  FlattenSeq(seqs) \in Seq(S)
<1>1. PICK f : Flattens(seqs, f, S) /\ FlattenSeq(seqs) = f[Len(seqs)]
  BY Flattened
<1> QED  BY <1>1 DEF Flattens

\* s is at the beginning of w, and piece t is in w behind x others.
Opens(s, w) == Len(s) <= Len(w) /\ \A p \in 1..Len(s) : w[p] = s[p]
Holds(w, x, t) == x + Len(t) <= Len(w) /\ \A p \in 1..Len(t) : w[x + p] = t[p]

Behind(w, s, t, S) ==
    /\ w \in Seq(S) /\ Len(s) \in Nat /\ Len(t) \in Nat /\ Len(w) = Len(s) + Len(t)
    /\ Opens(s, w) /\ Holds(w, Len(s), t)

LEMMA Concatenated ==
    ASSUME NEW S, NEW s, s \in Seq(S), NEW t, t \in Seq(S), NEW w, w = s \o t
    PROVE  Behind(w, s, t, S)
<1>1. PICK m \in Nat, n \in Nat : m = Len(s) /\ n = Len(t)
  OBVIOUS
<1>2. w \in Seq(S) /\ Len(w) = m + n
  BY <1>1
<1>3. \A i \in 1..m : w[i] = s[i]
  BY <1>1
<1>4. \A i \in 1..n : w[m + i] = t[i]
  BY <1>1
<1> QED  BY <1>1, <1>2, <1>3, <1>4 DEF Behind, Opens, Holds

PieceFits(seqs, f, S, i) ==
    /\ f[i - 1] \in Seq(S) /\ f[i] \in Seq(S) /\ seqs[i] \in Seq(S)
    /\ Len(f[i]) = Len(f[i - 1]) + Len(seqs[i])
    /\ Opens(f[i - 1], f[i]) /\ Holds(f[i], Len(f[i - 1]), seqs[i])

\* Where a piece begins and ends, in the first pieces together.
LEMMA PieceStep ==
    ASSUME NEW S, NEW seqs, seqs \in Seq(Seq(S)), NEW f, Flattens(seqs, f, S),
           NEW i \in 1..Len(seqs)
    PROVE  PieceFits(seqs, f, S, i)
<1>1. i - 1 \in 0..Len(seqs) /\ i \in 0..Len(seqs)
  OBVIOUS
<1>a. f[i - 1] \in Seq(S) /\ seqs[i] \in Seq(S) /\ f[i] = f[i - 1] \o seqs[i]
  BY <1>1, ElementOfSeq DEF Flattens
<1>2. PICK s \in Seq(S), t \in Seq(S) : s = f[i - 1] /\ t = seqs[i] /\ f[i] = s \o t
  BY <1>a
<1>3. /\ Len(s) \in Nat /\ Len(t) \in Nat /\ s \o t \in Seq(S) /\ Len(s \o t) = Len(s) + Len(t)
      /\ \A p \in 1..Len(s) : (s \o t)[p] = s[p]
      /\ \A p \in 1..Len(t) : (s \o t)[Len(s) + p] = t[p]
  OBVIOUS
<1>4. Opens(s, s \o t) /\ Holds(s \o t, Len(s), t)
  BY <1>3 DEF Opens, Holds
<1>5. PICK w : w = s \o t
  OBVIOUS
<1>6. w = f[i] /\ w \in Seq(S) /\ Len(w) = Len(s) + Len(t) /\ Opens(s, w) /\ Holds(w, Len(s), t)
  BY <1>2, <1>3, <1>4, <1>5
<1> QED  BY <1>2, <1>6 DEF PieceFits

\* More pieces leave the first ones where they are.
LEMMA FirstPieces ==
    ASSUME NEW S, NEW seqs, seqs \in Seq(Seq(S)), NEW f, Flattens(seqs, f, S),
           NEW i \in 0..Len(seqs), NEW j \in i..Len(seqs)
    PROVE  Opens(f[i], f[j])
<1> DEFINE Kept(k) == Opens(f[i], f[i + k])
           G == {k \in 0..(j - i) : Kept(k)}
<1>1. f[i] \in Seq(S) /\ Len(f[i]) \in Nat /\ Len(seqs) \in Nat /\ i \in Nat
  <2>1. f[i] \in Seq(S)
    BY DEF Flattens
  <2> QED  BY <2>1
<1>2. 0 \in G
  <2>1. i + 0 = i /\ 0 \in 0..(j - i) /\ Len(f[i]) <= Len(f[i])
    BY <1>1
  <2> QED  BY <2>1 DEF Opens
<1>3. ASSUME NEW k \in 0..((j - i) - 1), k \in G PROVE k + 1 \in G
  <2>1. PICK m \in 1..Len(seqs) : m = i + k + 1 /\ m - 1 = i + k /\ m = i + (k + 1)
    BY <1>1
  <2>2. /\ f[m - 1] \in Seq(S) /\ f[m] \in Seq(S) /\ Opens(f[m - 1], f[m])
    BY PieceStep DEF PieceFits
  <2>3. Opens(f[i], f[m - 1])
    BY <1>3, <2>1
  <2>4. PICK x \in Nat, y \in Nat, z \in Nat : x = Len(f[i]) /\ y = Len(f[m - 1]) /\ z = Len(f[m])
    BY <1>1, <2>2
  <2>5. x <= y /\ y <= z
    BY <2>2, <2>3, <2>4 DEF Opens
  <2>6. x <= z /\ 1..x \subseteq 1..y
    BY <2>5
  <2>7. Opens(f[i], f[m])
    BY <2>2, <2>3, <2>4, <2>6 DEF Opens
  <2> QED  BY <2>1, <2>7
<1>4. j - i \in Nat /\ i + (j - i) = j /\ j - i \in 0..(j - i)
  BY <1>1
<1>5. Kept(j - i)
  <2> HIDE DEF Kept
  <2>1. 0..(j - i) \subseteq G
    <3> HIDE DEF G
    <3> QED  BY <1>2, <1>3, <1>4, StepByStep
  <2> QED  BY <1>4, <2>1
<1> QED  BY <1>4, <1>5

PieceHeld(seqs, f, S, i) ==
    /\ f[Len(seqs)] \in Seq(S) /\ Len(f[i - 1]) \in Nat /\ seqs[i] \in Seq(S)
    /\ Len(f[i]) = Len(f[i - 1]) + Len(seqs[i])
    /\ Holds(f[Len(seqs)], Len(f[i - 1]), seqs[i])

\* A piece is found again at its place in the whole.
LEMMA PieceInPlace ==
    ASSUME NEW S, NEW seqs, seqs \in Seq(Seq(S)), NEW f, Flattens(seqs, f, S),
           NEW i \in 1..Len(seqs)
    PROVE  PieceHeld(seqs, f, S, i)
<1>1. PICK n \in Nat : n = Len(seqs)
  OBVIOUS
<1>2. /\ f[i - 1] \in Seq(S) /\ f[i] \in Seq(S) /\ seqs[i] \in Seq(S)
      /\ Len(f[i]) = Len(f[i - 1]) + Len(seqs[i])
      /\ Holds(f[i], Len(f[i - 1]), seqs[i])
  <2>1. PieceFits(seqs, f, S, i)
    BY PieceStep
  <2> QED  BY <2>1 DEF PieceFits
<1>3. i \in 0..Len(seqs) /\ Len(seqs) \in i..Len(seqs) /\ Len(seqs) \in 0..Len(seqs)
  BY <1>1
<1>4. Opens(f[i], f[Len(seqs)])
  BY <1>3, FirstPieces
<1>5. f[Len(seqs)] \in Seq(S)
  BY <1>3 DEF Flattens
<1>6. PICK x \in Nat, y \in Nat, w \in Nat : x = Len(f[i - 1]) /\ y = Len(seqs[i]) /\ w = Len(f[Len(seqs)])
  BY <1>2, <1>5
<1>7. (\A p \in 1..y : x + p \in 1..(x + y)) /\ Len(f[i]) = x + y
  <2>1. \A p \in 1..y : x + p \in 1..(x + y)
    OBVIOUS
  <2> QED  BY <1>2, <1>6, <2>1
<1>8. Holds(f[Len(seqs)], Len(f[i - 1]), seqs[i])
  BY <1>2, <1>4, <1>6, <1>7 DEF Opens, Holds
<1>9. Len(f[i - 1]) \in Nat
  BY <1>6
<1> QED  BY <1>2, <1>5, <1>8, <1>9 DEF PieceHeld

-----------------------------------------------------------------------------
(* Labels as they are read: in lower case, with U+FFFD for what is no text. *)

\* Three bytes are a U+FFFD.
Replaced(text, start) ==
    /\ start >= 1 /\ start + 2 <= Len(text)
    /\ text[start] = 239 /\ text[start + 1] = 191 /\ text[start + 2] = 189

\* Byte i is a lower-case ASCII character, or of a U+FFFD.
CleanAt(text, i) ==
    \/ text[i] \in 0..127 /\ text[i] \notin 65..90
    \/ \E start \in (i - 2)..i : Replaced(text, start)

Clean(text) == text \in Bytes /\ \A i \in 1..Len(text) : CleanAt(text, i)

Pieces(label) ==
    [i \in DOMAIN label |-> IF Valid(label, i) THEN <<lowercase(label[i])>> ELSE Replacement]

LEMMA PiecesType ==
    ASSUME NEW label, label \in Bytes
    PROVE  /\ Pieces(label) \in Seq(Bytes) /\ Len(Pieces(label)) = Len(label)
           /\ \A i \in 1..Len(label) :
                 Pieces(label)[i] = IF Valid(label, i) THEN <<lowercase(label[i])>> ELSE Replacement
<1>1. PICK n \in Nat : n = Len(label) /\ DOMAIN label = 1..n
  BY DEF Bytes
<1>2. ASSUME NEW i \in 1..n
      PROVE  (IF Valid(label, i) THEN <<lowercase(label[i])>> ELSE Replacement) \in Bytes
  <2>1. PICK b \in 0..255 : b = label[i]
    <3>1. label[i] \in Byte
      BY <1>1, ElementOfSeq DEF Bytes
    <3> QED  BY <3>1 DEF Byte
  <2>2. lowercase(b) \in 0..255
    BY DEF lowercase
  <2>3. <<lowercase(b)>> \in Bytes /\ Replacement \in Bytes
    BY <2>2 DEF Bytes, Byte, Replacement
  <2> QED  BY <2>1, <2>3
<1>3. PICK e : e = [i \in 1..n |-> IF Valid(label, i) THEN <<lowercase(label[i])>> ELSE Replacement]
  OBVIOUS
<1>4. e \in [1..n -> Bytes]
  BY <1>2, <1>3
<1>5. e \in Seq(Bytes) /\ Len(e) = n
  BY <1>4
<1>6. Pieces(label) = e
  BY <1>1, <1>3 DEF Pieces
<1> QED  BY <1>1, <1>3, <1>5, <1>6

\* A label is read as its pieces together.
LEMMA LossyPieces ==
    ASSUME NEW label, label \in Bytes
    PROVE  \E f : Flattens(Pieces(label), f, Byte) /\ LossyLower(label) = f[Len(label)]
<1>1. Pieces(label) \in Seq(Seq(Byte)) /\ Len(Pieces(label)) = Len(label)
  BY PiecesType DEF Bytes
<1>2. LossyLower(label) = FlattenSeq(Pieces(label))
  BY DEF LossyLower, Pieces
<1>3. \E f : Flattens(Pieces(label), f, Byte) /\ FlattenSeq(Pieces(label)) = f[Len(Pieces(label))]
  BY <1>1, Flattened
<1> QED  BY <1>1, <1>2, <1>3

\* The bytes of a U+FFFD.
LEMMA ReplacementBytes ==
    ASSUME NEW label, label \in Bytes, NEW start \in 1..Len(label), start + 2 <= Len(label)
    PROVE  SubSeq(label, start, start + 2) = Replacement
             <=> label[start] = 239 /\ label[start + 1] = 191 /\ label[start + 2] = 189
<1>1. PICK s : s = SubSeq(label, start, start + 2)
  OBVIOUS
<1>2. Len(label) \in Nat /\ \A i \in 1..Len(label) : label[i] \in Byte
  BY DEF Bytes
<1>3. /\ s \in Seq(Byte) /\ Len(s) = 3
      /\ s[1] = label[start] /\ s[2] = label[start + 1] /\ s[3] = label[start + 2]
  BY <1>1, <1>2 DEF Bytes
<1>4. s = <<239, 191, 189>> <=> s[1] = 239 /\ s[2] = 191 /\ s[3] = 189
  <2>1. ASSUME s[1] = 239, s[2] = 191, s[3] = 189 PROVE s = <<239, 191, 189>>
    <3>1. <<239, 191, 189>> \in Seq(Byte) /\ Len(<<239, 191, 189>>) = 3
      BY DEF Byte
    <3>2. \A i \in 1..3 : s[i] = <<239, 191, 189>>[i]
      BY <2>1
    <3> QED  BY <1>3, <3>1, <3>2, SeqEqual
  <2> QED  BY <2>1
<1> QED  BY <1>1, <1>3, <1>4 DEF Replacement

\* One piece further on.
LEMMA NextPiece ==
    ASSUME NEW label, label \in Bytes, NEW f, Flattens(Pieces(label), f, Byte), NEW i \in 1..Len(label)
    PROVE  LET whole == f[Len(label)]
               x     == Len(f[i - 1])
           IN  /\ whole \in Seq(Byte) /\ x \in Nat
               /\ Valid(label, i) =>
                     /\ Len(f[i]) = x + 1 /\ x + 1 <= Len(whole)
                     /\ whole[x + 1] = lowercase(label[i])
               /\ ~Valid(label, i) =>
                     /\ Len(f[i]) = x + 3 /\ x + 3 <= Len(whole)
                     /\ whole[x + 1] = 239 /\ whole[x + 2] = 191 /\ whole[x + 3] = 189
<1>1. PICK P : P = Pieces(label)
  OBVIOUS
<1>2. /\ P \in Seq(Seq(Byte)) /\ Len(P) = Len(label)
      /\ P[i] = IF Valid(label, i) THEN <<lowercase(label[i])>> ELSE Replacement
  BY <1>1, PiecesType DEF Bytes
<1>3. /\ f[Len(P)] \in Seq(Byte) /\ Len(f[i - 1]) \in Nat /\ P[i] \in Seq(Byte)
      /\ Len(f[i]) = Len(f[i - 1]) + Len(P[i])
      /\ Holds(f[Len(P)], Len(f[i - 1]), P[i])
  <2>1. Flattens(P, f, Byte) /\ i \in 1..Len(P)
    BY <1>1, <1>2
  <2>2. PieceHeld(P, f, Byte, i)
    BY <1>2, <2>1, PieceInPlace
  <2> QED  BY <2>2 DEF PieceHeld
<1>4. PICK x, w : x \in Nat /\ x = Len(f[i - 1]) /\ w = f[Len(label)]
  BY <1>3
<1>5. w \in Seq(Byte) /\ Len(w) \in Nat
  BY <1>2, <1>3, <1>4
<1>6. CASE Valid(label, i)
  <2>1. P[i] = <<lowercase(label[i])>> /\ Len(P[i]) = 1 /\ P[i][1] = lowercase(label[i])
    BY <1>2, <1>6
  <2>2. x + 1 <= Len(w) /\ w[x + 1] = P[i][1] /\ Len(f[i]) = x + 1
    <3>1. Holds(w, x, P[i]) /\ 1 \in 1..Len(P[i]) /\ Len(f[i]) = x + Len(P[i])
      BY <1>2, <1>3, <1>4, <2>1
    <3> QED  BY <2>1, <3>1 DEF Holds
  <2> QED  BY <1>4, <1>5, <1>6, <2>1, <2>2
<1>7. CASE ~Valid(label, i)
  <2>1. P[i] = <<239, 191, 189>> /\ Len(P[i]) = 3 /\ P[i][1] = 239 /\ P[i][2] = 191 /\ P[i][3] = 189
    BY <1>2, <1>7 DEF Replacement
  <2>2. /\ x + 3 <= Len(w) /\ Len(f[i]) = x + 3
        /\ w[x + 1] = P[i][1] /\ w[x + 2] = P[i][2] /\ w[x + 3] = P[i][3]
    <3>1. Holds(w, x, P[i]) /\ Len(f[i]) = x + 3
      BY <1>2, <1>3, <1>4, <2>1
    <3>2. 1 \in 1..Len(P[i]) /\ 2 \in 1..Len(P[i]) /\ 3 \in 1..Len(P[i])
      BY <2>1
    <3> QED  BY <2>1, <3>1, <3>2 DEF Holds
  <2> QED  BY <1>4, <1>5, <1>7, <2>1, <2>2
<1> QED  BY <1>6, <1>7

LEMMA LossyType ==
    ASSUME NEW label, label \in Bytes
    PROVE  LossyLower(label) \in Bytes
<1>1. Pieces(label) \in Seq(Seq(Byte))
  BY PiecesType DEF Bytes
<1>2. LossyLower(label) = FlattenSeq(Pieces(label))
  BY DEF LossyLower, Pieces
<1> QED  BY <1>1, <1>2, FlattenSeqType DEF Bytes

LEMMA LossyNotEmpty ==
    ASSUME NEW label, label \in Bytes, label # << >>
    PROVE  LossyLower(label) # << >>
<1>1. PICK f : Flattens(Pieces(label), f, Byte) /\ LossyLower(label) = f[Len(label)]
  BY LossyPieces
<1>2. 1 \in 1..Len(label)
  BY EmptySeq DEF Bytes
<1>3. PICK w : w = f[Len(label)]
  OBVIOUS
<1>4. w \in Seq(Byte) /\ Len(f[1 - 1]) \in Nat /\ (Len(f[1 - 1]) + 1 <= Len(w) \/ Len(f[1 - 1]) + 3 <= Len(w))
  BY <1>1, <1>2, <1>3, NextPiece
<1>5. PICK x \in Nat : x = Len(f[1 - 1]) /\ (x + 1 <= Len(w) \/ x + 3 <= Len(w))
  BY <1>4
<1>6. w # << >>
  BY <1>4, <1>5
<1> QED  BY <1>1, <1>3, <1>6

\* The three bytes of a U+FFFD are found in a label one after the other.
LEMMA ValidCase ==
    ASSUME NEW label, label \in Bytes, NEW i \in 1..Len(label)
    PROVE  Valid(label, i) <=>
              label[i] \in 0..127 \/ \E start \in (i - 2)..i : Replaced(label, start)
<1>1. Len(label) \in Nat /\ label[i] \in 0..255
  <2>1. label[i] \in Byte
    BY ElementOfSeq DEF Bytes
  <2> QED  BY <2>1 DEF Bytes, Byte
<1>2. PICK b \in 0..255 : b = label[i]
  BY <1>1
<1>3. b < 128 <=> b \in 0..127
  OBVIOUS
<1>4. ASSUME NEW start \in (i - 2)..i
      PROVE  (start >= 1 /\ start + 2 <= Len(label)
                /\ SubSeq(label, start, start + 2) = Replacement) <=> Replaced(label, start)
  <2>1. CASE start >= 1 /\ start + 2 <= Len(label)
    <3>1. start \in 1..Len(label)
      BY <1>1, <2>1
    <3> QED  BY <2>1, <3>1, ReplacementBytes DEF Replaced
  <2>2. CASE ~(start >= 1 /\ start + 2 <= Len(label))
    BY <2>2 DEF Replaced
  <2> QED  BY <2>1, <2>2
<1>5. Valid(label, i) <=> b < 128 \/ \E start \in (i - 2)..i : Replaced(label, start)
  BY <1>2, <1>4 DEF Valid
<1> QED  BY <1>2, <1>3, <1>5

\* What is read of a label is clean.
LEMMA LossyClean ==
    ASSUME NEW label, label \in Bytes
    PROVE  Clean(LossyLower(label))
<1>1. PICK f : Flattens(Pieces(label), f, Byte) /\ LossyLower(label) = f[Len(label)]
  BY LossyPieces
<1>2. PICK n \in Nat : n = Len(label)
  BY DEF Bytes
<1>3. PICK w : w = f[n]
  OBVIOUS
<1>4. w \in Bytes /\ Len(w) \in Nat
  BY <1>1, <1>2, <1>3, LossyType DEF Bytes
<1> DEFINE L(k) == Len(f[k])
           G == {k \in 0..n : L(k) \in Nat /\ \A p \in 1..L(k) : CleanAt(w, p)}
<1>5. 0 \in G
  BY <1>1 DEF Flattens
<1>6. ASSUME NEW i \in 1..n
      PROVE  /\ L(i - 1) \in Nat
             /\ Valid(label, i) =>
                   /\ L(i) = L(i - 1) + 1 /\ L(i - 1) + 1 <= Len(w)
                   /\ w[L(i - 1) + 1] = lowercase(label[i])
             /\ ~Valid(label, i) =>
                   /\ L(i) = L(i - 1) + 3 /\ L(i - 1) + 3 <= Len(w)
                   /\ w[L(i - 1) + 1] = 239 /\ w[L(i - 1) + 2] = 191 /\ w[L(i - 1) + 3] = 189
  BY <1>1, <1>2, <1>3, NextPiece
<1> HIDE DEF L
<1>7. ASSUME NEW start \in 1..n, Replaced(label, start)
      PROVE  /\ L(start) = L(start - 1) + 1 /\ L(start + 1) = L(start - 1) + 2
             /\ L(start + 2) = L(start - 1) + 3 /\ L(start - 1) + 3 <= Len(w)
             /\ w[L(start - 1) + 1] = 239 /\ w[L(start - 1) + 2] = 191 /\ w[L(start - 1) + 3] = 189
  <2>1. start + 1 \in 1..n /\ start + 2 \in 1..n /\ (start + 1) - 1 = start /\ (start + 2) - 1 = start + 1
    BY <1>2, <1>7 DEF Replaced
  <2>2. Valid(label, start) /\ Valid(label, start + 1) /\ Valid(label, start + 2)
    <3>1. /\ start \in (start - 2)..start /\ start \in ((start + 1) - 2)..(start + 1)
          /\ start \in ((start + 2) - 2)..(start + 2)
      OBVIOUS
    <3> QED  BY <1>2, <1>7, <2>1, <3>1, ValidCase
  <2>3. lowercase(239) = 239 /\ lowercase(191) = 191 /\ lowercase(189) = 189
    BY DEF lowercase
  <2>a. label[start] = 239 /\ label[start + 1] = 191 /\ label[start + 2] = 189
    BY <1>7 DEF Replaced
  <2>4. PICK x \in Nat : x = L(start - 1)
    BY <1>6
  <2>5. L(start) = x + 1 /\ w[x + 1] = 239
    BY <1>6, <2>2, <2>3, <2>4, <2>a
  <2>6. L(start + 1) = x + 2 /\ w[x + 2] = 191
    <3>1. L(start + 1) = L(start) + 1 /\ w[L(start) + 1] = 191
      BY <1>6, <2>1, <2>2, <2>3, <2>a, SMTT(30)
    <3> QED  BY <2>5, <3>1
  <2>7. L(start + 2) = x + 3 /\ w[x + 3] = 189 /\ x + 3 <= Len(w)
    <3>1. L(start + 2) = L(start + 1) + 1 /\ w[L(start + 1) + 1] = 189 /\ L(start + 1) + 1 <= Len(w)
      BY <1>6, <2>1, <2>2, <2>3, <2>a, SMTT(30)
    <3> QED  BY <2>6, <3>1
  <2> QED  BY <2>4, <2>5, <2>6, <2>7
<1>8. ASSUME NEW k \in 0..(n - 1), k \in G PROVE k + 1 \in G
  <2>1. PICK i \in 1..n : i = k + 1 /\ i - 1 = k /\ k + 1 \in 0..n
    OBVIOUS
  <2>2. PICK x \in Nat : x = L(k) /\ \A p \in 1..x : CleanAt(w, p)
    BY <1>8
  <2>3. CASE ~Valid(label, i)
    <3>1. /\ L(i) = x + 3 /\ x + 3 <= Len(w)
          /\ w[x + 1] = 239 /\ w[x + 2] = 191 /\ w[x + 3] = 189
      BY <1>6, <2>1, <2>2, <2>3
    <3>2. ASSUME NEW p \in (x + 1)..(x + 3) PROVE CleanAt(w, p)
      <4>1. x + 1 \in (p - 2)..p /\ x + 1 >= 1 /\ (x + 1) + 1 = x + 2 /\ (x + 1) + 2 = x + 3
        BY <3>2
      <4>2. Replaced(w, x + 1)
        BY <3>1, <4>1 DEF Replaced
      <4> QED  BY <4>1, <4>2 DEF CleanAt
    <3>3. \A p \in 1..(x + 3) : p \in 1..x \/ p \in (x + 1)..(x + 3)
      OBVIOUS
    <3> QED  BY <2>1, <2>2, <3>1, <3>2, <3>3
  <2>4. CASE Valid(label, i) /\ label[i] \in 0..127
    <3>1. L(i) = x + 1 /\ w[x + 1] = lowercase(label[i])
      BY <1>6, <2>1, <2>2, <2>4
    <3>2. lowercase(label[i]) \in 0..127 /\ lowercase(label[i]) \notin 65..90
      BY <2>4 DEF lowercase
    <3>3. CleanAt(w, x + 1)
      BY <3>1, <3>2 DEF CleanAt
    <3>4. \A p \in 1..(x + 1) : p \in 1..x \/ p = x + 1
      OBVIOUS
    <3> QED  BY <2>1, <2>2, <3>1, <3>3, <3>4
  <2>5. CASE Valid(label, i) /\ label[i] \notin 0..127
    <3>1. PICK start \in (i - 2)..i : Replaced(label, start)
      BY <1>2, <2>5, ValidCase
    <3>2. start \in 1..n
      BY <1>2, <3>1 DEF Replaced
    <3>3. PICK y \in Nat : y = L(start - 1)
      BY <1>6, <3>2
    <3>a. /\ L(start) = y + 1 /\ L(start + 1) = y + 2
          /\ L(start + 2) = y + 3 /\ y + 3 <= Len(w)
          /\ w[y + 1] = 239 /\ w[y + 2] = 191 /\ w[y + 3] = 189
      BY <1>7, <3>1, <3>2, <3>3, SMTT(30)
    <3>4. L(i) = x + 1
      BY <1>6, <2>1, <2>2, <2>5
    <3>5. x + 1 \in (y + 1)..(y + 3)
      <4>1. i = start \/ i = start + 1 \/ i = start + 2
        BY <3>1
      <4>2. L(i) \in (y + 1)..(y + 3)
        BY <3>a, <4>1, SMTT(30)
      <4> QED  BY <3>4, <4>2
    <3>6. CleanAt(w, x + 1)
      <4>1. y + 1 \in ((x + 1) - 2)..(x + 1) /\ y + 1 >= 1 /\ (y + 1) + 1 = y + 2 /\ (y + 1) + 2 = y + 3
        BY <3>5
      <4>2. Replaced(w, y + 1)
        BY <3>a, <4>1 DEF Replaced
      <4> QED  BY <4>1, <4>2 DEF CleanAt
    <3>7. \A p \in 1..(x + 1) : p \in 1..x \/ p = x + 1
      OBVIOUS
    <3> QED  BY <2>1, <2>2, <3>4, <3>6, <3>7
  <2> QED  BY <2>3, <2>4, <2>5
<1>9. n \in G
  <2> HIDE DEF G
  <2>1. 0..n \subseteq G
    BY <1>5, <1>8, StepByStep
  <2> QED  BY <2>1
<1>10. \A p \in 1..Len(w) : CleanAt(w, p)
  BY <1>3, <1>9 DEF L
<1> QED  BY <1>1, <1>2, <1>3, <1>4, <1>10 DEF Clean

\* A clean label is read as it is.
LEMMA LossyOfClean ==
    ASSUME NEW label, Clean(label)
    PROVE  LossyLower(label) = label
<1>1. label \in Bytes /\ \A i \in 1..Len(label) : CleanAt(label, i)
  BY DEF Clean
<1>2. PICK n \in Nat : n = Len(label)
  BY <1>1 DEF Bytes
<1>3. PICK f : Flattens(Pieces(label), f, Byte) /\ LossyLower(label) = f[Len(label)]
  BY <1>1, LossyPieces
<1>4. PICK w : w = f[n] /\ w \in Seq(Byte)
  BY <1>1, <1>2, <1>3, LossyType DEF Bytes
<1>5. ASSUME NEW i \in 1..n
      PROVE  Valid(label, i) /\ lowercase(label[i]) = label[i]
  <2>1. CleanAt(label, i) /\ label[i] \in Byte
    BY <1>1, <1>2, ElementOfSeq DEF Bytes
  <2>2. CASE label[i] \in 0..127 /\ label[i] \notin 65..90
    BY <1>1, <1>2, <2>2, ValidCase, ZenonT(40) DEF lowercase
  <2>3. ASSUME NEW start \in (i - 2)..i, Replaced(label, start)
        PROVE  Valid(label, i) /\ lowercase(label[i]) = label[i]
    <3>1. Valid(label, i)
      BY <1>1, <1>2, <2>3, ValidCase
    <3>2. label[start] = 239 /\ label[start + 1] = 191 /\ label[start + 2] = 189
      BY <2>3 DEF Replaced
    <3>3. i = start \/ i = start + 1 \/ i = start + 2
      BY <2>3
    <3>4. label[i] \in {239, 191, 189}
      BY <3>2, <3>3
    <3>5. lowercase(label[i]) = label[i]
      BY <3>4 DEF lowercase
    <3> QED  BY <3>1, <3>5
  <2> QED  BY <2>1, <2>2, <2>3 DEF CleanAt
<1> DEFINE L(k) == Len(f[k])
           G == {k \in 0..n : L(k) = k /\ \A p \in 1..k : w[p] = label[p]}
<1>6. ASSUME NEW i \in 1..n
      PROVE  L(i - 1) \in Nat /\ L(i) = L(i - 1) + 1 /\ w[L(i - 1) + 1] = label[i]
  BY <1>1, <1>2, <1>3, <1>4, <1>5, NextPiece
<1>7. 0 \in G
  BY <1>3 DEF Flattens
<1> HIDE DEF L
<1>8. ASSUME NEW k \in 0..(n - 1), k \in G PROVE k + 1 \in G
  <2>1. PICK i \in 1..n : i = k + 1 /\ i - 1 = k /\ k + 1 \in 0..n
    OBVIOUS
  <2>2. L(i) = i /\ w[i] = label[i]
    BY <1>6, <1>8, <2>1
  <2>3. \A p \in 1..i : p \in 1..k \/ p = i
    BY <2>1
  <2> QED  BY <1>8, <2>1, <2>2, <2>3
<1>9. n \in G
  <2> HIDE DEF G
  <2>1. 0..n \subseteq G
    BY <1>7, <1>8, StepByStep
  <2> QED  BY <2>1
<1>10. Len(w) = n /\ \A p \in 1..n : w[p] = label[p]
  BY <1>4, <1>9 DEF L
<1>11. w = label
  BY <1>1, <1>2, <1>4, <1>10, SeqEqual DEF Bytes
<1> QED  BY <1>2, <1>3, <1>4, <1>11

\* What lies between two dots of a clean text is clean.
LEMMA CleanLabel ==
    ASSUME NEW text, Clean(text), NEW a \in 1..Len(text), NEW b \in a..Len(text),
           a = 1 \/ text[a - 1] = Dot, b = Len(text) \/ text[b + 1] = Dot
    PROVE  Clean(SubSeq(text, a, b))
<1>1. PICK n \in Nat : n = Len(text)
  BY DEF Clean, Bytes
<1>2. text \in Seq(Byte) /\ \A i \in 1..n : CleanAt(text, i)
  BY <1>1 DEF Clean, Bytes
<1>3. PICK s : s = SubSeq(text, a, b)
  OBVIOUS
<1>4. /\ s \in Seq(Byte) /\ Len(s) = b - a + 1
      /\ \A i \in 1..(b - a + 1) : s[i] = text[a + i - 1]
  <2>1. \A i \in a..b : text[i] \in Byte
    BY <1>1, <1>2, ElementOfSeq
  <2>2. a \in Int /\ b \in Int /\ a <= b
    BY <1>1
  <2> QED  BY <1>3, <2>1, <2>2, SubSeqProperties
<1>5. ASSUME NEW i \in 1..(b - a + 1) PROVE CleanAt(s, i)
  <2>1. PICK j \in 1..n : j = a + i - 1 /\ j \in a..b /\ s[i] = text[j]
    BY <1>1, <1>4
  <2>2. CASE text[j] \in 0..127 /\ text[j] \notin 65..90
    BY <2>1, <2>2 DEF CleanAt
  <2>3. ASSUME NEW start \in (j - 2)..j, Replaced(text, start) PROVE CleanAt(s, i)
    <3>1. /\ start >= 1 /\ start + 2 <= n
          /\ text[start] = 239 /\ text[start + 1] = 191 /\ text[start + 2] = 189
      BY <1>1, <2>3 DEF Replaced
    <3>2. start >= a
      <4>1. ASSUME start < a PROVE FALSE
        <5>1. a - 1 = start \/ a - 1 = start + 1
          BY <1>1, <2>1, <2>3, <4>1
        <5>2. a # 1
          BY <3>1, <4>1
        <5>3. text[a - 1] = 239 \/ text[a - 1] = 191
          BY <3>1, <5>1
        <5> QED  BY <5>2, <5>3 DEF Dot
      <4> QED  BY <1>1, <2>1, <2>3, <4>1
    <3>3. start + 2 <= b
      <4>1. ASSUME start + 2 > b PROVE FALSE
        <5>1. b + 1 = start + 1 \/ b + 1 = start + 2
          BY <1>1, <2>1, <2>3, <4>1
        <5>2. b # Len(text)
          BY <1>1, <3>1, <4>1
        <5>3. text[b + 1] = 191 \/ text[b + 1] = 189
          BY <3>1, <5>1
        <5> QED  BY <5>2, <5>3 DEF Dot
      <4> QED  BY <1>1, <2>1, <2>3, <4>1
    <3>4. PICK k \in Int : k = start - a + 1
      BY <1>1, <2>1, <2>3
    <3>5. /\ k \in 1..(b - a + 1) /\ k + 1 \in 1..(b - a + 1) /\ k + 2 \in 1..(b - a + 1)
          /\ a + k - 1 = start /\ a + (k + 1) - 1 = start + 1 /\ a + (k + 2) - 1 = start + 2
          /\ k \in (i - 2)..i
      BY <1>1, <2>1, <2>3, <3>2, <3>3, <3>4
    <3>6. s[k] = 239 /\ s[k + 1] = 191 /\ s[k + 2] = 189
      <4>1. s[k] = text[start] /\ s[k + 1] = text[start + 1] /\ s[k + 2] = text[start + 2]
        BY <1>4, <3>5
      <4> QED  BY <3>1, <4>1
    <3>7. k >= 1 /\ k + 2 <= Len(s)
      BY <1>4, <3>5
    <3> QED  BY <3>5, <3>6, <3>7 DEF CleanAt, Replaced
  <2> QED  BY <1>2, <2>1, <2>2, <2>3 DEF CleanAt
<1> QED  BY <1>3, <1>4, <1>5 DEF Clean, Bytes

\* Clean texts with a dot between them are clean.
LEMMA CleanDotted ==
    ASSUME NEW s, Clean(s), NEW t, Clean(t)
    PROVE  Clean(s \o t) /\ Clean(s \o <<Dot>> \o t)
<1>1. ASSUME NEW x, Clean(x), NEW y, Clean(y) PROVE Clean(x \o y)
  <2>1. x \in Seq(Byte) /\ y \in Seq(Byte) /\ Len(x) \in Nat /\ Len(y) \in Nat
    BY <1>1 DEF Clean, Bytes
  <2>2. PICK m \in Nat, n \in Nat : m = Len(x) /\ n = Len(y)
    BY <2>1
  <2>3. PICK z : z = x \o y
    OBVIOUS
  <2>4. /\ z \in Seq(Byte) /\ Len(z) = m + n
        /\ \A i \in 1..m : z[i] = x[i]
        /\ \A i \in 1..n : z[m + i] = y[i]
    <3>1. \A i \in 1..n : m + i \in 1..(m + n) /\ ~(m + i <= m) /\ (m + i) - m = i
      OBVIOUS
    <3>2. \A i \in 1..m : i \in 1..(m + n) /\ i <= m
      OBVIOUS
    <3> QED  BY <2>1, <2>2, <2>3, <3>1, <3>2, ConcatProperties
  <2>5. ASSUME NEW i \in 1..m PROVE CleanAt(z, i)
    <3>1. CleanAt(x, i) /\ z[i] = x[i]
      BY <1>1, <2>2, <2>4 DEF Clean
    <3>2. ASSUME NEW start \in (i - 2)..i, Replaced(x, start) PROVE Replaced(z, start)
      <4>1. start \in 1..m /\ start + 1 \in 1..m /\ start + 2 \in 1..m /\ start + 2 <= m + n /\ start >= 1
        BY <2>2, <3>2 DEF Replaced
      <4> QED  BY <2>4, <3>2, <4>1 DEF Replaced
    <3> QED  BY <3>1, <3>2 DEF CleanAt
  <2>6. ASSUME NEW i \in 1..n PROVE CleanAt(z, m + i)
    <3>1. CleanAt(y, i) /\ z[m + i] = y[i]
      BY <1>1, <2>2, <2>4 DEF Clean
    <3>2. ASSUME NEW start \in (i - 2)..i, Replaced(y, start)
          PROVE  m + start \in ((m + i) - 2)..(m + i) /\ Replaced(z, m + start)
      <4>1. /\ start \in 1..n /\ start + 1 \in 1..n /\ start + 2 \in 1..n
            /\ (m + start) + 2 <= m + n /\ m + start >= 1
            /\ m + (start + 1) = (m + start) + 1 /\ m + (start + 2) = (m + start) + 2
        BY <2>2, <3>2 DEF Replaced
      <4>2. z[m + start] = 239 /\ z[(m + start) + 1] = 191 /\ z[(m + start) + 2] = 189
        BY <2>4, <3>2, <4>1, SMTT(30) DEF Replaced
      <4> QED  BY <2>4, <4>1, <4>2 DEF Replaced
    <3> QED  BY <3>1, <3>2 DEF CleanAt
  <2>7. ASSUME NEW i \in 1..(m + n) PROVE CleanAt(z, i)
    <3>1. CASE i <= m
      BY <2>5, <3>1
    <3>2. CASE i > m
      <4>1. i - m \in 1..n /\ m + (i - m) = i
        BY <3>2
      <4> QED  BY <2>6, <4>1
    <3> QED  BY <3>1, <3>2
  <2> QED  BY <2>2, <2>3, <2>4, <2>7 DEF Clean, Bytes
<1>2. Clean(<<Dot>>)
  <2>1. <<Dot>> \in Seq(Byte) /\ Len(<<Dot>>) = 1 /\ <<Dot>>[1] = 46
    BY DEF Dot, Byte
  <2>2. CleanAt(<<Dot>>, 1)
    BY <2>1 DEF CleanAt
  <2> QED  BY <2>1, <2>2 DEF Clean, Bytes
<1> QED  BY <1>1, <1>2

-----------------------------------------------------------------------------
(* What is written.                                                        *)

\* The label that begins at start ends before e.
LabelEnd(text, start, e) ==
    /\ e \in start..(Len(text) + 1)
    /\ e = Len(text) + 1 \/ text[e] = Dot
    /\ \A j \in start..(e - 1) : text[j] # Dot

LEMMA LabelEnds ==
    ASSUME NEW text, text \in Bytes, NEW start \in 1..(Len(text) + 1)
    PROVE  \E e : LabelEnd(text, start, e) /\ LabelLength(text, start) = e - start
<1>1. PICK n \in Nat : n = Len(text)
  BY DEF Bytes
<1> DEFINE I == {i \in start..(n + 1) : i > n \/ text[i] = Dot}
<1>2. n + 1 \in I
  BY <1>1
<1>3. PICK e \in I : \A i \in I : e <= i
  <2> DEFINE G == {k \in 0..(n + 1) : k \in I => \E e \in I : \A i \in I : e <= i}
  <2>1. ASSUME NEW k \in 0..(n + 1), \A j \in 0..(k - 1) : j \in G PROVE k \in G
    <3>1. CASE \E j \in I : j < k
      <4>1. PICK j \in I : j < k
        BY <3>1
      <4>2. j \in 0..(k - 1)
        BY <1>1, <4>1
      <4> QED  BY <2>1, <4>2
    <3>2. CASE ~\E j \in I : j < k
      <4>1. \A i \in I : k <= i
        BY <1>1, <3>2
      <4> QED  BY <4>1
    <3> QED  BY <3>1, <3>2
  <2>2. n + 1 \in G
    <3> HIDE DEF G
    <3>1. 0..(n + 1) \subseteq G
      BY <2>1, Upward
    <3> QED  BY <3>1
  <2> QED  BY <1>2, <2>2
<1>4. Min(I) = e
  <2>1. \A x \in I : (\A y \in I : x <= y) => x = e
    BY <1>1, <1>3
  <2> HIDE DEF I
  <2> QED  BY <1>3, <2>1 DEF Min
<1>5. LabelLength(text, start) = e - start
  BY <1>1, <1>4 DEF LabelLength
<1>6. LabelEnd(text, start, e)
  <2>1. ASSUME NEW j \in start..(e - 1), text[j] = Dot PROVE FALSE
    <3>1. j \in I /\ ~(e <= j)
      BY <1>1, <1>3, <2>1
    <3> QED  BY <1>3, <3>1
  <2> QED  BY <1>1, <1>3, <2>1 DEF LabelEnd
<1> QED  BY <1>5, <1>6

\* The bytes of a name.
IsName(w, text) ==
    /\ w \in Seq(Byte) /\ Len(w) = Len(text) + 2 /\ w[Len(text) + 2] = 0
    /\ \A i \in 1..(Len(text) + 1) :
          w[i] = IF i \in LabelStarts(text) THEN LabelLength(text, i) ELSE text[i - 1]

LEMMA NameBytes ==
    ASSUME NEW text, text \in Bytes, NameFits(text)
    PROVE  IsName(write_qname(text), text)
<1>1. PICK n \in Nat : n = Len(text)
  BY DEF Bytes
<1>2. ASSUME NEW i \in 1..(n + 1)
      PROVE  (IF i \in LabelStarts(text) THEN LabelLength(text, i) ELSE text[i - 1]) \in Byte
  <2>1. CASE i \in LabelStarts(text)
    <3>1. LabelLength(text, i) <= 63
      BY <2>1 DEF NameFits
    <3>2. PICK e \in i..(n + 1) : LabelLength(text, i) = e - i
      BY <1>1, LabelEnds DEF LabelEnd
    <3>3. LabelLength(text, i) \in 0..63
      BY <3>1, <3>2
    <3> QED  BY <2>1, <3>3 DEF Byte
  <2>2. CASE i \notin LabelStarts(text)
    <3>1. i # 1
      BY <2>2 DEF LabelStarts
    <3>2. i - 1 \in 1..Len(text)
      BY <1>1, <3>1
    <3>3. text[i - 1] \in Byte
      BY <3>2, ElementOfSeq DEF Bytes
    <3> QED  BY <2>2, <3>3
  <2> QED  BY <2>1, <2>2
<1>3. PICK s : s = [i \in 1..(n + 1) |->
                      IF i \in LabelStarts(text) THEN LabelLength(text, i) ELSE text[i - 1]]
  OBVIOUS
<1>4. s \in [1..(n + 1) -> Byte]
  BY <1>2, <1>3
<1>5. s \in Seq(Byte) /\ Len(s) = n + 1
  BY <1>4
<1>6. write_qname(text) = s \o <<0>>
  BY <1>1, <1>3 DEF write_qname
<1>7. PICK w : w = s \o <<0>>
  OBVIOUS
<1>8. <<0>> \in Seq(Byte) /\ Len(<<0>>) = 1 /\ <<0>>[1] = 0
  BY DEF Byte
<1>9. /\ w \in Seq(Byte) /\ Len(w) = n + 2 /\ w[n + 2] = 0
      /\ \A i \in 1..(n + 1) : w[i] = s[i]
  BY <1>5, <1>7, <1>8
<1> QED  BY <1>1, <1>3, <1>6, <1>7, <1>9 DEF IsName

\* The high byte of a number is a byte.
LEMMA Quotient ==
    ASSUME NEW q \in Int, NEW r \in Int, 0 <= r, r <= 255, 0 <= q * 256 + r, q * 256 + r <= 65535
    PROVE  0 <= q /\ q <= 255
<1>1. 0 <= q
  BY SMT
<1>2. q <= 255
  BY SMT
<1> QED  BY <1>1, <1>2

LEMMA Halves ==
    ASSUME NEW n \in Nat
    PROVE  /\ n % 256 \in 0..255 /\ n \div 256 \in Int
           /\ n = (n \div 256) * 256 + (n % 256)
  BY SMT

LEMMA WordIsNat ==
    ASSUME NEW n \in Word
    PROVE  n \in Nat /\ n <= 65535
<1>1. PICK max : max = 65535
  BY SMTT(30)
<1>2. Word = 0..max
  BY <1>1, SMT DEF Word
<1>3. max \in Nat
  BY <1>1, SMT
<1>4. n \in Nat /\ n <= max
  BY <1>2, <1>3, SMT
<1> QED  BY <1>1, <1>4, SMT

\* The two bytes of a number.
LEMMA WordBytes ==
    ASSUME NEW n \in Word
    PROVE  \E c \in Byte, d \in Byte : write_u16(n) = <<c, d>> /\ u16(c, d) = n
<1>1. n \in Nat /\ n <= 65535
  BY WordIsNat, SMT
<1>2. n % 256 \in 0..255 /\ n \div 256 \in Int /\ n = (n \div 256) * 256 + (n % 256)
  BY <1>1, Halves, SMT
<1>3. 0 <= n /\ n <= 65535
  BY <1>1, SMT
<1>4. PICK q, r : q = n \div 256 /\ r = n % 256
  OBVIOUS
<1>5. q \in Int /\ r \in Int /\ 0 <= r /\ r <= 255 /\ 0 <= q * 256 + r /\ q * 256 + r <= 65535
  BY <1>2, <1>3, <1>4, SMT
<1>6. q \in 0..255 /\ r \in 0..255
  BY <1>5, Quotient, SMT
<1>7. q % 256 = q
  BY <1>6, SMT
<1>8. q \in Byte /\ r \in Byte
  BY <1>6 DEF Byte
<1>9. write_u16(n) = <<q, r>>
  BY <1>4, <1>7 DEF write_u16
<1>10. u16(q, r) = n
  BY <1>2, <1>4 DEF u16
<1> QED  BY <1>8, <1>9, <1>10, SMTT(30)

\* Two bytes added.
Ends(w, s, c, d) ==
    /\ w \in Seq(Byte) /\ Len(w) = Len(s) + 2
    /\ w[Len(s) + 1] = c /\ w[Len(s) + 2] = d
    /\ \A i \in 1..Len(s) : w[i] = s[i]

LEMMA AddPair ==
    ASSUME NEW s, s \in Seq(Byte), NEW c \in Byte, NEW d \in Byte
    PROVE  Ends(s \o <<c, d>>, s, c, d)
<1>1. PICK t : t = <<c, d>>
  OBVIOUS
<1>2. t \in Seq(Byte) /\ Len(t) = 2 /\ t[1] = c /\ t[2] = d
  BY <1>1
<1>3. PICK w : w = s \o t
  OBVIOUS
<1>4. PICK n \in Nat : n = Len(s)
  OBVIOUS
<1>5. Behind(w, s, t, Byte)
  BY <1>2, <1>3, Concatenated
<1>6. w \in Seq(Byte) /\ Len(w) = n + 2 /\ \A i \in 1..n : w[i] = s[i]
  BY <1>2, <1>4, <1>5 DEF Behind, Opens
<1>7. w[n + 1] = t[1] /\ w[n + 2] = t[2]
  <2>1. \A i \in 1..2 : w[n + i] = t[i]
    BY <1>2, <1>4, <1>5 DEF Behind, Holds
  <2> QED  BY <2>1
<1> QED  BY <1>1, <1>2, <1>3, <1>4, <1>6, <1>7 DEF Ends

IsHeader(w, h) ==
    /\ w \in Seq(Byte) /\ Len(w) = 12
    /\ h.id = <<w[1], w[2]>> /\ w[3] = h.a /\ w[4] = h.b
    /\ u16(w[5], w[6]) = h.questions /\ u16(w[7], w[8]) = h.answers
    /\ u16(w[9], w[10]) = h.authoritative_entries /\ u16(w[11], w[12]) = h.resource_entries

LEMMA HeaderFields ==
    ASSUME NEW h \in Header
    PROVE  /\ \E x \in Byte, y \in Byte : h.id = <<x, y>>
           /\ h.a \in Byte /\ h.b \in Byte
           /\ h.questions \in Word /\ h.answers \in Word
           /\ h.authoritative_entries \in Word /\ h.resource_entries \in Word
<1>1. \A i \in Byte \X Byte : \E x \in Byte, y \in Byte : i = <<x, y>>
  OBVIOUS
<1>2. h.id \in Byte \X Byte
  BY DEF Header
<1>3. /\ h.a \in Byte /\ h.b \in Byte /\ h.questions \in Word /\ h.answers \in Word
      /\ h.authoritative_entries \in Word /\ h.resource_entries \in Word
  BY DEF Header
<1> QED  BY <1>1, <1>2, <1>3

LEMMA HeaderBytes ==
    ASSUME NEW h \in Header
    PROVE  IsHeader(WriteHeader(h), h)
<1>1. PICK x \in Byte, y \in Byte : h.id = <<x, y>>
  BY HeaderFields
<1>2. PICK a \in Byte, b \in Byte : a = h.a /\ b = h.b
  BY HeaderFields
<1>4. PICK q1 \in Byte, q2 \in Byte : write_u16(h.questions) = <<q1, q2>> /\ u16(q1, q2) = h.questions
  BY HeaderFields, WordBytes
<1>5. PICK a1 \in Byte, a2 \in Byte : write_u16(h.answers) = <<a1, a2>> /\ u16(a1, a2) = h.answers
  BY HeaderFields, WordBytes
<1>6. PICK n1 \in Byte, n2 \in Byte : /\ write_u16(h.authoritative_entries) = <<n1, n2>>
                                      /\ u16(n1, n2) = h.authoritative_entries
  BY HeaderFields, WordBytes
<1>7. PICK r1 \in Byte, r2 \in Byte : /\ write_u16(h.resource_entries) = <<r1, r2>>
                                      /\ u16(r1, r2) = h.resource_entries
  BY HeaderFields, WordBytes
<1>10. PICK s2 : s2 = <<x, y>>
  OBVIOUS
<1>11. s2 \in Seq(Byte) /\ Len(s2) = 2 /\ s2[1] = x /\ s2[2] = y
  BY <1>10
<1>12. PICK s4 : s4 = s2 \o <<a, b>>
  OBVIOUS
<1>13. PICK s6 : s6 = s4 \o <<q1, q2>>
  OBVIOUS
<1>14. PICK s8 : s8 = s6 \o <<a1, a2>>
  OBVIOUS
<1>15. PICK s10 : s10 = s8 \o <<n1, n2>>
  OBVIOUS
<1>16. PICK s12 : s12 = s10 \o <<r1, r2>>
  OBVIOUS
<1>17. WriteHeader(h) = s12
  <2>1. WriteHeader(h) = <<x, y>> \o <<a, b>> \o <<q1, q2>> \o <<a1, a2>> \o <<n1, n2>> \o <<r1, r2>>
    BY <1>1, <1>2, <1>4, <1>5, <1>6, <1>7, Zenon DEF WriteHeader
  <2> QED  BY <1>10, <1>12, <1>13, <1>14, <1>15, <1>16, <2>1, Zenon
<1>18. Ends(s4, s2, a, b)
  BY <1>11, <1>12, AddPair, Zenon
<1>19a. s4 \in Seq(Byte)
  BY <1>18 DEF Ends
<1>19. Ends(s6, s4, q1, q2)
  BY <1>13, <1>19a, AddPair, Zenon
<1>20a. s6 \in Seq(Byte)
  BY <1>19 DEF Ends
<1>20. Ends(s8, s6, a1, a2)
  BY <1>14, <1>20a, AddPair, Zenon
<1>21a. s8 \in Seq(Byte)
  BY <1>20 DEF Ends
<1>21. Ends(s10, s8, n1, n2)
  BY <1>15, <1>21a, AddPair, Zenon
<1>22a. s10 \in Seq(Byte)
  BY <1>21 DEF Ends
<1>22. Ends(s12, s10, r1, r2)
  BY <1>16, <1>22a, AddPair, Zenon
<1>23. Len(s4) = 4 /\ s4[3] = a /\ s4[4] = b /\ s4[1] = x /\ s4[2] = y
  BY <1>11, <1>18 DEF Ends
<1>24. Len(s6) = 6 /\ s6[5] = q1 /\ s6[6] = q2 /\ \A i \in 1..4 : s6[i] = s4[i]
  BY <1>19, <1>23 DEF Ends
<1>25. Len(s8) = 8 /\ s8[7] = a1 /\ s8[8] = a2 /\ \A i \in 1..6 : s8[i] = s6[i]
  BY <1>20, <1>24 DEF Ends
<1>26. Len(s10) = 10 /\ s10[9] = n1 /\ s10[10] = n2 /\ \A i \in 1..8 : s10[i] = s8[i]
  BY <1>21, <1>25 DEF Ends
<1>27. /\ s12 \in Seq(Byte) /\ Len(s12) = 12 /\ s12[11] = r1 /\ s12[12] = r2
       /\ \A i \in 1..10 : s12[i] = s10[i]
  BY <1>22, <1>26 DEF Ends
<1>28. s12[1] = x /\ s12[2] = y /\ s12[3] = a /\ s12[4] = b
  BY <1>23, <1>24, <1>25, <1>26, <1>27
<1>29. s12[5] = q1 /\ s12[6] = q2 /\ s12[7] = a1 /\ s12[8] = a2 /\ s12[9] = n1 /\ s12[10] = n2
  BY <1>24, <1>25, <1>26, <1>27
<1> QED  BY <1>1, <1>2, <1>4, <1>5, <1>6, <1>7, <1>17, <1>27, <1>28, <1>29, Zenon DEF IsHeader

LEMMA InWord ==
    ASSUME NEW n \in Int, 0 <= n, n <= 65535
    PROVE  n \in Word
<1>1. PICK max : max = 65535
  OBVIOUS
<1>2. max \in Int /\ n <= max
  BY <1>1, SMT
<1>3. n \in 0..max
  BY <1>2, SMT
<1>4. Word = 0..max
  BY <1>1, SMT DEF Word
<1> QED  BY <1>3, <1>4, SMT

LEMMA SmallWord ==
    ASSUME NEW n \in 0..255
    PROVE  n \in Word
  BY InWord, SMT

\* The bytes of a question, and of an address record.
IsQuestion(w, q) ==
    /\ w \in Seq(Byte) /\ Len(w) = Len(q.name) + 6
    /\ \E nm : IsName(nm, q.name) /\ Opens(nm, w)
    /\ u16(w[Len(q.name) + 3], w[Len(q.name) + 4]) = q.qtype

LEMMA QuestionBytes ==
    ASSUME NEW q, q.name \in Bytes, NameFits(q.name), q.qtype \in Word
    PROVE  IsQuestion(WriteQuestion(q), q)
<1>1. PICK n \in Nat : n = Len(q.name)
  BY DEF Bytes
<1>2. PICK nm : nm = write_qname(q.name)
  OBVIOUS
<1>3. IsName(nm, q.name) /\ nm \in Seq(Byte) /\ Len(nm) = n + 2
  BY <1>1, <1>2, NameBytes DEF IsName
<1>4. PICK c \in Byte, d \in Byte : write_u16(q.qtype) = <<c, d>> /\ u16(c, d) = q.qtype
  BY WordBytes
<1>5. 1 \in Word
  BY SmallWord, SMT
<1>6. PICK c1 \in Byte, d1 \in Byte : write_u16(1) = <<c1, d1>>
  BY <1>5, WordBytes, Zenon
<1>7. PICK s : s = nm \o <<c, d>>
  OBVIOUS
<1>8. PICK w : w = s \o <<c1, d1>>
  OBVIOUS
<1>9. WriteQuestion(q) = w
  BY <1>2, <1>4, <1>6, <1>7, <1>8, Zenon DEF WriteQuestion
<1>10. Ends(s, nm, c, d)
  BY <1>3, <1>7, AddPair, Zenon
<1>11. s \in Seq(Byte) /\ Len(s) = n + 4 /\ s[n + 3] = c /\ s[n + 4] = d
       /\ \A i \in 1..(n + 2) : s[i] = nm[i]
  BY <1>3, <1>10 DEF Ends
<1>12. Ends(w, s, c1, d1)
  BY <1>8, <1>11, AddPair, Zenon
<1>13. w \in Seq(Byte) /\ Len(w) = n + 6 /\ \A i \in 1..(n + 4) : w[i] = s[i]
  BY <1>11, <1>12 DEF Ends
<1>14. w[n + 3] = c /\ w[n + 4] = d /\ \A i \in 1..(n + 2) : w[i] = nm[i]
  BY <1>11, <1>13
<1>15. Opens(nm, w)
  BY <1>3, <1>13, <1>14 DEF Opens
<1> QED  BY <1>1, <1>3, <1>4, <1>9, <1>13, <1>14, <1>15 DEF IsQuestion

\* A record as BlockRecords makes it.
Address(r) ==
    /\ r.type \in {A, AAAA} /\ r.domain \in Bytes
    /\ r.ttl \in Seq(Byte) /\ Len(r.ttl) = 4
    /\ r.data \in Seq(Byte) /\ Len(r.data) = IF r.type = A THEN 4 ELSE 16

IsRecord(w, r) ==
    LET n == Len(r.domain)
    IN  /\ w \in Seq(Byte) /\ Len(w) = n + 12 + Len(r.data)
        /\ \E nm : IsName(nm, r.domain) /\ Opens(nm, w)
        /\ u16(w[n + 3], w[n + 4]) = r.type
        /\ Holds(w, n + 6, r.ttl)
        /\ u16(w[n + 11], w[n + 12]) = Len(r.data)
        /\ Holds(w, n + 12, r.data)

LEMMA RecordBytes ==
    ASSUME NEW r, Address(r), NameFits(r.domain)
    PROVE  IsRecord(WriteRecord(r), r)
<1>1. PICK n \in Nat : n = Len(r.domain)
  BY DEF Address, Bytes
<1>2. PICK nm : nm = write_qname(r.domain)
  OBVIOUS
<1>3. IsName(nm, r.domain) /\ nm \in Seq(Byte) /\ Len(nm) = n + 2
  BY <1>1, <1>2, NameBytes DEF IsName, Address
<1>4. r.type \in Word /\ 1 \in Word /\ Len(r.data) \in Word
  <2>1. r.type \in 0..255 /\ Len(r.data) \in 0..255
    BY DEF Address, A, AAAA
  <2>2. 1 \in 0..255
    OBVIOUS
  <2> QED  BY <2>1, <2>2, SmallWord, Zenon
<1>5. PICK c \in Byte, d \in Byte : write_u16(r.type) = <<c, d>> /\ u16(c, d) = r.type
  BY <1>4, WordBytes, Zenon
<1>6. PICK c1 \in Byte, d1 \in Byte : write_u16(1) = <<c1, d1>>
  BY <1>4, WordBytes, Zenon
<1>7. PICK c2 \in Byte, d2 \in Byte : write_u16(Len(r.data)) = <<c2, d2>> /\ u16(c2, d2) = Len(r.data)
  BY <1>4, WordBytes, Zenon
<1>8. PICK s4 : s4 = nm \o <<c, d>>
  OBVIOUS
<1>9. PICK s6 : s6 = s4 \o <<c1, d1>>
  OBVIOUS
<1>10. PICK ttl, data : ttl = r.ttl /\ data = r.data
  OBVIOUS
<1>11. PICK s10 : s10 = s6 \o ttl
  OBVIOUS
<1>12. PICK s12 : s12 = s10 \o <<c2, d2>>
  OBVIOUS
<1>13. PICK w : w = s12 \o data
  OBVIOUS
<1>14. WriteRecord(r) = w
  <2>1. r.type \in {A, AAAA, CNAME} /\ r.type # CNAME
    BY DEF Address, A, AAAA, CNAME
  <2>2. WriteRecord(r) = ((((nm \o write_u16(r.type)) \o write_u16(1)) \o ttl) \o write_u16(Len(data))) \o data
    BY <1>2, <1>10, <2>1, Zenon DEF WriteRecord
  <2> QED  BY <1>5, <1>6, <1>7, <1>8, <1>9, <1>10, <1>11, <1>12, <1>13, <2>2, Zenon
<1>15. Ends(s4, nm, c, d)
  BY <1>3, <1>8, AddPair, Zenon
<1>16. s4 \in Seq(Byte) /\ Len(s4) = n + 4 /\ s4[n + 3] = c /\ s4[n + 4] = d
       /\ \A i \in 1..(n + 2) : s4[i] = nm[i]
  BY <1>3, <1>15 DEF Ends
<1>17. Ends(s6, s4, c1, d1)
  BY <1>9, <1>16, AddPair, Zenon
<1>18. s6 \in Seq(Byte) /\ Len(s6) = n + 6 /\ \A i \in 1..(n + 4) : s6[i] = s4[i]
  BY <1>16, <1>17 DEF Ends
<1>19. ttl \in Seq(Byte) /\ Len(ttl) = 4 /\ data \in Seq(Byte)
  BY <1>10 DEF Address
<1>20. Behind(s10, s6, ttl, Byte)
  BY <1>11, <1>18, <1>19, Concatenated, Zenon
<1>21. s10 \in Seq(Byte) /\ Len(s10) = n + 10 /\ \A i \in 1..(n + 6) : s10[i] = s6[i]
  BY <1>18, <1>19, <1>20 DEF Behind, Opens
<1>22. \A i \in 1..4 : s10[n + 6 + i] = ttl[i]
  BY <1>18, <1>19, <1>20 DEF Behind, Holds
<1>23. Ends(s12, s10, c2, d2)
  BY <1>12, <1>21, AddPair, Zenon
<1>24. s12 \in Seq(Byte) /\ Len(s12) = n + 12 /\ s12[n + 11] = c2 /\ s12[n + 12] = d2
       /\ \A i \in 1..(n + 10) : s12[i] = s10[i]
  BY <1>21, <1>23 DEF Ends
<1>25. Behind(w, s12, data, Byte)
  BY <1>13, <1>19, <1>24, Concatenated, Zenon
<1>26. PICK m \in Nat : m = Len(data)
  BY <1>19
<1>27. w \in Seq(Byte) /\ Len(w) = n + 12 + m /\ \A i \in 1..(n + 12) : w[i] = s12[i]
  BY <1>24, <1>25, <1>26 DEF Behind, Opens
<1>28. Holds(w, n + 12, data)
  BY <1>24, <1>25 DEF Behind
<1>29. \A i \in 1..(n + 10) : w[i] = s10[i]
  <2>1. \A i \in 1..(n + 10) : i \in 1..(n + 12)
    OBVIOUS
  <2> QED  BY <1>24, <1>27, <2>1
<1>30. \A i \in 1..(n + 4) : w[i] = s4[i]
  <2>1. \A i \in 1..(n + 4) : i \in 1..(n + 10) /\ i \in 1..(n + 6)
    OBVIOUS
  <2> QED  BY <1>18, <1>21, <1>29, <2>1
<1>31. w[n + 3] = c /\ w[n + 4] = d /\ w[n + 11] = c2 /\ w[n + 12] = d2
  <2>1. n + 3 \in 1..(n + 4) /\ n + 4 \in 1..(n + 4) /\ n + 11 \in 1..(n + 12) /\ n + 12 \in 1..(n + 12)
    OBVIOUS
  <2> QED  BY <1>16, <1>24, <1>27, <1>30, <2>1
<1>32. Opens(nm, w)
  <2>1. \A i \in 1..(n + 2) : i \in 1..(n + 4)
    OBVIOUS
  <2>2. \A i \in 1..(n + 2) : w[i] = nm[i]
    BY <1>16, <1>30, <2>1
  <2> QED  BY <1>3, <1>26, <1>27, <2>2 DEF Opens
<1>33. Holds(w, n + 6, ttl)
  <2>1. \A i \in 1..4 : n + 6 + i \in 1..(n + 10)
    OBVIOUS
  <2>2. \A i \in 1..4 : w[n + 6 + i] = ttl[i]
    BY <1>22, <1>29, <2>1
  <2> QED  BY <1>19, <1>26, <1>27, <2>2 DEF Holds
<1> QED  BY <1>1, <1>3, <1>5, <1>7, <1>10, <1>14, <1>26, <1>27, <1>28, <1>31, <1>32, <1>33, Zenon DEF IsRecord

\* A piece of a piece.
LEMMA Deeper ==
    ASSUME NEW w, NEW v, NEW t, Len(w) \in Nat, Len(v) \in Nat, Len(t) \in Nat, NEW x \in Nat, NEW y \in Nat,
           Holds(w, x, v), Holds(v, y, t)
    PROVE  Holds(w, x + y, t)
<1>1. PICK a \in Nat, b \in Nat, c \in Nat : a = Len(w) /\ b = Len(v) /\ c = Len(t)
  OBVIOUS
<1>2. x + b <= a /\ y + c <= b
  BY <1>1 DEF Holds
<1>3. ASSUME NEW p \in 1..c PROVE w[x + y + p] = t[p]
  <2>1. y + p \in 1..b /\ x + (y + p) = x + y + p
    BY <1>1, <1>2
  <2>2. v[y + p] = t[p]
    BY <1>1 DEF Holds
  <2>3. w[x + (y + p)] = v[y + p]
    BY <1>1, <2>1 DEF Holds
  <2> QED  BY <2>1, <2>2, <2>3
<1> QED  BY <1>1, <1>2, <1>3 DEF Holds

\* Pieces that follow each other from place x on.
InRow(w, x, seqs, at) ==
    /\ at[1] = x
    /\ \A i \in 1..Len(seqs) : Holds(w, at[i], seqs[i]) /\ at[i + 1] = at[i] + Len(seqs[i])
    /\ \A i \in 1..(Len(seqs) + 1) : at[i] \in x..Len(w)

LEMMA Row ==
    ASSUME NEW seqs, seqs \in Seq(Bytes), NEW w, Len(w) \in Nat, NEW x \in Nat,
           Holds(w, x, FlattenSeq(seqs))
    PROVE  \E at : /\ DOMAIN at = 1..(Len(seqs) + 1)
                   /\ InRow(w, x, seqs, at) /\ at[Len(seqs) + 1] = x + Len(FlattenSeq(seqs))
<1>0. seqs \in Seq(Seq(Byte))
  BY DEF Bytes
<1>1. PICK f : Flattens(seqs, f, Byte) /\ FlattenSeq(seqs) = f[Len(seqs)]
  BY <1>0, Flattened
<1>2. PICK n \in Nat : n = Len(seqs)
  BY <1>0
<1>3. PICK v : v = f[n]
  OBVIOUS
<1>4. \A k \in 0..n : f[k] \in Seq(Byte) /\ Len(f[k]) \in Nat
  <2>1. \A k \in 0..n : f[k] \in Seq(Byte)
    BY <1>1, <1>2 DEF Flattens
  <2> QED  BY <2>1
<1>5. v \in Seq(Byte) /\ Len(v) \in Nat /\ Holds(w, x, v)
  BY <1>1, <1>2, <1>3, <1>4
<1>6. PICK at : at = [k \in 1..(n + 1) |-> x + Len(f[k - 1])]
  OBVIOUS
<1>7. at[1] = x
  <2>1. f[0] = << >>
    BY <1>1 DEF Flattens
  <2>2. Len(f[0]) = 0
    BY <2>1
  <2>3. at[1] = x + Len(f[1 - 1]) /\ 1 - 1 = 0
    BY <1>2, <1>6
  <2> QED  BY <2>2, <2>3
<1>8. ASSUME NEW i \in 1..n PROVE Holds(w, at[i], seqs[i]) /\ at[i + 1] = at[i] + Len(seqs[i])
  <2>1. PieceHeld(seqs, f, Byte, i)
    BY <1>0, <1>1, <1>2, PieceInPlace
  <2>2. PICK y \in Nat : y = Len(f[i - 1])
    BY <1>4
  <2>3. seqs[i] \in Seq(Byte) /\ Len(seqs[i]) \in Nat
    BY <2>1 DEF PieceHeld
  <2>4. Len(f[i]) = y + Len(seqs[i]) /\ Holds(v, y, seqs[i])
    BY <1>2, <1>3, <2>1, <2>2 DEF PieceHeld
  <2>5. Holds(w, x + y, seqs[i])
    BY <1>5, <2>3, <2>4, Deeper
  <2>6. at[i] = x + y /\ at[i + 1] = x + Len(f[i])
    <3>1. i \in 1..(n + 1) /\ i + 1 \in 1..(n + 1) /\ (i + 1) - 1 = i
      OBVIOUS
    <3> QED  BY <1>6, <2>2, <3>1
  <2>7. x + Len(f[i]) = (x + y) + Len(seqs[i])
    <3>1. PICK c \in Nat : c = Len(seqs[i])
      BY <2>3
    <3>2. x + (y + c) = (x + y) + c
      OBVIOUS
    <3> QED  BY <2>4, <3>1, <3>2
  <2> QED  BY <2>5, <2>6, <2>7
<1>9. ASSUME NEW i \in 1..(n + 1) PROVE at[i] \in x..Len(w)
  <2>1. i - 1 \in 0..n /\ n \in (i - 1)..n
    BY <1>2
  <2>2. Opens(f[i - 1], f[n])
    BY <1>0, <1>1, <1>2, <2>1, FirstPieces
  <2>3. PICK y \in Nat, z \in Nat : y = Len(f[i - 1]) /\ z = Len(v)
    BY <1>4, <1>5, <2>1
  <2>4. y <= z /\ x + z <= Len(w)
    BY <1>3, <1>5, <2>2, <2>3 DEF Opens, Holds
  <2>5. at[i] = x + y
    BY <1>6, <2>3
  <2> QED  BY <2>3, <2>4, <2>5
<1>10. at[n + 1] = x + Len(v)
  <2>1. n + 1 \in 1..(n + 1) /\ (n + 1) - 1 = n
    BY <1>2
  <2> QED  BY <1>3, <1>6, <2>1
<1> QED  BY <1>1, <1>2, <1>3, <1>6, <1>7, <1>8, <1>9, <1>10, ZenonT(40) DEF InRow

LEMMA AtFront ==
    ASSUME NEW w, NEW s, Len(s) \in Nat, Len(w) \in Nat
    PROVE  Opens(s, w) <=> Holds(w, 0, s)
<1>1. PICK m \in Nat, n \in Nat : m = Len(s) /\ n = Len(w)
  OBVIOUS
<1>2. 0 + m = m /\ \A p \in 1..m : 0 + p = p
  OBVIOUS
<1>3. (\A p \in 1..m : w[p] = s[p]) <=> (\A p \in 1..m : w[0 + p] = s[p])
  BY <1>2
<1> QED  BY <1>1, <1>2, <1>3 DEF Opens, Holds

-----------------------------------------------------------------------------
(* The bytes of an answer.                                                 *)

Texts == {text \in Bytes : Clean(text)}
CleanQuestion == [name : Texts, qtype : Word]

\* What a query is, once read, as far as its answer depends on it.
Read(p) ==
    /\ p = [header |-> p.header, questions |-> p.questions, answers |-> p.answers,
            authorities |-> p.authorities, resources |-> p.resources]
    /\ p.header \in Header /\ p.header.b % 16 <= 5
    /\ p.questions \in Seq(CleanQuestion) /\ Len(p.questions) \in Word

\* The bytes are header h, and questions qs and records rs in a row.
Pieced(bytes, h, qs, rs, at, to) ==
    /\ bytes \in Bytes /\ Len(bytes) \in Nat
    /\ \E w : IsHeader(w, h) /\ Opens(w, bytes)
    /\ DOMAIN at = 1..(Len(qs) + 1) /\ DOMAIN to = 1..(Len(rs) + 1)
    /\ at[1] = 12 /\ to[1] = at[Len(qs) + 1] /\ to[Len(rs) + 1] = Len(bytes)
    /\ \A i \in 1..(Len(qs) + 1) : at[i] \in 12..Len(bytes)
    /\ \A i \in 1..(Len(rs) + 1) : to[i] \in 12..Len(bytes)
    /\ \A i \in 1..Len(qs) : \E w : /\ IsQuestion(w, qs[i]) /\ Holds(bytes, at[i], w)
                                    /\ at[i + 1] = at[i] + Len(w)
    /\ \A i \in 1..Len(rs) : \E w : /\ IsRecord(w, rs[i]) /\ Holds(bytes, to[i], w)
                                    /\ to[i + 1] = to[i] + Len(w)

LEMMA PiecedTogether ==
    ASSUME NEW h \in Header,
           NEW qs, qs \in Seq(CleanQuestion), \A i \in 1..Len(qs) : NameFits(qs[i].name),
           NEW rs, NEW R, rs \in Seq(R), \A i \in 1..Len(rs) : Address(rs[i]) /\ NameFits(rs[i].domain),
           NEW bytes, bytes = WriteHeader(h)
                                \o FlattenSeq([i \in DOMAIN qs |-> WriteQuestion(qs[i])])
                                \o FlattenSeq([i \in DOMAIN rs |-> WriteRecord(rs[i])])
    PROVE  \E at, to : Pieced(bytes, h, qs, rs, at, to)
<1>1. PICK n \in Nat, m \in Nat : n = Len(qs) /\ m = Len(rs) /\ DOMAIN qs = 1..n /\ DOMAIN rs = 1..m
  OBVIOUS
<1>2. PICK ws : ws = [i \in 1..n |-> WriteQuestion(qs[i])]
  OBVIOUS
<1>3. PICK vs : vs = [i \in 1..m |-> WriteRecord(rs[i])]
  OBVIOUS
<1>4. ASSUME NEW i \in 1..n PROVE IsQuestion(ws[i], qs[i]) /\ ws[i] \in Bytes
  <2>1. qs[i] \in CleanQuestion
    BY <1>1, ElementOfSeq
  <2>2. qs[i].name \in Bytes /\ qs[i].qtype \in Word
    BY <2>1 DEF CleanQuestion, Texts
  <2>3. IsQuestion(WriteQuestion(qs[i]), qs[i])
    BY <1>1, <2>2, QuestionBytes, Zenon
  <2> QED  BY <1>2, <2>3 DEF IsQuestion, Bytes
<1>5. ASSUME NEW i \in 1..m PROVE IsRecord(vs[i], rs[i]) /\ vs[i] \in Bytes
  <2>1. IsRecord(WriteRecord(rs[i]), rs[i])
    BY <1>1, RecordBytes, Zenon
  <2> QED  BY <1>3, <2>1 DEF IsRecord, Bytes
<1>6. ws \in Seq(Bytes) /\ Len(ws) = n
  BY <1>2, <1>4
<1>7. vs \in Seq(Bytes) /\ Len(vs) = m
  BY <1>3, <1>5
<1>8. PICK w, x, y : w = WriteHeader(h) /\ x = FlattenSeq(ws) /\ y = FlattenSeq(vs)
  OBVIOUS
<1>9. IsHeader(w, h) /\ w \in Seq(Byte) /\ Len(w) = 12
  BY <1>8, HeaderBytes DEF IsHeader
<1>10. x \in Seq(Byte) /\ y \in Seq(Byte)
  BY <1>6, <1>7, <1>8, FlattenSeqType DEF Bytes
<1>11. PICK k \in Nat, l \in Nat : k = Len(x) /\ l = Len(y)
  BY <1>10
<1>12. PICK s : s = w \o x
  OBVIOUS
<1>13. bytes = s \o y
  BY <1>1, <1>2, <1>3, <1>8, <1>12, Zenon
<1>14. Behind(s, w, x, Byte)
  BY <1>9, <1>10, <1>12, Concatenated, Zenon
<1>15. s \in Seq(Byte) /\ Len(s) = 12 + k /\ Opens(w, s) /\ Holds(s, 12, x)
  BY <1>9, <1>11, <1>14 DEF Behind
<1>16. Behind(bytes, s, y, Byte)
  BY <1>10, <1>13, <1>15, Concatenated, Zenon
<1>17. bytes \in Bytes /\ Len(bytes) = 12 + k + l /\ Opens(s, bytes) /\ Holds(bytes, 12 + k, y)
  BY <1>11, <1>15, <1>16 DEF Behind, Bytes
<1>17a. Len(bytes) \in Nat /\ Len(s) \in Nat /\ Len(w) \in Nat /\ Len(x) \in Nat /\ 12 <= Len(bytes)
  BY <1>9, <1>11, <1>15, <1>17
<1>18. Holds(bytes, 0, s)
  BY <1>15, <1>17, <1>17a, AtFront
<1>19. Opens(w, bytes)
  <2>1. \A p \in 1..12 : p \in 1..(12 + k)
    OBVIOUS
  <2>2. \A p \in 1..12 : bytes[p] = w[p]
    BY <1>9, <1>15, <1>17, <2>1 DEF Opens
  <2> QED  BY <1>9, <1>17a, <2>2 DEF Opens
<1>20. Holds(bytes, 12, x)
  <2>1. Holds(bytes, 0 + 12, x)
    <3>1. 0 \in Nat /\ 12 \in Nat
      OBVIOUS
    <3> QED  BY <1>15, <1>17a, <1>18, <3>1, Deeper
  <2> QED  BY <2>1
<1>21. PICK at : /\ DOMAIN at = 1..(n + 1)
                 /\ InRow(bytes, 12, ws, at) /\ at[n + 1] = 12 + k
  <2>1. Len(bytes) \in Nat
    BY <1>17
  <2> QED  BY <1>6, <1>8, <1>11, <1>20, <2>1, Row, ZenonT(40)
<1>22. PICK to : /\ DOMAIN to = 1..(m + 1)
                 /\ InRow(bytes, 12 + k, vs, to) /\ to[m + 1] = 12 + k + l
  <2>1. Len(bytes) \in Nat /\ 12 + k \in Nat
    BY <1>17
  <2> QED  BY <1>7, <1>8, <1>11, <1>17, <2>1, Row, ZenonT(40)
<1>23. /\ at[1] = 12 /\ \A i \in 1..(n + 1) : at[i] \in 12..Len(bytes)
       /\ \A i \in 1..n : Holds(bytes, at[i], ws[i]) /\ at[i + 1] = at[i] + Len(ws[i])
  BY <1>6, <1>21 DEF InRow
<1>24. /\ to[1] = 12 + k /\ \A i \in 1..(m + 1) : to[i] \in 12..Len(bytes)
       /\ \A i \in 1..m : Holds(bytes, to[i], vs[i]) /\ to[i + 1] = to[i] + Len(vs[i])
  <2>1. /\ to[1] = 12 + k /\ \A i \in 1..(m + 1) : to[i] \in (12 + k)..Len(bytes)
        /\ \A i \in 1..m : Holds(bytes, to[i], vs[i]) /\ to[i + 1] = to[i] + Len(vs[i])
    BY <1>7, <1>22 DEF InRow
  <2>2. (12 + k)..Len(bytes) \subseteq 12..Len(bytes)
    BY <1>17a
  <2>3. \A i \in 1..(m + 1) : to[i] \in 12..Len(bytes)
    BY <2>1, <2>2
  <2> QED  BY <2>1, <2>3
<1>25. to[1] = at[n + 1] /\ to[m + 1] = Len(bytes) /\ Len(bytes) \in Nat
  BY <1>17, <1>21, <1>22, <1>24
<1>26. Pieced(bytes, h, qs, rs, at, to)
  BY <1>1, <1>4, <1>5, <1>9, <1>17, <1>19, <1>21, <1>22, <1>23, <1>24, <1>25, Zenon DEF Pieced
<1> QED  BY <1>26

LEMMA Tuple ==
    ASSUME NEW n \in Nat, NEW S, NEW f \in [1..n -> S]
    PROVE  f \in Seq(S) /\ Len(f) = n
OBVIOUS

\* An answer has at most one record, an address of its type's length.
LEMMA Blocked ==
    ASSUME NEW qs, qs \in Seq(CleanQuestion), NEW p \in Policy
    PROVE  \/ BlockRecords(qs, p) = << >>
           \/ \E r \in Record : /\ BlockRecords(qs, p) = <<r>> /\ Address(r)
                                /\ qs # << >> /\ r.domain = qs[1].name
<1>1. CASE p.response \notin {"null", "custom"} \/ qs = << >>
  BY <1>1 DEF BlockRecords
<1>2. CASE ~(p.response \notin {"null", "custom"} \/ qs = << >>) /\ qs[1].qtype \notin {A, AAAA}
  BY <1>2 DEF BlockRecords
<1>3. CASE ~(p.response \notin {"null", "custom"} \/ qs = << >>) /\ qs[1].qtype \in {A, AAAA}
  <2>1. PICK q : q = qs[1]
    OBVIOUS
  <2>2. q \in CleanQuestion
    <3>1. 1 \in 1..Len(qs)
      BY <1>3, EmptySeq
    <3> QED  BY <2>1, <3>1, ElementOfSeq
  <2>3. q.name \in Bytes /\ q.qtype \in Word
    BY <2>2 DEF CleanQuestion, Texts
  <2>4. PICK addr : addr = IF q.qtype = A THEN p.ipv4 ELSE p.ipv6
    OBVIOUS
  <2>5. PICK n \in Nat : n = IF q.qtype = A THEN 4 ELSE 16
    OBVIOUS
  <2>6. addr \in [1..n -> Byte]
    BY <2>4, <2>5 DEF Policy
  <2>7. PICK data : data = IF p.response = "custom" THEN addr ELSE [i \in DOMAIN addr |-> 0]
    OBVIOUS
  <2>8. data \in [1..n -> Byte]
    <3>1. 0 \in Byte
      BY DEF Byte
    <3> QED  BY <2>6, <2>7, <3>1
  <2>9. data \in Seq(Byte) /\ Len(data) = n
    BY <2>8, Tuple
  <2>10. PICK ttl : ttl = <<0, 0, 0, 60>>
    OBVIOUS
  <2>11. ttl \in Seq(Byte) /\ Len(ttl) = 4
    BY <2>10 DEF Byte
  <2>12. PICK r : r = [type |-> q.qtype, domain |-> q.name, ttl |-> ttl, data |-> data]
    OBVIOUS
  <2>13. BlockRecords(qs, p) = <<r>>
    BY <1>3, <2>1, <2>4, <2>7, <2>10, <2>12, Zenon DEF BlockRecords
  <2>14. r.type = q.qtype /\ r.domain = q.name /\ r.ttl = ttl /\ r.data = data
    BY <2>12
  <2>15. Address(r)
    BY <1>3, <2>1, <2>3, <2>5, <2>9, <2>11, <2>14 DEF Address
  <2>16. r \in Record
    BY <2>3, <2>9, <2>11, <2>12 DEF Record, Bytes
  <2> QED  BY <1>3, <2>1, <2>13, <2>14, <2>15, <2>16
<1> QED  BY <1>1, <1>2, <1>3

\* The two bytes of flags of an answer.
LEMMA Flags ==
    ASSUME NEW a \in Byte, NEW b \in Byte, b % 16 <= 5, NEW code \in 0..5
    PROVE  /\ 128 + (a % 128) \in Byte
           /\ SetCode(b, code) \in Byte /\ SetCode(b, code) % 16 = code
<1>1. PICK q \in Int, r \in Int : q = b \div 16 /\ r = b % 16
  BY DEF Byte
<1>2. b = q * 16 + r /\ r \in 0..15
  BY <1>1 DEF Byte
<1>3. 0 <= b /\ b <= 255
  BY DEF Byte
<1>4. 0 <= q /\ q <= 15
  BY <1>2, <1>3
<1>5. SetCode(b, code) = q * 16 + code
  BY <1>1, <1>2 DEF SetCode
<1>6. q * 16 + code \in Byte
  BY <1>4 DEF Byte
<1>7. (q * 16 + code) % 16 = code
  BY <1>4
<1>8. a % 128 \in 0..127
  BY DEF Byte
<1>9. 128 + (a % 128) \in Byte
  <2>1. PICK s \in 0..127 : s = a % 128
    BY <1>8
  <2> QED  BY <2>1 DEF Byte
<1> QED  BY <1>5, <1>6, <1>7, <1>9

LEMMA Count ==
    ASSUME NEW n \in Word
    PROVE  n \in Nat /\ n <= 65535 /\ as_u16(n) = n
<1>1. n \in Nat /\ n <= 65535
  BY WordIsNat, SMT
<1>2. PICK k : k = 65536
  OBVIOUS
<1>3. k \in Nat /\ n < k
  BY <1>1, <1>2, SMT
<1>4. n % k = n
  BY <1>1, <1>3, SMT
<1>5. as_u16(n) = n % k
  BY <1>2, SMT DEF as_u16
<1> QED  BY <1>1, <1>4, <1>5, SMTT(30)

Counted(h, g, q, n, t, e) ==
    h = [g EXCEPT !.questions = q, !.answers = n,
                  !.authoritative_entries = t, !.resource_entries = e]

Counts(h, g, q, n, t, e) ==
    /\ h \in Header /\ h.id = g.id /\ h.a = g.a /\ h.b = g.b
    /\ h.questions = q /\ h.answers = n
    /\ h.authoritative_entries = t /\ h.resource_entries = e

LEMMA HeaderRecord ==
    ASSUME NEW g \in Header, NEW q \in Word, NEW n \in Word, NEW t \in Word, NEW e \in Word,
           NEW h, Counted(h, g, q, n, t, e)
    PROVE  Counts(h, g, q, n, t, e)
<1>1. g = [id |-> g.id, a |-> g.a, b |-> g.b, questions |-> g.questions, answers |-> g.answers,
           authoritative_entries |-> g.authoritative_entries, resource_entries |-> g.resource_entries]
  BY DEF Header
<1>2. g.id \in Byte \X Byte /\ g.a \in Byte /\ g.b \in Byte
  BY DEF Header
<1>3. h = [id |-> g.id, a |-> g.a, b |-> g.b, questions |-> q, answers |-> n,
           authoritative_entries |-> t, resource_entries |-> e]
  BY <1>1 DEF Counted
<1>4. h \in Header
  BY <1>2, <1>3 DEF Header
<1> QED  BY <1>3, <1>4 DEF Counts

\* An answer, with the counts it is written with.
Answered(q, p) == WithCounts(synthesize(q, p))

LEMMA AnswerFields ==
    ASSUME NEW q, Read(q), NEW p \in Policy
    PROVE  LET h  == Answered(q, p).header
               rs == BlockRecords(q.questions, p)
           IN  /\ h \in Header /\ h.id = q.header.id /\ h.a = 128 + (q.header.a % 128)
               /\ h.b % 16 = Codes[p.response] /\ h.b % 16 <= 5
               /\ h.questions = Len(q.questions) /\ h.answers = Len(rs)
               /\ h.authoritative_entries = 0 /\ h.resource_entries = 0
               /\ Answered(q, p) = [header |-> h, questions |-> q.questions, answers |-> rs,
                                    authorities |-> << >>, resources |-> << >>]
               /\ Records(synthesize(q, p)) = rs
<1> DEFINE a == synthesize(q, p)
           rs == BlockRecords(q.questions, p)
<1>1. PICK g : g = q.header
  OBVIOUS
<1>2. g \in Header /\ g.b % 16 <= 5
  BY <1>1 DEF Read
<1>3. PICK code \in 0..5 : code = Codes[p.response]
  <2>1. p.response \in {"nxdomain", "refused", "null", "custom"}
    BY DEF Policy
  <2> QED  BY <2>1 DEF Codes
<1>4. PICK x, y : x = 128 + (g.a % 128) /\ y = SetCode(g.b, code)
  OBVIOUS
<1>5. g.a \in Byte /\ g.b \in Byte
  BY <1>2 DEF Header
<1>6. x \in Byte /\ y \in Byte /\ y % 16 = code
  BY <1>2, <1>4, <1>5, Flags
<1>7. PICK g1 : g1 = [q.header EXCEPT !.a = 128 + (@ % 128), !.b = SetCode(@, Codes[p.response])]
  OBVIOUS
<1>7a. g1 = [g EXCEPT !.a = x, !.b = y]
  BY <1>1, <1>3, <1>4, <1>7
<1>8. g1 \in Header /\ g1.id = g.id /\ g1.a = x /\ g1.b = y
  BY <1>2, <1>6, <1>7a DEF Header
<1>9. a = [header |-> g1, questions |-> q.questions, answers |-> rs,
           authorities |-> << >>, resources |-> << >>]
  <2>1. a = [q EXCEPT !.header = g1, !.answers = rs, !.authorities = << >>, !.resources = << >>]
    BY <1>7, Zenon DEF synthesize
  <2> QED  BY <2>1 DEF Read
<1>10. PICK n \in Word : n = Len(q.questions)
  BY DEF Read
<1>11. PICK m \in 0..1 : m = Len(rs)
  <2>1. rs = << >> \/ \E r : rs = <<r>>
    BY Blocked DEF Read
  <2> QED  BY <2>1
<1>12. as_u16(n) = n /\ as_u16(m) = m /\ as_u16(0) = 0 /\ m \in Word /\ 0 \in Word
  <2>1. m \in Word /\ 0 \in Word
    BY SmallWord, SMT
  <2>2. as_u16(n) = n
    BY Count, SMT
  <2>3. as_u16(m) = m
    BY <2>1, Count, SMT
  <2>4. as_u16(0) = 0
    BY <2>1, Count, SMT
  <2> QED  BY <2>1, <2>2, <2>3, <2>4, Zenon
<1>13. PICK h : h = [g1 EXCEPT !.questions = n, !.answers = m,
                               !.authoritative_entries = 0, !.resource_entries = 0]
  OBVIOUS
<1>14. /\ h \in Header /\ h.id = g.id /\ h.a = x /\ h.b = y
       /\ h.questions = n /\ h.answers = m
       /\ h.authoritative_entries = 0 /\ h.resource_entries = 0
  <2>1. m \in Word /\ 0 \in Word
    BY <1>12, SMT
  <2>2. /\ h \in Header /\ h.id = g1.id /\ h.a = g1.a /\ h.b = g1.b
        /\ h.questions = n /\ h.answers = m
        /\ h.authoritative_entries = 0 /\ h.resource_entries = 0
    <3>1. Counted(h, g1, n, m, 0, 0)
      BY <1>13, Zenon DEF Counted
    <3>2. Counts(h, g1, n, m, 0, 0)
      BY <1>8, <1>10, <2>1, <3>1, HeaderRecord, Zenon
    <3> QED  BY <3>2 DEF Counts
  <2> QED  BY <1>8, <2>2
<1>15. a.header = g1 /\ a.questions = q.questions /\ a.answers = rs
       /\ a.authorities = << >> /\ a.resources = << >>
  BY <1>9
<1>17. Answered(q, p) = [header |-> h, questions |-> q.questions, answers |-> rs,
                         authorities |-> << >>, resources |-> << >>]
  <2>1. Answered(q, p) = [a EXCEPT !.header = h]
    <3>1. PICK z : z = a
      OBVIOUS
    <3> HIDE DEF a, rs
    <3>2. z.header = g1 /\ Len(z.questions) = n /\ Len(z.answers) = m
          /\ Len(z.authorities) = 0 /\ Len(z.resources) = 0
      <4>1. Len(<< >>) = 0
        OBVIOUS
      <4> QED  BY <1>10, <1>11, <1>15, <3>1, <4>1
    <3>3. WithCounts(z) = [z EXCEPT !.header = [@ EXCEPT !.questions = n, !.answers = m,
                                    !.authoritative_entries = 0, !.resource_entries = 0]]
      BY <1>12, <3>2, Zenon DEF WithCounts
    <3>6. WithCounts(z) = [z EXCEPT !.header = h]
      BY <1>13, <3>2, <3>3, Zenon
    <3>7. Answered(q, p) = WithCounts(z)
      BY <3>1 DEF Answered, a
    <3> QED  BY <3>1, <3>6, <3>7, Zenon
  <2>2. PICK z : z = a
    OBVIOUS
  <2>3. z = [header |-> g1, questions |-> q.questions, answers |-> rs,
             authorities |-> << >>, resources |-> << >>]
    BY <1>9, <2>2, Zenon
  <2>4. [z EXCEPT !.header = h] = [header |-> h, questions |-> q.questions, answers |-> rs,
                                   authorities |-> << >>, resources |-> << >>]
    BY <2>3
  <2> QED  BY <2>1, <2>2, <2>4, Zenon
<1>18. Answered(q, p).header = h
  BY <1>17
<1>19. Records(a) = rs
  <2>1. PICK r : r = rs
    OBVIOUS
  <2>2. \E S : r \in Seq(S)
    <3>1. r = << >> \/ \E e : r = <<e>>
      BY <2>1, Blocked DEF Read
    <3>2. ASSUME NEW e, r = <<e>> PROVE r \in Seq({e})
      BY <3>2
    <3>3. << >> \in Seq({})
      OBVIOUS
    <3> QED  BY <3>1, <3>2, <3>3
  <2>3. r \o << >> = r
    BY <2>2
  <2>4. Records(a) = (r \o << >>) \o << >>
    BY <1>15, <2>1, Zenon DEF Records
  <2> QED  BY <2>1, <2>3, <2>4, Zenon
<1>20. y % 16 = Codes[p.response] /\ y % 16 <= 5
  BY <1>3, <1>6
<1> HIDE DEF a, rs
<1>21. /\ h.b % 16 = Codes[p.response] /\ h.b % 16 <= 5
       /\ h.id = q.header.id /\ h.a = 128 + (q.header.a % 128)
  BY <1>1, <1>4, <1>14, <1>20
<1> QED  BY <1>10, <1>11, <1>14, <1>17, <1>18, <1>19, <1>21, Zenon DEF a, rs

LEMMA AnswerWritten ==
    ASSUME NEW q, Read(q), NEW p \in Policy, Writable(synthesize(q, p))
    PROVE  \E at, to : Pieced(Write(synthesize(q, p)), Answered(q, p).header,
                              q.questions, BlockRecords(q.questions, p), at, to)
<1>1. PICK a, qs, rs, h : /\ a = synthesize(q, p) /\ qs = q.questions
                          /\ rs = BlockRecords(q.questions, p) /\ h = Answered(q, p).header
  OBVIOUS
<1>2. h \in Header /\ Records(a) = rs
      /\ Answered(q, p) = [header |-> h, questions |-> qs, answers |-> rs,
                           authorities |-> << >>, resources |-> << >>]
  BY <1>1, AnswerFields, Zenon
<1>3. a.questions = qs /\ WithCounts(a).header = h
  <2>1. WithCounts(a) = Answered(q, p)
    BY <1>1 DEF Answered
  <2>2. a.questions = q.questions
    BY <1>1 DEF synthesize, Read
  <2> QED  BY <1>1, <2>1, <2>2
<1>4. qs \in Seq(CleanQuestion)
  BY <1>1 DEF Read
<1>5. ASSUME NEW i \in 1..Len(qs) PROVE NameFits(qs[i].name)
  <2>1. qs[i] \in ToSet(a.questions)
    BY <1>3, <1>4 DEF ToSet
  <2> QED  BY <1>1, <2>1 DEF Writable
<1>6. \E R : rs \in Seq(R) /\ \A i \in 1..Len(rs) : Address(rs[i])
  <2>1. CASE rs = << >>
    <3>1. rs \in Seq({}) /\ 1..Len(rs) = {}
      BY <2>1
    <3> QED  BY <3>1
  <2>2. CASE rs # << >>
    <3>1. PICK r : rs = <<r>> /\ Address(r)
      BY <1>1, <1>4, <2>2, Blocked
    <3>2. rs \in Seq({r}) /\ \A i \in 1..Len(rs) : rs[i] = r
      BY <3>1
    <3> QED  BY <3>1, <3>2
  <2> QED  BY <2>1, <2>2
<1>7. PICK R : rs \in Seq(R) /\ \A i \in 1..Len(rs) : Address(rs[i])
  BY <1>6
<1>8. ASSUME NEW i \in 1..Len(rs) PROVE NameFits(rs[i].domain)
  <2>1. rs[i] \in ToSet(Records(a))
    BY <1>2, <1>7 DEF ToSet
  <2>2. rs[i].type \in {A, AAAA, CNAME}
    BY <1>7 DEF Address
  <2> QED  BY <1>1, <2>1, <2>2 DEF Writable
<1>9. PICK bytes : bytes = Write(a)
  OBVIOUS
<1>10. bytes = WriteHeader(h)
                 \o FlattenSeq([i \in DOMAIN qs |-> WriteQuestion(qs[i])])
                 \o FlattenSeq([i \in DOMAIN rs |-> WriteRecord(rs[i])])
  BY <1>2, <1>3, <1>9, Zenon DEF Write
<1>11. \E at, to : Pieced(bytes, h, qs, rs, at, to)
  BY <1>2, <1>4, <1>5, <1>7, <1>8, <1>10, PiecedTogether
<1> QED  BY <1>1, <1>9, <1>11, Zenon

-----------------------------------------------------------------------------
(* What has been read.                                                     *)

\* What the reading of numbers and lengths rests on.
Numbers ==
    /\ buf \in Bytes /\ pos \in Nat
    /\ record \in [domain : {record.domain}, type : Nat, ttl : {record.ttl},
                   data_len : Nat, end : Nat, data : {record.data}]
    /\ walk \in [from : Nat, at : Nat, jumped : BOOLEAN, jumps : 0..(max_jumps + 1),
                 text : {walk.text}, turns : Nat]

\* Every leg between two jumps begins with its own share of the turns, and
\* pays for each turn with a byte that it leaves behind.
TurnsAreShared ==
    \/ walk.at <= Len(buf) /\ walk.turns <= walk.jumps * (Len(buf) + 1) + walk.at
    \/ walk.turns <= walk.jumps * (Len(buf) + 1)
    \/ ~Walking /\ walk.turns <= walk.jumps * (Len(buf) + 1) + Len(buf) + 1

LEMMA GetIsByte ==
    ASSUME Numbers, NEW p \in Nat, Has(p, 1)
    PROVE  get(p) \in 0..255
<1>1. Len(buf) \in Nat /\ p + 1 \in 1..Len(buf)
  BY DEF Numbers, Bytes, Has
<1>2. get(p) \in Byte
  BY <1>1 DEF Numbers, Bytes, get
<1> QED  BY <1>2 DEF Byte

LEMMA U16IsNat ==
    ASSUME Numbers, NEW p \in Nat, Has(p, 2)
    PROVE  u16_at(p) \in Nat /\ (get(p) >= 192 => u16_at(p) - 192 * 256 \in Nat)
<1>1. Has(p, 1) /\ Has(p + 1, 1) /\ p + 1 \in Nat
  BY SMTT(30) DEF Numbers, Bytes, Has
<1> DEFINE hi == get(p)
           lo == get(p + 1)
<1>2. hi \in 0..255 /\ lo \in 0..255
  BY <1>1, GetIsByte
<1>3. u16_at(p) = hi * 256 + lo
  BY DEF u16_at, u16
<1> HIDE DEF hi, lo
<1>4. u16_at(p) \in Nat /\ (hi >= 192 => u16_at(p) - 192 * 256 \in Nat)
  BY <1>2, <1>3
<1> QED  BY <1>4 DEF hi

LEMMA Shares ==
    ASSUME NEW jumps \in 0..(max_jumps + 1), NEW len \in Nat
    PROVE  /\ jumps * (len + 1) \in Nat /\ jumps + 1 \in Nat
           /\ (jumps + 1) * (len + 1) = jumps * (len + 1) + len + 1
<1>1. jumps \in Nat
  BY DEF max_jumps
<1> QED  BY <1>1

LEMMA LabelTurn ==
    ASSUME NEW turns \in Nat, NEW share \in Nat, NEW at \in Nat, NEW len \in 1..255
    PROVE  /\ at + 1 + len \in Nat
           /\ turns <= share + at \/ turns <= share => turns + 1 <= share + (at + 1 + len)
OBVIOUS

\* A new walk has taken no turn.
LEMMA FreshWalk ==
    ASSUME NEW p \in Nat, walk' = WalkFrom(p), buf' \in Bytes
    PROVE  /\ walk' \in [from : Nat, at : Nat, jumped : BOOLEAN, jumps : 0..(max_jumps + 1),
                         text : {walk'.text}, turns : Nat]
           /\ TurnsAreShared'
<1>1. walk'.turns = 0 /\ walk'.jumps = 0 /\ walk'.text = << >>
  BY DEF WalkFrom
<1>2. Len(buf') \in Nat
  BY DEF Bytes
<1> QED  BY <1>1, <1>2 DEF WalkFrom, TurnsAreShared, max_jumps

\* The steps that leave the walk alone and stay outside of one.
LEMMA OutsideWalk ==
    ASSUME Numbers, TurnsAreShared, buf' = buf, walk' = walk, ~Walking'
    PROVE  TurnsAreShared'
<1>1. Len(buf) \in Nat /\ walk.jumps \in Nat /\ walk.at \in Nat /\ walk.turns \in Nat
  BY DEF Numbers, Bytes, max_jumps
<1>2. walk.jumps * (Len(buf) + 1) \in Nat
  BY <1>1
<1> DEFINE share == walk.jumps * (Len(buf) + 1)
<1> HIDE DEF share
<1>3. share \in Nat
  BY <1>2 DEF share
<1>4. walk.turns <= share + Len(buf) + 1
  BY <1>1, <1>3 DEF TurnsAreShared, share
<1> QED  BY <1>4 DEF TurnsAreShared, share

LEMMA PointerStep ==
    ASSUME Numbers, TurnsAreShared, FollowPointer
    PROVE  Numbers' /\ TurnsAreShared'
<1>1. /\ Walking /\ walk.jumps <= max_jumps /\ Has(walk.at, 1)
      /\ Has(walk.at, 2) /\ get(walk.at) >= 192
      /\ buf' = buf /\ record' = record
  BY DEF FollowPointer, AtByte, TooMany, IsPointer, message, Numbers, max_jumps
<1>2. walk.at \in Nat /\ walk.turns \in Nat /\ Len(buf) \in Nat
      /\ walk.jumps \in 0..(max_jumps + 1) /\ walk.jumps + 1 \in 0..(max_jumps + 1)
  BY <1>1 DEF Numbers, Bytes, max_jumps
<1>3. Offset \in Nat
  BY <1>1, <1>2, U16IsNat DEF Offset
<1>4. walk' = [walk EXCEPT !.at = Offset, !.jumped = TRUE, !.jumps = @ + 1, !.turns = @ + 1]
  BY DEF FollowPointer
<1>5. /\ walk'.jumps = walk.jumps + 1 /\ walk'.turns = walk.turns + 1
      /\ walk' \in [from : Nat, at : Nat, jumped : BOOLEAN, jumps : 0..(max_jumps + 1),
                    text : {walk'.text}, turns : Nat]
  <2>1. walk' = [from |-> walk.from, at |-> Offset, jumped |-> TRUE, jumps |-> walk.jumps + 1,
                 text |-> walk.text, turns |-> walk.turns + 1]
    BY <1>4 DEF Numbers
  <2>2. walk.from \in Nat /\ walk.turns + 1 \in Nat
    BY <1>2 DEF Numbers
  <2> QED  BY <2>1, <2>2, <1>2, <1>3
<1>6. pos' \in Nat
  BY <1>2 DEF FollowPointer, Seek, Numbers
<1>7. Numbers'
  BY <1>1, <1>5, <1>6 DEF Numbers
<1> DEFINE share == walk.jumps * (Len(buf) + 1)
<1>8. share \in Nat /\ (walk.jumps + 1) * (Len(buf) + 1) = share + Len(buf) + 1
  BY <1>2, Shares
<1>9. walk.turns + 1 <= (walk.jumps + 1) * (Len(buf) + 1)
  <2> HIDE DEF share
  <2>1. walk.turns <= share + Len(buf)
    BY <1>1, <1>2, <1>8, SMTT(30) DEF TurnsAreShared, share
  <2> QED  BY <2>1, <1>2, <1>8
<1> QED  BY <1>1, <1>5, <1>7, <1>9 DEF TurnsAreShared

LEMMA LabelStep ==
    ASSUME Numbers, TurnsAreShared, ReadLabel
    PROVE  Numbers' /\ TurnsAreShared'
<1> DEFINE len == get(walk.at)
           share == walk.jumps * (Len(buf) + 1)
<1>1. /\ Walking /\ Has(walk.at, 1) /\ len # 0 /\ Has(walk.at + 1, len)
      /\ buf' = buf /\ pos' = pos /\ record' = record
  BY DEF ReadLabel, AtByte, message
<1>2. walk.at \in Nat /\ walk.turns \in Nat /\ walk.jumps \in 0..(max_jumps + 1) /\ Len(buf) \in Nat
  BY DEF Numbers, Bytes
<1>3. len \in 1..255
  <2>1. len \in 0..255
    BY <1>1, <1>2, GetIsByte
  <2> HIDE DEF len
  <2> QED  BY <1>1, <2>1
<1>4. walk.at + 1 + len <= Len(buf)
  BY <1>1 DEF Has
<1> DEFINE text == walk'.text
<1>5. /\ walk'.at = walk.at + 1 + len /\ walk'.turns = walk.turns + 1 /\ walk'.jumps = walk.jumps
      /\ walk' \in [from : Nat, at : Nat, jumped : BOOLEAN, jumps : 0..(max_jumps + 1),
                    text : {walk'.text}, turns : Nat]
  <2> HIDE DEF len
  <2>1. PICK t : walk' = [walk EXCEPT !.text = t, !.at = @ + 1 + len, !.turns = @ + 1]
    BY Zenon DEF ReadLabel, len
  <2>2. walk.at + 1 + len \in Nat
    BY <1>2, <1>3, LabelTurn
  <2>3. walk' = [from |-> walk.from, at |-> walk.at + 1 + len, jumped |-> walk.jumped,
                 jumps |-> walk.jumps, text |-> t, turns |-> walk.turns + 1]
    BY <2>1 DEF Numbers
  <2>4. walk.from \in Nat /\ walk.jumped \in BOOLEAN /\ walk.turns + 1 \in Nat
    BY <1>2 DEF Numbers
  <2> QED  BY <2>2, <2>3, <2>4, <1>2
<1>6. Numbers'
  BY <1>1, <1>5 DEF Numbers
<1>7. share \in Nat
  BY <1>2, Shares
<1>8. walk.turns + 1 <= share + (walk.at + 1 + len)
  <2>1. walk.turns <= share + walk.at \/ walk.turns <= share
    BY <1>1 DEF TurnsAreShared
  <2> HIDE DEF share, len
  <2> QED  BY <2>1, <1>2, <1>3, <1>7, LabelTurn
<1> QED  BY <1>1, <1>4, <1>5, <1>6, <1>8 DEF TurnsAreShared

LEMMA EndStep ==
    ASSUME Numbers, TurnsAreShared, EndOfName
    PROVE  Numbers' /\ TurnsAreShared'
<1> DEFINE share == walk.jumps * (Len(buf) + 1)
<1>1. /\ Walking /\ Has(walk.at, 1) /\ ~Walking'
      /\ buf' = buf /\ record' = record
  BY DEF EndOfName, AtByte, Walking, message
<1>2. walk.at \in Nat /\ walk.turns \in Nat /\ walk.jumps \in 0..(max_jumps + 1) /\ Len(buf) \in Nat
  BY DEF Numbers, Bytes
<1>3. /\ walk'.turns = walk.turns + 1 /\ walk'.jumps = walk.jumps
      /\ walk' \in [from : Nat, at : Nat, jumped : BOOLEAN, jumps : 0..(max_jumps + 1),
                    text : {walk'.text}, turns : Nat]
  BY <1>2, SMTT(30) DEF EndOfName, Numbers
<1>4. pos' \in Nat
  BY <1>2 DEF EndOfName, Numbers
<1>5. Numbers'
  BY <1>1, <1>3, <1>4 DEF Numbers
<1>6. share \in Nat
  BY <1>2, Shares
<1>7. walk.turns + 1 <= share + Len(buf) + 1
  <2> HIDE DEF share
  <2> QED  BY <1>1, <1>2, <1>6, SMTT(30) DEF TurnsAreShared, Has, share
<1> QED  BY <1>1, <1>3, <1>5, <1>7 DEF TurnsAreShared

\* Before there is a record, there is a header; questions come first.
Reads ==
    /\ walk.text \in Texts
    /\ packet = [header |-> packet.header, questions |-> packet.questions, answers |-> packet.answers,
                 authorities |-> packet.authorities, resources |-> packet.resources]
    /\ packet.header \in Header /\ packet.header.b % 16 <= 5
    /\ packet.questions \in Seq(CleanQuestion)
    /\ Len(packet.questions) <= packet.header.questions
    /\ pc = "header" => packet.questions = << >>
    /\ pc \in {"data", "host", "hosted"} => Section # "questions"

\* Whom the client asked: what its buffer holds was written for a query.
Asked ==
    side # "server" =>
        /\ side = "client" /\ Read(asked) /\ policy \in Policies
        /\ Writable(synthesize(asked, policy)) /\ buf = Write(synthesize(asked, policy))

IInv == Numbers /\ TurnsAreShared /\ Reads /\ Asked

LEMMA PacketIsRead ==
    ASSUME Reads
    PROVE  Read(packet)
<1>1. packet.questions \in Seq(CleanQuestion) /\ packet.header \in Header /\ Len(packet.questions) \in Nat
  BY DEF Reads
<1>2. PICK n : n = Len(packet.questions)
  OBVIOUS
<1>3. PICK m : m = packet.header.questions
  OBVIOUS
<1>4. m \in Word
  BY <1>1, <1>3 DEF Header
<1>5. m \in Nat /\ m <= 65535
  BY <1>4, Count, SMT
<1>6. n \in Nat /\ n <= m
  BY <1>1, <1>2, <1>3 DEF Reads
<1>7. n \in Int /\ 0 <= n /\ n <= 65535
  BY <1>5, <1>6, SMT
<1>8. n \in Word
  BY <1>7, InWord, SMT
<1> QED  BY <1>1, <1>2, <1>8 DEF Read, Reads

LEMMA EmptyIsClean == << >> \in Texts
<1>1. << >> \in Bytes /\ 1..Len(<< >>) = {}
  BY DEF Bytes
<1> QED  BY <1>1 DEF Texts, Clean

LEMMA InitialInv ==
    ASSUME Init
    PROVE  IInv
<1>1. buf \in Bytes
  BY ReaderAssumption DEF Init
<1>2. Len(buf) \in Nat
  BY <1>1 DEF Bytes
<1>3. Numbers /\ TurnsAreShared
  BY <1>1, <1>2 DEF Init, Numbers, TurnsAreShared, WalkFrom, NoRecord, max_jumps
<1>4. walk.text \in Texts
  BY EmptyIsClean DEF Init, WalkFrom
<1>5. packet = NewPacket /\ pc = "header"
  BY DEF Init
<1>6. PICK h : h = NewHeader
  OBVIOUS
<1>7. 0 \in Byte /\ 0 \in Word
  <2>1. 0 \in 0..255
    OBVIOUS
  <2> QED  BY <2>1, SmallWord DEF Byte
<1>8. h \in Header /\ h.b = 0 /\ h.questions = 0
  BY <1>6, <1>7 DEF NewHeader, Header
<1>9. /\ packet = [header |-> h, questions |-> << >>, answers |-> << >>,
                   authorities |-> << >>, resources |-> << >>]
  BY <1>5, <1>6, Zenon DEF NewPacket
<1>10. /\ packet.header = h /\ packet.questions = << >> /\ packet.answers = << >>
       /\ packet.authorities = << >> /\ packet.resources = << >>
  BY <1>9
<1>11. << >> \in Seq(CleanQuestion) /\ Len(<< >>) = 0 /\ 0 % 16 = 0
  OBVIOUS
<1>12. Reads
  BY <1>4, <1>5, <1>8, <1>9, <1>10, <1>11 DEF Reads
<1>13. Asked
  BY DEF Init, Asked
<1> QED  BY <1>3, <1>12, <1>13 DEF IInv

LEMMA U16Word ==
    ASSUME Numbers, NEW p \in Nat, Has(p, 2)
    PROVE  u16_at(p) \in Word
<1>1. Has(p, 1) /\ Has(p + 1, 1) /\ p + 1 \in Nat
  BY DEF Numbers, Bytes, Has
<1>2. PICK hi \in 0..255, lo \in 0..255 : hi = get(p) /\ lo = get(p + 1)
  BY <1>1, GetIsByte, Zenon
<1>3. PICK n : n = hi * 256 + lo
  OBVIOUS
<1>4. n \in Int /\ 0 <= n /\ n <= 65535
  <2>1. hi \in Int /\ lo \in Int /\ 0 <= hi /\ hi <= 255 /\ 0 <= lo /\ lo <= 255
    BY <1>2
  <2>2. n \in Int /\ 0 <= n
    BY <1>3, <2>1, SMT
  <2>3. n <= 65535
    BY <1>3, <2>1, SMT
  <2> QED  BY <2>2, <2>3
<1>5. n \in Word
  BY <1>4, InWord, SMT
<1>6. u16_at(p) = n
  BY <1>2, <1>3, Zenon DEF u16_at, u16
<1> QED  BY <1>5, <1>6

\* What an answer starts the client with.
LEMMA AnswerKept ==
    ASSUME IInv, Answer, pc' # "unwritable"
    PROVE  IInv'
<1>1. PICK p \in Policies :
        /\ Writable(synthesize(packet, p)) /\ buf' = Write(synthesize(packet, p))
        /\ side' = "client" /\ policy' = p /\ asked' = packet /\ pos' = 0 /\ pc' = "header"
        /\ walk' = WalkFrom(0) /\ record' = NoRecord /\ packet' = NewPacket
  BY Zenon DEF Answer
<1>2. p \in Policy
  BY ReaderAssumption
<1>3. Read(packet)
  BY PacketIsRead DEF IInv
<1>4. buf' \in Bytes
  BY <1>1, <1>2, <1>3, AnswerWritten DEF Pieced
<1>5. TurnsAreShared' /\ Numbers'
  <2>1. 0 \in Nat
    OBVIOUS
  <2>2. record' \in [domain : {record'.domain}, type : Nat, ttl : {record'.ttl},
                     data_len : Nat, end : Nat, data : {record'.data}]
    BY <1>1 DEF NoRecord
  <2> QED  BY <1>1, <1>4, <2>1, <2>2, FreshWalk DEF Numbers
<1>6. walk'.text \in Texts
  BY <1>1, EmptyIsClean DEF WalkFrom
<1>7. PICK h : h = NewHeader
  OBVIOUS
<1>8. 0 \in Byte /\ 0 \in Word
  <2>1. 0 \in 0..255
    OBVIOUS
  <2> QED  BY <2>1, SmallWord DEF Byte
<1>9. h \in Header /\ h.b = 0 /\ h.questions = 0
  BY <1>7, <1>8 DEF NewHeader, Header
<1>10. /\ packet' = [header |-> h, questions |-> << >>, answers |-> << >>,
                     authorities |-> << >>, resources |-> << >>]
  BY <1>1, <1>7, Zenon DEF NewPacket
<1>11. /\ packet'.header = h /\ packet'.questions = << >> /\ packet'.answers = << >>
       /\ packet'.authorities = << >> /\ packet'.resources = << >>
  BY <1>10
<1>12. << >> \in Seq(CleanQuestion) /\ Len(<< >>) = 0 /\ 0 % 16 = 0
  OBVIOUS
<1>13. Reads'
  BY <1>1, <1>6, <1>9, <1>10, <1>11, <1>12 DEF Reads
<1>14. Asked'
  BY <1>1, <1>3, Zenon DEF Asked
<1> QED  BY <1>5, <1>13, <1>14 DEF IInv

\* Numbers stay numbers, and turns within their shares.
LEMMA NumbersKept ==
    ASSUME Numbers, TurnsAreShared, [Next]_vars, ~Answer
    PROVE  Numbers' /\ TurnsAreShared'
<1>n. pos \in Nat /\ record.data_len \in Nat /\ Len(buf) \in Nat
  BY DEF Numbers, Bytes
<1>1. CASE ReadHeader
  <2>1. buf' = buf /\ walk' = walk /\ record' = record /\ pos' = 12 /\ pc' = "entry"
    BY <1>1 DEF ReadHeader, message
  <2> QED  BY <2>1, OutsideWalk DEF Numbers, Walking
<1>2. CASE NextEntry
  <2>1. buf' = buf /\ record' = record /\ pos' = pos
    BY <1>2 DEF NextEntry, message
  <2>2. CASE pc' = "parsed" /\ walk' = walk
    BY <2>1, <2>2, OutsideWalk DEF Numbers, Walking
  <2>3. CASE walk' = WalkFrom(pos)
    BY <2>1, <2>3, <1>n, FreshWalk DEF Numbers
  <2> QED  BY <1>2, <2>2, <2>3 DEF NextEntry
<1>3. CASE ReadQuestion
  <2>1. buf' = buf /\ walk' = walk /\ record' = record /\ pos' = pos + 4 /\ pc' = "entry"
    BY <1>3 DEF ReadQuestion, KeepEntry, message
  <2> QED  BY <2>1, <1>n, OutsideWalk DEF Numbers, Walking
<1>4. CASE ReadFields
  <2>1. buf' = buf /\ walk' = walk /\ pos' = pos + 10 /\ pc' = "data"
    BY <1>4 DEF ReadFields, message
  <2>2. Has(pos, 10)
    BY <1>4 DEF ReadFields
  <2>3. Has(pos, 2) /\ Has(pos + 8, 2) /\ pos + 8 \in Nat
    BY <2>2, <1>n DEF Has
  <2>4. u16_at(pos) \in Nat /\ u16_at(pos + 8) \in Nat
    BY <2>3, <1>n, U16IsNat
  <2>5. record' \in [domain : {record'.domain}, type : Nat, ttl : {record'.ttl},
                     data_len : Nat, end : Nat, data : {record'.data}]
    BY <1>4, <2>4, <1>n DEF ReadFields
  <2> QED  BY <2>1, <2>5, <1>n, OutsideWalk DEF Numbers, Walking
<1>5. CASE FollowPointer
  BY <1>5, PointerStep
<1>6. CASE ReadLabel
  BY <1>6, LabelStep
<1>7. CASE EndOfName
  BY <1>7, EndStep
<1>8. CASE Fail
  <2>1. buf' = buf /\ walk' = walk /\ record' = record /\ pos' = pos /\ pc' = "failed"
    BY <1>8 DEF Fail, message
  <2> QED  BY <2>1, OutsideWalk DEF Numbers, Walking
<1>9. CASE ReadAddress
  <2>1. buf' = buf /\ walk' = walk /\ record' = record /\ pos' = pos + AddressLength /\ pc' = "entry"
    BY <1>9 DEF ReadAddress, KeepRecord, KeepEntry, message
  <2>2. pos' \in Nat
    BY <2>1, <1>n DEF AddressLength
  <2> QED  BY <2>1, <2>2, OutsideWalk DEF Numbers, Walking
<1>10. CASE ReadPriority
  <2>1. buf' = buf /\ pos' = pos + PriorityLength /\ walk' = WalkFrom(pos + PriorityLength)
    BY <1>10 DEF ReadPriority, message
  <2>2. pos + PriorityLength \in Nat
    BY <1>n DEF PriorityLength
  <2>3. record' \in [domain : {record'.domain}, type : Nat, ttl : {record'.ttl},
                     data_len : Nat, end : Nat, data : {record'.data}]
    <3>1. PICK d : record' = [record EXCEPT !.data = d]
      BY <1>10 DEF ReadPriority
    <3> QED  BY <3>1 DEF Numbers
  <2> QED  BY <2>1, <2>2, <2>3, FreshWalk DEF Numbers
<1>11. CASE KeepHost
  <2>1. buf' = buf /\ walk' = walk /\ record' = record /\ pos' = pos /\ pc' = "entry"
    BY <1>11 DEF KeepHost, KeepRecord, KeepEntry, message
  <2> QED  BY <2>1, OutsideWalk DEF Numbers, Walking
<1>12. CASE ReadString
  <2>1. buf' = buf /\ walk' = walk /\ pos' = pos + 1 + get(pos) /\ pc' = "data"
    BY <1>12 DEF ReadString, message
  <2>2. get(pos) \in 0..255
    BY <1>12, <1>n, GetIsByte DEF ReadString
  <2>3. record' \in [domain : {record'.domain}, type : Nat, ttl : {record'.ttl},
                     data_len : Nat, end : Nat, data : {record'.data}]
    <3>1. PICK d : record' = [record EXCEPT !.data = d]
      BY <1>12 DEF ReadString
    <3> QED  BY <3>1 DEF Numbers
  <2>4. pos' \in Nat
    <3> DEFINE len == get(pos)
    <3>1. len \in 0..255 /\ pos' = pos + 1 + len
      BY <2>1, <2>2
    <3> HIDE DEF len
    <3> QED  BY <3>1, <1>n
  <2> QED  BY <2>1, <2>3, <2>4, OutsideWalk DEF Numbers, Walking
<1>13. CASE KeepStrings
  <2>1. buf' = buf /\ walk' = walk /\ record' = record /\ pos' = pos /\ pc' = "entry"
    BY <1>13 DEF KeepStrings, KeepRecord, KeepEntry, message
  <2> QED  BY <2>1, OutsideWalk DEF Numbers, Walking
<1>14. CASE SkipUnknown
  <2>1. buf' = buf /\ walk' = walk /\ record' = record /\ pos' = pos + record.data_len /\ pc' = "entry"
    BY <1>14 DEF SkipUnknown, KeepRecord, KeepEntry, message
  <2> QED  BY <2>1, <1>n, OutsideWalk DEF Numbers, Walking
<1>15. CASE UNCHANGED vars
  BY <1>15 DEF vars, message, Numbers, TurnsAreShared, Walking
<1> QED
  BY <1>1, <1>2, <1>3, <1>4, <1>5, <1>6, <1>7, <1>8, <1>9, <1>10, <1>11, <1>12, <1>13, <1>14,
     <1>15 DEF Next, WalkFails, EndOfBuffer

\* Steps that read neither a header nor a question, nor more of a name.
LEMMA Untouched ==
    ASSUME Reads, walk'.text \in Texts, pc \notin {"header"}, pc' # "header",
           \/ packet' = packet
           \/ /\ Section # "questions"
              /\ \E e : packet' = [packet EXCEPT ![Section] = Append(@, e)],
           pc' \in {"data", "host", "hosted"} => packet' = packet /\ Section # "questions"
    PROVE  Reads'
<1>1. CASE packet' = packet
  <2>1. Section' = Section
    BY <1>1 DEF Section
  <2> QED  BY <1>1, <2>1 DEF Reads
<1>2. CASE packet' # packet
  <2>1. PICK e : packet' = [packet EXCEPT ![Section] = Append(@, e)]
    BY <1>2
  <2>2. Section # "questions" /\ Section # "header"
    BY <1>2 DEF Section
  <2>3. PICK f : f = Section
    OBVIOUS
  <2>4. packet' = [packet EXCEPT ![f] = Append(packet[f], e)]
    BY <2>1, <2>3
  <2>5. /\ packet'.header = packet.header /\ packet'.questions = packet.questions
        /\ packet' = [header |-> packet'.header, questions |-> packet'.questions,
                      answers |-> packet'.answers,
                      authorities |-> packet'.authorities, resources |-> packet'.resources]
    BY <2>2, <2>3, <2>4 DEF Reads
  <2> QED  BY <1>2, <2>5 DEF Reads
<1> QED  BY <1>1, <1>2

LEMMA HeaderIsRead ==
    ASSUME Numbers, Reads, ReadHeader
    PROVE  Reads'
<1>1. PICK h : h = [id |-> get_range(0, 2), a |-> get(2), b |-> from_num(get(3)),
                    questions |-> u16_at(4), answers |-> u16_at(6),
                    authoritative_entries |-> u16_at(8), resource_entries |-> u16_at(10)]
  OBVIOUS
<1>2. packet' = [packet EXCEPT !.header = h] /\ pc' = "entry" /\ walk' = walk /\ pc = "header" /\ Has(0, 12)
  BY <1>1 DEF ReadHeader
<1>3. PICK n \in Nat : n = Len(buf) /\ 12 <= n
  BY <1>2 DEF Numbers, Bytes, Has
<1>4. \A p \in 0..11 : Has(p, 1)
  BY <1>3 DEF Has
<1>5. \A p \in 0..10 : Has(p, 2)
  BY <1>3 DEF Has
<1>6. u16_at(4) \in Word /\ u16_at(6) \in Word /\ u16_at(8) \in Word /\ u16_at(10) \in Word
  <2>1. \A p \in 0..10 : u16_at(p) \in Word
    BY <1>5, U16Word
  <2> QED  BY <2>1
<1>7. get(2) \in Byte /\ get(3) \in Byte
  <2>1. \A p \in 0..11 : get(p) \in 0..255
    BY <1>4, GetIsByte
  <2> QED  BY <2>1 DEF Byte
<1>8. from_num(get(3)) \in Byte /\ from_num(get(3)) % 16 <= 5
  <2>1. PICK b \in 0..255 : b = get(3)
    BY <1>7 DEF Byte
  <2>2. PICK q \in Int, r \in 0..15 : b = q * 16 + r /\ r = b % 16
    <3>1. b % 16 \in 0..15 /\ b \div 16 \in Int /\ b = (b \div 16) * 16 + (b % 16)
      BY SMT
    <3> QED  BY <3>1
  <2>3. 0 <= q /\ q <= 15
    BY <2>2
  <2>4. b - r = q * 16 /\ (q * 16) % 16 = 0
    BY <2>2, <2>3
  <2>5. from_num(b) \in 0..255 /\ from_num(b) % 16 <= 5
    BY <2>2, <2>3, <2>4 DEF from_num
  <2> QED  BY <2>1, <2>5 DEF Byte
<1>9. get_range(0, 2) \in Byte \X Byte
  <2>1. PICK s : s = get_range(0, 2)
    OBVIOUS
  <2>2. s = SubSeq(buf, 0 + 1, 0 + 2)
    BY <2>1 DEF get_range
  <2>3. buf \in Seq(Byte)
    BY DEF Numbers, Bytes
  <2>4. 0 + 1 = 1 /\ 0 + 2 = 2
    OBVIOUS
  <2>5. s \in Seq(Byte) /\ Len(s) = 2
    BY <1>3, <2>2, <2>3, <2>4
  <2>6. s[1] \in Byte /\ s[2] \in Byte
    BY <2>5
  <2>7. PICK t : t = <<s[1], s[2]>>
    OBVIOUS
  <2>8. t \in Seq(Byte) /\ Len(t) = 2 /\ t[1] = s[1] /\ t[2] = s[2]
    BY <2>6, <2>7
  <2>9. \A i \in 1..Len(s) : s[i] = t[i]
    BY <2>5, <2>8
  <2>10. s = t
    BY <2>5, <2>8, <2>9, SeqEqual
  <2> QED  BY <2>1, <2>6, <2>7, <2>10
<1>10. h \in Header /\ h.b % 16 <= 5 /\ h.questions \in Word
  BY <1>1, <1>6, <1>7, <1>8, <1>9 DEF Header
<1>11. h.questions \in Nat
  BY <1>10, Count
<1>12. packet.questions = << >> /\ Len(<< >>) = 0
  BY <1>2 DEF Reads
<1>13. /\ packet'.header = h /\ packet'.questions = << >>
       /\ packet' = [header |-> packet'.header, questions |-> packet'.questions,
                     answers |-> packet'.answers,
                     authorities |-> packet'.authorities, resources |-> packet'.resources]
  BY <1>2, <1>12 DEF Reads
<1>14. << >> \in Seq(CleanQuestion) /\ Len(<< >>) <= h.questions
  BY <1>11, <1>12
<1> QED  BY <1>2, <1>10, <1>13, <1>14 DEF Reads

LEMMA QuestionIsRead ==
    ASSUME Numbers, Reads, ReadQuestion
    PROVE  Reads'
<1>1. PICK q : q = [name |-> walk.text, qtype |-> u16_at(pos)]
  OBVIOUS
<1>2. /\ pc = "named" /\ Section = "questions" /\ Has(pos, 4) /\ walk' = walk /\ pc' = "entry"
      /\ packet' = [packet EXCEPT !["questions"] = Append(packet["questions"], q)]
  BY <1>1 DEF ReadQuestion, KeepEntry
<1>3. q \in CleanQuestion
  <2>1. Has(pos, 2) /\ pos \in Nat
    BY <1>2 DEF Numbers, Bytes, Has
  <2> QED  BY <1>1, <2>1, U16Word DEF Reads, CleanQuestion
<1>4. PICK qs : qs = packet.questions
  OBVIOUS
<1>5. qs \in Seq(CleanQuestion)
  BY <1>4 DEF Reads
<1>6. PICK n \in Nat : n = Len(qs)
  BY <1>5
<1>7. PICK m \in Nat : m = packet.header.questions
  <2>1. packet.header.questions \in Word
    BY DEF Reads, Header
  <2> QED  BY <2>1, Count
<1>8. n < m
  BY <1>2, <1>4, <1>6, <1>7 DEF Section
<1>9. PICK rs : rs = Append(qs, q)
  OBVIOUS
<1>10. rs \in Seq(CleanQuestion) /\ Len(rs) = n + 1
  BY <1>3, <1>5, <1>6, <1>9
<1>11. /\ packet'.header = packet.header /\ packet'.questions = rs
       /\ packet' = [header |-> packet'.header, questions |-> packet'.questions,
                     answers |-> packet'.answers,
                     authorities |-> packet'.authorities, resources |-> packet'.resources]
  BY <1>2, <1>4, <1>9 DEF Reads
<1>12. Len(packet'.questions) <= packet'.header.questions
  BY <1>7, <1>8, <1>10, <1>11
<1> QED  BY <1>2, <1>10, <1>11, <1>12 DEF Reads

LEMMA LabelIsRead ==
    ASSUME Numbers, Reads, ReadLabel
    PROVE  walk'.text \in Texts
<1>1. PICK text, len, label, delim :
        /\ text = walk.text /\ len = get(walk.at) /\ label = LossyLower(get_range(walk.at + 1, len))
        /\ delim = IF text = << >> THEN << >> ELSE <<Dot>>
  OBVIOUS
<1>2. walk' = [walk EXCEPT !.text = (text \o delim) \o label, !.at = @ + 1 + len, !.turns = @ + 1]
      /\ len # 0 /\ Has(walk.at, 1) /\ Has(walk.at + 1, len)
  BY <1>1 DEF ReadLabel, AtByte
<1>3. walk'.text = (text \o delim) \o label
  BY <1>2 DEF Numbers
<1>4. get_range(walk.at + 1, len) \in Bytes
  <2>1. PICK p \in Nat, n \in Nat : p = walk.at /\ n = Len(buf)
    BY DEF Numbers, Bytes
  <2>2. len \in 0..255
    BY <1>1, <1>2, <2>1, GetIsByte
  <2>3. p + 1 + len <= n
    BY <1>2, <2>1 DEF Has
  <2>4. buf \in Seq(Byte)
    BY DEF Numbers, Bytes
  <2>5. SubSeq(buf, p + 1 + 1, p + 1 + len) \in Seq(Byte)
    BY <2>1, <2>2, <2>3, <2>4
  <2> QED  BY <2>1, <2>5 DEF get_range, Bytes
<1>5. Clean(label) /\ Clean(text)
  BY <1>1, <1>4, LossyClean DEF Reads, Texts
<1>6. label \in Seq(Byte) /\ text \in Seq(Byte)
  BY <1>5 DEF Clean, Bytes
<1>7. CASE text = << >>
  <2>1. (text \o delim) \o label = label
    BY <1>1, <1>6, <1>7
  <2> QED  BY <1>3, <1>5, <2>1 DEF Texts, Clean
<1>8. CASE text # << >>
  <2>1. delim = <<Dot>>
    BY <1>1, <1>8
  <2>2. Clean(text \o <<Dot>> \o label)
    BY <1>5, CleanDotted
  <2> QED  BY <1>3, <2>1, <2>2 DEF Texts, Clean
<1> QED  BY <1>7, <1>8

LEMMA ReadsKept ==
    ASSUME Numbers, Reads, [Next]_vars, ~Answer
    PROVE  Reads'
<1>w. walk.text \in Texts
  BY DEF Reads
<1>f. \A p : WalkFrom(p).text \in Texts
  BY EmptyIsClean DEF WalkFrom
<1>1. CASE ReadHeader
  BY <1>1, HeaderIsRead
<1>2. CASE NextEntry
  <2>1. packet' = packet /\ pc = "entry" /\ pc' \in {"parsed", "owner"} /\ walk'.text \in Texts
    BY <1>2, <1>w, <1>f DEF NextEntry
  <2> QED  BY <2>1, Untouched
<1>3. CASE ReadQuestion
  BY <1>3, QuestionIsRead
<1>4. CASE ReadFields
  <2>1. packet' = packet /\ pc = "named" /\ pc' = "data" /\ walk' = walk /\ Section # "questions"
    BY <1>4 DEF ReadFields
  <2> QED  BY <1>w, <2>1, Untouched
<1>5. CASE FollowPointer
  <2>1. packet' = packet /\ pc' = pc /\ walk'.text = walk.text /\ pc \in {"owner", "host"}
    BY <1>5 DEF FollowPointer, AtByte, Walking, Numbers
  <2> QED  BY <1>w, <2>1, Untouched DEF Reads
<1>6. CASE ReadLabel
  <2>1. packet' = packet /\ pc' = pc /\ pc \in {"owner", "host"}
    BY <1>6 DEF ReadLabel, AtByte, Walking
  <2> QED  BY <1>6, <2>1, LabelIsRead, Untouched DEF Reads
<1>7. CASE EndOfName
  <2>1. packet' = packet /\ walk'.text = walk.text /\ pc \in {"owner", "host"}
        /\ pc' = IF pc = "owner" THEN "named" ELSE "hosted"
    BY <1>7 DEF EndOfName, AtByte, Walking, Numbers
  <2> QED  BY <1>w, <2>1, Untouched DEF Reads
<1>8. CASE Fail
  <2>1. packet' = packet /\ walk' = walk /\ pc' = "failed"
    BY <1>8 DEF Fail
  <2> QED  BY <2>1 DEF Reads
<1>9. CASE ReadAddress
  <2>1. /\ walk' = walk /\ pc = "data" /\ pc' = "entry"
        /\ \E e : packet' = [packet EXCEPT ![Section] = Append(@, e)]
    BY <1>9 DEF ReadAddress, KeepRecord, KeepEntry
  <2> QED  BY <1>w, <2>1, Untouched DEF Reads
<1>10. CASE ReadPriority
  <2>1. packet' = packet /\ pc = "data" /\ pc' = "host" /\ walk'.text \in Texts
    BY <1>10, <1>f DEF ReadPriority
  <2> QED  BY <2>1, Untouched DEF Reads
<1>11. CASE KeepHost
  <2>1. /\ walk' = walk /\ pc = "hosted" /\ pc' = "entry"
        /\ \E e : packet' = [packet EXCEPT ![Section] = Append(@, e)]
    BY <1>11 DEF KeepHost, KeepRecord, KeepEntry
  <2> QED  BY <1>w, <2>1, Untouched DEF Reads
<1>12. CASE ReadString
  <2>1. packet' = packet /\ pc = "data" /\ pc' = "data" /\ walk' = walk
    BY <1>12 DEF ReadString
  <2> QED  BY <1>w, <2>1, Untouched DEF Reads
<1>13. CASE KeepStrings
  <2>1. /\ walk' = walk /\ pc = "data" /\ pc' = "entry"
        /\ \E e : packet' = [packet EXCEPT ![Section] = Append(@, e)]
    BY <1>13 DEF KeepStrings, KeepRecord, KeepEntry
  <2> QED  BY <1>w, <2>1, Untouched DEF Reads
<1>14. CASE SkipUnknown
  <2>1. /\ walk' = walk /\ pc = "data" /\ pc' = "entry"
        /\ \E e : packet' = [packet EXCEPT ![Section] = Append(@, e)]
    BY <1>14 DEF SkipUnknown, KeepRecord, KeepEntry
  <2> QED  BY <1>w, <2>1, Untouched DEF Reads
<1>15. CASE UNCHANGED vars
  <2>1. packet' = packet /\ walk' = walk /\ pc' = pc
    BY <1>15 DEF vars
  <2> QED  BY <2>1 DEF Reads, Section
<1> QED
  BY <1>1, <1>2, <1>3, <1>4, <1>5, <1>6, <1>7, <1>8, <1>9, <1>10, <1>11, <1>12, <1>13, <1>14,
     <1>15 DEF Next, WalkFails, EndOfBuffer

\* While a message is read, neither it nor its story changes.
LEMMA MessageKept ==
    ASSUME [Next]_vars, ~Answer
    PROVE  message' = message
BY DEF Next, vars, message, ReadHeader, NextEntry, ReadQuestion, ReadFields, FollowPointer,
       ReadLabel, EndOfName, WalkFails, ReadAddress, ReadPriority, KeepHost, ReadString,
       KeepStrings, SkipUnknown, EndOfBuffer, Fail

LEMMA StepInv == IInv /\ [Next]_vars => IInv'
<1> SUFFICES ASSUME IInv, [Next]_vars PROVE IInv'
  OBVIOUS
<1>1. CASE ~Answer
  <2>1. Numbers' /\ TurnsAreShared' /\ Reads'
    BY <1>1, NumbersKept, ReadsKept DEF IInv
  <2>2. Asked'
    BY <1>1, MessageKept DEF IInv, Asked, message
  <2> QED  BY <2>1, <2>2 DEF IInv
<1>2. CASE Answer /\ pc' = "unwritable"
  <2>1. buf' = buf /\ walk' = walk /\ record' = record /\ pos' = pos
        /\ packet' = packet /\ side' = side /\ asked' = asked /\ policy' = policy
    BY <1>2 DEF Answer, message
  <2>2. Numbers' /\ TurnsAreShared'
    BY <1>2, <2>1, OutsideWalk DEF IInv, Numbers, Walking
  <2>3. Reads' /\ Asked'
    BY <1>2, <2>1 DEF IInv, Reads, Asked
  <2> QED  BY <2>2, <2>3 DEF IInv
<1>3. CASE Answer /\ pc' # "unwritable"
  BY <1>3, AnswerKept
<1> QED  BY <1>1, <1>2, <1>3

LEMMA InvBounds == IInv => WalkIsBounded
<1> SUFFICES ASSUME Numbers, TurnsAreShared PROVE WalkIsBounded
  BY DEF IInv
<1>1. walk.at \in Nat /\ walk.turns \in Nat /\ walk.jumps \in 0..6 /\ Len(buf) \in Nat
  BY DEF Numbers, Bytes, max_jumps
<1> DEFINE N == Len(buf) + 1
<1>2. N \in Nat /\ walk.jumps * N \in Nat /\ walk.jumps * N <= 6 * N
  BY <1>1
<1>3. walk.turns <= walk.jumps * N + N
  <2> DEFINE share == walk.jumps * N
  <2>1. share \in Nat
    BY <1>2
  <2>2. \/ walk.at <= Len(buf) /\ walk.turns <= share + walk.at
        \/ walk.turns <= share
        \/ walk.turns <= share + N
    BY <1>1, SMTT(30) DEF TurnsAreShared
  <2> HIDE DEF share
  <2>3. walk.turns <= share + N
    BY <1>1, <2>1, <2>2
  <2> QED  BY <2>3 DEF share
<1>4. walk.turns <= 7 * N
  <2> HIDE DEF N
  <2> QED  BY <1>1, <1>2, <1>3
<1> QED  BY <1>4 DEF WalkIsBounded, max_jumps

\* Whatever bytes a client sends, and whatever answer a server writes for
\* them, read_qname ends each name after at most seven turns for each byte of
\* the message (buffer.rs:95-128).
THEOREM BoundedWalks == Spec => []WalkIsBounded
<1>1. Init => IInv
  BY InitialInv
<1>2. IInv /\ [Next]_vars => IInv'
  BY StepInv
<1> QED  BY <1>1, <1>2, InvBounds, PTL DEF Spec

-----------------------------------------------------------------------------
(* Lists that are read from the front, and names from the back.            *)

\* A beginning of a list.
Begins(s, t) == Len(s) \in 0..Len(t) /\ s = SubSeq(t, 1, Len(s))

LEMMA BeginsEmpty ==
    ASSUME NEW S, NEW t, t \in Seq(S)
    PROVE  Begins(<< >>, t)
<1>1. Len(<< >>) = 0 /\ 0 \in 0..Len(t)
  OBVIOUS
<1>2. SubSeq(t, 1, 0) = << >>
  BY SubSeqEmpty
<1> QED  BY <1>1, <1>2 DEF Begins

LEMMA BeginsAll ==
    ASSUME NEW S, NEW t, t \in Seq(S), NEW s, Begins(s, t)
    PROVE  s \in Seq(S) /\ Len(s) \in Nat /\ Len(t) \in Nat /\ (~(Len(s) < Len(t)) => s = t)
<1>1. PICK n \in Nat : n = Len(t)
  OBVIOUS
<1>2. PICK k \in 0..n : k = Len(s) /\ s = SubSeq(t, 1, k)
  BY <1>1, Zenon DEF Begins
<1>3. s \in Seq(S)
  BY <1>1, <1>2
<1>4. CASE ~(k < n)
  <2>1. k = n
    BY <1>4
  <2>2. SubSeq(t, 1, Len(t)) = t
    BY SubSeqFull
  <2> QED  BY <1>1, <1>2, <1>3, <2>1, <2>2
<1> QED  BY <1>1, <1>2, <1>3, <1>4

LEMMA BeginsMore ==
    ASSUME NEW S, NEW t, t \in Seq(S), NEW s, Begins(s, t), Len(s) < Len(t)
    PROVE  /\ Begins(Append(s, t[Len(s) + 1]), t)
           /\ Len(Append(s, t[Len(s) + 1])) = Len(s) + 1
           /\ Append(s, t[Len(s) + 1]) # << >>
<1>1. PICK n \in Nat : n = Len(t)
  BY SMTT(30)
<1>2. PICK k \in 0..n : k = Len(s) /\ s = SubSeq(t, 1, k)
  BY <1>1, Zenon DEF Begins
<1>3. s \in Seq(S) /\ k + 1 \in 1..n
  BY <1>1, <1>2
<1>4. t[k + 1] \in S
  BY <1>1, <1>3, ElementOfSeq
<1>5. PICK e \in S : e = t[k + 1]
  BY <1>4
<1>6. PICK u : u = Append(s, e)
  OBVIOUS
<1>7. u \in Seq(S) /\ Len(u) = k + 1 /\ u = s \o <<e>>
  BY <1>2, <1>3, <1>6
<1>8. SubSeq(t, 1, k + 1) = SubSeq(t, 1, (k + 1) - 1) \o << t[k + 1] >>
  <2>1. 1 \in 1..n /\ k + 1 \in 1..n
    BY <1>3
  <2> QED  BY <1>1, <2>1, SubSeqRecursiveSecond
<1>9. (k + 1) - 1 = k
  OBVIOUS
<1>10. SubSeq(t, 1, k + 1) = u
  BY <1>2, <1>5, <1>7, <1>8, <1>9
<1>11. Len(u) \in 0..n /\ u = SubSeq(t, 1, Len(u)) /\ u # << >>
  <2>1. Len(<< >>) = 0
    OBVIOUS
  <2> QED  BY <1>3, <1>7, <1>10, <2>1
<1> QED  BY <1>1, <1>2, <1>5, <1>6, <1>7, <1>11 DEF Begins

LEMMA JoinedWithNothing ==
    ASSUME NEW t, t \in Bytes
    PROVE  Joined(<< >>, t) = t /\ Joined(t, << >>) = t
<1>1. t \o << >> = t /\ << >> \o t = t
  BY ConcatEmptySeq DEF Bytes
<1> QED  BY <1>1 DEF Joined

Associate(s, t, u) == (s \o t) \o u = s \o (t \o u)

LEMMA Associates ==
    ASSUME NEW S, NEW s \in Seq(S), NEW t \in Seq(S), NEW u \in Seq(S)
    PROVE  Associate(s, t, u)
BY ConcatAssociative DEF Associate

Four(s, d, t, u) ==
    (((s \o d) \o t) \o d) \o u = (s \o d) \o ((t \o d) \o u)

LEMMA FourParts ==
    ASSUME NEW S, NEW s \in Seq(S), NEW d \in Seq(S), NEW t \in Seq(S), NEW u \in Seq(S)
    PROVE  Four(s, d, t, u)
<1>1. PICK x, y : x = s \o d /\ y = t \o d
  OBVIOUS
<1>2. x \in Seq(S) /\ y \in Seq(S)
  BY <1>1
<1>3. Associate(x, t, d)
  BY <1>2, Associates, Zenon
<1>4. Associate(x, y, u)
  BY <1>2, Associates, Zenon
<1> QED  BY <1>1, <1>3, <1>4, Zenon DEF Associate, Four

\* A label behind a text, and what follows behind both.
LEMMA JoinedLabel ==
    ASSUME NEW text, text \in Bytes, NEW label, label \in Bytes, label # << >>,
           NEW rest, rest \in Bytes,
           NEW delim, delim = IF text = << >> THEN << >> ELSE <<Dot>>
    PROVE  Joined((text \o delim) \o label, rest) = Joined(text, Joined(label, rest))
<1>1. text \in Seq(Byte) /\ label \in Seq(Byte) /\ rest \in Seq(Byte) /\ <<Dot>> \in Seq(Byte)
  BY DEF Bytes, Byte, Dot
<1>2. CASE text = << >>
  <2>1. (text \o delim) \o label = label
    BY <1>1, <1>2
  <2>2. Joined(label, rest) \in Bytes
    BY <1>1 DEF Joined, Bytes
  <2>3. Joined(text, Joined(label, rest)) = Joined(label, rest)
    BY <1>2, <2>2, JoinedWithNothing
  <2> QED  BY <2>1, <2>3
<1>3. CASE text # << >>
  <2>1. PICK dot : dot = <<Dot>>
    OBVIOUS
  <2>2. dot \in Seq(Byte) /\ delim = dot
    BY <1>1, <1>3, <2>1
  <2>3. PICK s : s = (text \o dot) \o label
    OBVIOUS
  <2>4. text \o dot \in Seq(Byte) /\ s \in Seq(Byte)
    BY <1>1, <2>2, <2>3
  <2>5. s # << >>
    BY <1>1, <2>3, <2>4, ConcatEqualIffEmpty
  <2>6. CASE rest = << >>
    <3>1. Joined(s, rest) = s /\ Joined(label, rest) = label
      BY <1>1, <2>4, <2>6, JoinedWithNothing DEF Bytes
    <3>2. Joined(text, label) = (text \o dot) \o label
      BY <1>3, <2>1 DEF Joined
    <3> QED  BY <2>2, <2>3, <3>1, <3>2
  <2>7. CASE rest # << >>
    <3>1. Joined(s, rest) = (s \o dot) \o rest
      BY <2>1, <2>5, <2>7 DEF Joined
    <3>2. Joined(label, rest) = (label \o dot) \o rest
      BY <2>1, <2>7 DEF Joined
    <3>3. label \o dot \in Seq(Byte) /\ (label \o dot) \o rest \in Seq(Byte)
      BY <1>1, <2>2
    <3>4. label \o dot # << >>
      BY <1>1, <2>2, ConcatEqualIffEmpty
    <3>5. (label \o dot) \o rest # << >>
      BY <1>1, <3>3, <3>4, ConcatEqualIffEmpty
    <3>6. Joined(text, (label \o dot) \o rest) = (text \o dot) \o ((label \o dot) \o rest)
      BY <1>3, <2>1, <3>5 DEF Joined
    <3>7. (((text \o dot) \o label) \o dot) \o rest = (text \o dot) \o ((label \o dot) \o rest)
      <4>1. Four(text, dot, label, rest)
        BY <1>1, <2>2, FourParts, Zenon
      <4> QED  BY <4>1 DEF Four
    <3> QED  BY <2>2, <2>3, <3>1, <3>2, <3>6, <3>7
  <2> QED  BY <2>6, <2>7
<1> QED  BY <1>2, <1>3

-----------------------------------------------------------------------------
(* Names, as they are laid out and as they are read.                       *)

NameEnds(names, p) ==
    get(p) = 0 /\ names[p].text = << >> /\ names[p].jumps = 0 /\ names[p].after = p + 1

NamePoints(names, p) ==
    LET to == u16_at(p) - 192 * 256
    IN  /\ get(p) >= 192 /\ Has(p, 2) /\ to \in DOMAIN names
        /\ names[p].text = names[to].text /\ names[p].jumps = names[to].jumps + 1
        /\ names[p].after = p + 2

NameGoesOn(names, p) ==
    LET on == p + 1 + get(p)
    IN  /\ get(p) \in 1..63 /\ Has(p + 1, get(p)) /\ on \in DOMAIN names
        /\ get_range(p + 1, get(p)) \in Bytes /\ get_range(p + 1, get(p)) # << >>
        /\ names[p].text = Joined(LossyLower(get_range(p + 1, get(p))), names[on].text)
        /\ names[p].jumps = names[on].jumps /\ names[p].after = names[on].after

Named(names, p) ==
    /\ p \in Nat /\ Has(p, 1) /\ get(p) \in 0..255
    /\ names[p].text \in Bytes /\ names[p].jumps \in 0..max_jumps /\ names[p].after \in Nat

LEMMA NamePlaces ==
    ASSUME Numbers, NEW names, NamesLaid(buf, names), NEW p, p \in DOMAIN names
    PROVE  Named(names, p)
<1>1. p \in 0..(Len(buf) - 1) /\ names[p] \in Names
  BY Zenon DEF NamesLaid
<1>2. Len(buf) \in Nat
  BY DEF Numbers, Bytes
<1>3. p \in Nat /\ Has(p, 1)
  BY <1>1, <1>2 DEF Has
<1>4. get(p) \in 0..255
  BY <1>3, GetIsByte
<1>5. names[p].text \in Bytes /\ names[p].jumps \in 0..max_jumps /\ names[p].after \in Nat
  BY <1>1 DEF Names
<1> QED  BY <1>3, <1>4, <1>5, SMTT(30) DEF Named

LEMMA NameCases ==
    ASSUME Numbers, NEW names, NamesLaid(buf, names), NEW p, p \in DOMAIN names
    PROVE  NameEnds(names, p) \/ NamePoints(names, p) \/ NameGoesOn(names, p)
<1>1. p \in Nat /\ Has(p, 1) /\ get(p) \in 0..255
  BY NamePlaces DEF Named
<1>2. PICK n \in Nat : n = Len(buf)
  BY DEF Numbers, Bytes
<1>3. PICK b, to, on : /\ b = buf[p + 1] /\ to = u16(b, buf[p + 2]) - 192 * 256
                       /\ on = p + 1 + b
  OBVIOUS
<1>4. b \in 0..255 /\ b = get(p)
  BY <1>1, <1>3 DEF get
<1>5. p + 1 + 1 = p + 2
  BY <1>1
<1>6. to = u16_at(p) - 192 * 256
  BY <1>3, <1>4, <1>5, SMTT(30) DEF u16_at, get
<1>7. \A q \in DOMAIN names : names[q] \in Names /\ q \in 0..(n - 1)
  BY <1>2, Zenon DEF NamesLaid
<1>8. \/ b = 0 /\ names[p] = [NoName EXCEPT !.after = p + 1]
      \/ /\ b >= 192 /\ p + 2 <= n /\ to \in DOMAIN names
         /\ names[p] = [names[to] EXCEPT !.jumps = @ + 1, !.after = p + 2]
      \/ /\ b \in 1..63 /\ on \in DOMAIN names
         /\ names[p] = [names[on] EXCEPT !.text = Joined(LossyLower(SubSeq(buf, p + 2, on)), @)]
  <2>1. \/ buf[p + 1] = 0 /\ names[p] = [NoName EXCEPT !.after = p + 1]
        \/ /\ buf[p + 1] >= 192 /\ p + 2 <= Len(buf)
           /\ u16(buf[p + 1], buf[p + 2]) - 192 * 256 \in DOMAIN names
           /\ names[p] = [names[u16(buf[p + 1], buf[p + 2]) - 192 * 256]
                              EXCEPT !.jumps = @ + 1, !.after = p + 2]
        \/ /\ buf[p + 1] \in 1..63 /\ p + 1 + buf[p + 1] \in DOMAIN names
           /\ names[p] = [names[p + 1 + buf[p + 1]]
                  EXCEPT !.text = Joined(LossyLower(SubSeq(buf, p + 2, p + 1 + buf[p + 1])), @)]
    BY ZenonT(40) DEF NamesLaid
  <2> QED  BY <1>2, <1>3, <2>1, ZenonT(40)
<1>9. CASE b = 0 /\ names[p] = [NoName EXCEPT !.after = p + 1]
  <2>1. NameEnds(names, p)
    BY <1>4, <1>9 DEF NoName, NameEnds
  <2> QED  BY <2>1
<1>10. CASE /\ b >= 192 /\ p + 2 <= n /\ to \in DOMAIN names
            /\ names[p] = [names[to] EXCEPT !.jumps = @ + 1, !.after = p + 2]
  <2>1. PICK x \in Names : x = names[to]
    BY <1>7, <1>10
  <2>2. names[p] = [x EXCEPT !.jumps = x.jumps + 1, !.after = p + 2]
    BY <1>10, <2>1
  <2>3. names[p].text = x.text /\ names[p].jumps = x.jumps + 1 /\ names[p].after = p + 2
    BY <2>2 DEF Names
  <2>4. Has(p, 2)
    BY <1>2, <1>10 DEF Has
  <2>5. NamePoints(names, p)
    BY <1>4, <1>6, <1>10, <2>1, <2>3, <2>4 DEF NamePoints
  <2> QED  BY <2>5
<1>11. CASE /\ b \in 1..63 /\ on \in DOMAIN names
            /\ names[p] = [names[on] EXCEPT !.text = Joined(LossyLower(SubSeq(buf, p + 2, on)), @)]
  <2>1. PICK x \in Names : x = names[on]
    BY <1>7, <1>11
  <2>2. PICK label : label = SubSeq(buf, p + 2, on)
    OBVIOUS
  <2>3. names[p] = [x EXCEPT !.text = Joined(LossyLower(label), x.text)]
    BY <1>11, <2>1, <2>2
  <2>4. names[p].text = Joined(LossyLower(label), x.text) /\ names[p].jumps = x.jumps
        /\ names[p].after = x.after
    BY <2>3 DEF Names
  <2>5. on \in 0..(n - 1) /\ on = p + 1 + b
    BY <1>3, <1>7, <1>11
  <2>6. Has(p + 1, get(p))
    BY <1>1, <1>2, <1>4, <2>5 DEF Has
  <2>7. get_range(p + 1, get(p)) = label
    BY <1>3, <1>4, <1>5, <2>2 DEF get_range
  <2>8. label \in Bytes /\ label # << >>
    <3>1. buf \in Seq(Byte)
      BY DEF Numbers, Bytes
    <3>2. p + 2 \in 1..n /\ on \in 1..n /\ p + 2 <= on
      BY <1>1, <1>4, <1>11, <2>5
    <3>3. label \in Seq(Byte) /\ Len(label) = on - (p + 2) + 1
      BY <1>2, <2>2, <3>1, <3>2
    <3>4. Len(label) >= 1
      BY <1>1, <3>2, <3>3
    <3> QED  BY <3>3, <3>4, EmptySeq DEF Bytes
  <2>9. NameGoesOn(names, p)
    BY <1>3, <1>4, <1>11, <2>1, <2>4, <2>6, <2>7, <2>8 DEF NameGoesOn
  <2> QED  BY <2>9
<1> QED  BY <1>8, <1>9, <1>10, <1>11

\* A name is read as far as the pieces behind walk.at are missing.
InName(names) ==
    /\ walk.from \in DOMAIN names /\ walk.at \in DOMAIN names
    /\ Joined(walk.text, names[walk.at].text) = names[walk.from].text
    /\ walk.jumps + names[walk.at].jumps = names[walk.from].jumps
    /\ names[walk.from].after = IF walk.jumped THEN pos ELSE names[walk.at].after

LEMMA NameBegins ==
    ASSUME Numbers, NEW names, NamesLaid(buf, names), NEW p, p \in DOMAIN names, walk' = WalkFrom(p)
    PROVE  InName(names)' /\ walk'.from = p
<1>1. names[p].text \in Bytes /\ names[p].jumps \in 0..5
  BY NamePlaces DEF Named, max_jumps
<1>2. /\ walk'.from = p /\ walk'.at = p /\ walk'.text = << >> /\ walk'.jumps = 0
      /\ walk'.jumped = FALSE
  BY DEF WalkFrom
<1>3. Joined(<< >>, names[p].text) = names[p].text
  BY <1>1, JoinedWithNothing
<1>4. 0 + names[p].jumps = names[p].jumps
  BY <1>1
<1> QED  BY <1>2, <1>3, <1>4 DEF InName

\* What a step of a walk looks at.
LEMMA InsideName ==
    ASSUME Numbers, Reads, NEW names, NamesLaid(buf, names), InName(names)
    PROVE  /\ Named(names, walk.at) /\ Named(names, walk.from) /\ ~TooMany(walk.jumps)
           /\ walk.text \in Bytes /\ walk.jumps \in 0..5
<1>1. Named(names, walk.at) /\ Named(names, walk.from)
  BY NamePlaces DEF InName
<1>2. walk.jumps \in 0..6 /\ walk.text \in Bytes
  BY SMTT(30) DEF Numbers, Reads, Texts, max_jumps
<1>3. PICK i \in 0..5, j \in 0..5 : i = names[walk.at].jumps /\ j = names[walk.from].jumps
  BY <1>1 DEF Named, max_jumps
<1>4. walk.jumps + i = j
  BY <1>3 DEF InName
<1>5. walk.jumps <= 5
  BY <1>2, <1>3, <1>4
<1> QED  BY <1>1, <1>2, <1>5 DEF TooMany, max_jumps

LEMMA PointerInName ==
    ASSUME Numbers, Reads, NEW names, NamesLaid(buf, names), InName(names), FollowPointer
    PROVE  InName(names)' /\ walk'.from = walk.from
<1>1. /\ get(walk.at) >= 192
      /\ walk' = [walk EXCEPT !.at = Offset, !.jumped = TRUE, !.jumps = @ + 1, !.turns = @ + 1]
      /\ pos' = Seek
  BY DEF FollowPointer, IsPointer
<1>2. NamePoints(names, walk.at)
  <2>1. walk.at \in DOMAIN names
    BY DEF InName
  <2>2. NameEnds(names, walk.at) \/ NamePoints(names, walk.at) \/ NameGoesOn(names, walk.at)
    BY <2>1, NameCases, Zenon
  <2>3. PICK b : b = get(walk.at)
    OBVIOUS
  <2>4. ~NameEnds(names, walk.at)
    BY <1>1, <2>3 DEF NameEnds
  <2>5. NameGoesOn(names, walk.at) => b \in 1..63
    BY <2>3 DEF NameGoesOn
  <2>6. ~NameGoesOn(names, walk.at)
    BY <1>1, <2>3, <2>5
  <2> QED  BY <2>2, <2>4, <2>6, Zenon
<1>3. PICK at, to, from : at = walk.at /\ to = Offset /\ from = walk.from
  OBVIOUS
<1>4. /\ to \in DOMAIN names /\ names[at].text = names[to].text
      /\ names[at].jumps = names[to].jumps + 1 /\ names[at].after = at + 2
  BY <1>2, <1>3 DEF NamePoints, Offset
<1>5. /\ walk'.from = from /\ walk'.at = to /\ walk'.text = walk.text
      /\ walk'.jumps = walk.jumps + 1 /\ walk'.jumped = TRUE
  BY <1>1, <1>3 DEF Numbers
<1>6. pos' = IF walk.jumped THEN pos ELSE at + 2
  BY <1>1, <1>3 DEF Seek
<1>7. PICK k \in 0..5, j \in 0..5 : k = names[to].jumps /\ j = walk.jumps
  BY <1>4, InsideName, NamePlaces DEF Named, max_jumps
<1>8. (j + 1) + k = j + (k + 1)
  OBVIOUS
<1>9. walk'.jumps + names[to].jumps = names[from].jumps
  BY <1>3, <1>4, <1>5, <1>7, <1>8 DEF InName
<1>10. names[from].after = pos'
  BY <1>3, <1>4, <1>6 DEF InName
<1> QED  BY <1>3, <1>4, <1>5, <1>9, <1>10 DEF InName

LEMMA LabelInName ==
    ASSUME Numbers, Reads, NEW names, NamesLaid(buf, names), InName(names), ReadLabel
    PROVE  InName(names)' /\ walk'.from = walk.from
<1>1. PICK at, len, on, from : at = walk.at /\ len = get(at) /\ on = at + 1 + len /\ from = walk.from
  OBVIOUS
<1>2. PICK text, label, delim :
        /\ text = walk.text /\ label = LossyLower(get_range(at + 1, len))
        /\ delim = IF text = << >> THEN << >> ELSE <<Dot>>
  OBVIOUS
<1>3. /\ ~(len >= 192) /\ len # 0 /\ pos' = pos
      /\ walk' = [walk EXCEPT !.text = (text \o delim) \o label, !.at = on, !.turns = @ + 1]
  BY <1>1, <1>2 DEF ReadLabel, IsPointer
<1>4. NameGoesOn(names, at)
  BY <1>1, <1>3, NameCases DEF InName, NameEnds, NamePoints
<1>5. /\ on \in DOMAIN names /\ get_range(at + 1, len) \in Bytes /\ get_range(at + 1, len) # << >>
      /\ names[at].text = Joined(label, names[on].text)
      /\ names[at].jumps = names[on].jumps /\ names[at].after = names[on].after
  BY <1>1, <1>2, <1>4 DEF NameGoesOn
<1>6. label \in Bytes /\ label # << >>
  BY <1>2, <1>5, LossyType, LossyNotEmpty
<1>7. names[on].text \in Bytes
  BY <1>5, NamePlaces DEF Named
<1>8. text \in Bytes
  BY <1>2, InsideName
<1>9. Joined((text \o delim) \o label, names[on].text) = Joined(text, Joined(label, names[on].text))
  BY <1>2, <1>6, <1>7, <1>8, JoinedLabel
<1>10. /\ walk'.from = from /\ walk'.at = on /\ walk'.text = (text \o delim) \o label
       /\ walk'.jumps = walk.jumps /\ walk'.jumped = walk.jumped
  BY <1>1, <1>3 DEF Numbers
<1>11. Joined(walk'.text, names[on].text) = names[from].text
  BY <1>1, <1>2, <1>5, <1>9, <1>10 DEF InName
<1>12. walk'.jumps + names[on].jumps = names[from].jumps
  BY <1>1, <1>5, <1>10 DEF InName
<1>13. names[from].after = IF walk'.jumped THEN pos' ELSE names[on].after
  BY <1>1, <1>3, <1>5, <1>10 DEF InName
<1> QED  BY <1>1, <1>5, <1>10, <1>11, <1>12, <1>13 DEF InName

LEMMA NameIsRead ==
    ASSUME Numbers, Reads, NEW names, NamesLaid(buf, names), InName(names), EndOfName
    PROVE  /\ walk'.from = walk.from /\ walk'.text = names[walk.from].text
           /\ pos' = names[walk.from].after
<1>1. PICK at, from : at = walk.at /\ from = walk.from
  OBVIOUS
<1>2. /\ get(at) = 0 /\ walk' = [walk EXCEPT !.turns = @ + 1]
      /\ pos' = IF walk.jumped THEN pos ELSE at + 1
  BY <1>1 DEF EndOfName
<1>3. NameEnds(names, at)
  <2>1. at \in DOMAIN names
    BY <1>1 DEF InName
  <2>2. NameEnds(names, at) \/ NamePoints(names, at) \/ NameGoesOn(names, at)
    BY <2>1, NameCases, Zenon
  <2>3. NamePoints(names, at) => get(at) >= 192
    BY DEF NamePoints
  <2>4. NameGoesOn(names, at) => get(at) \in 1..63
    BY DEF NameGoesOn
  <2>5. PICK b : b = get(at)
    OBVIOUS
  <2> QED  BY <1>2, <2>2, <2>3, <2>4, <2>5
<1>4. names[at].text = << >> /\ names[at].after = at + 1
  BY <1>3 DEF NameEnds
<1>5. walk'.from = from /\ walk'.text = walk.text
  BY <1>1, <1>2 DEF Numbers
<1>6. Joined(walk.text, << >>) = walk.text
  BY InsideName, JoinedWithNothing
<1> QED  BY <1>1, <1>2, <1>4, <1>5, <1>6 DEF InName

LEMMA NameDoesNotFail ==
    ASSUME Numbers, Reads, NEW names, NamesLaid(buf, names), InName(names)
    PROVE  ~WalkFails
<1>1. PICK at : at = walk.at
  OBVIOUS
<1>2. Walking => AtByte
  BY InsideName DEF AtByte, Named
<1>3. ~(get(at) >= 192 /\ ~Has(at, 2))
  <2>1. at \in DOMAIN names
    BY <1>1 DEF InName
  <2>2. NameEnds(names, at) \/ NamePoints(names, at) \/ NameGoesOn(names, at)
    BY <2>1, NameCases, Zenon
  <2>3. NamePoints(names, at) => Has(at, 2)
    BY DEF NamePoints
  <2>4. NameGoesOn(names, at) => get(at) \in 1..63
    BY DEF NameGoesOn
  <2>5. NameEnds(names, at) => get(at) = 0
    BY DEF NameEnds
  <2>6. PICK b : b = get(at)
    OBVIOUS
  <2> QED  BY <2>2, <2>3, <2>4, <2>5, <2>6
<1>4. ~(~(get(at) >= 192) /\ ~Has(at + 1, get(at)))
  <2>1. CASE NameEnds(names, at)
    <3>1. Has(at, 1) /\ at \in Nat /\ Len(buf) \in Nat
      BY <1>1, InsideName DEF Named, Numbers, Bytes
    <3>2. Has(at + 1, 0)
      BY <3>1 DEF Has
    <3> QED  BY <2>1, <3>2 DEF NameEnds
  <2>2. CASE NamePoints(names, at)
    BY <2>2 DEF NamePoints
  <2>3. CASE NameGoesOn(names, at)
    BY <2>3 DEF NameGoesOn
  <2> QED  BY <1>1, <2>1, <2>2, <2>3, NameCases DEF InName
<1> QED  BY <1>1, <1>2, <1>3, <1>4 DEF WalkFails, IsPointer

-----------------------------------------------------------------------------
(* How far a packet is read, and which of its entries is due.              *)

\* p is a packet whose header counts its entries.
Announced(p) ==
    /\ p \in Packet
    /\ p.header.questions = Len(p.questions) /\ p.header.answers = Len(p.answers)
    /\ p.header.authoritative_entries = Len(p.authorities)
    /\ p.header.resource_entries = Len(p.resources)

\* What is read so far is the beginning of packet p.
PartOf(p) ==
    /\ packet = [header |-> p.header, questions |-> packet.questions, answers |-> packet.answers,
                 authorities |-> packet.authorities, resources |-> packet.resources]
    /\ Begins(packet.questions, p.questions) /\ Begins(packet.answers, p.answers)
    /\ Begins(packet.authorities, p.authorities) /\ Begins(packet.resources, p.resources)
    /\ packet.answers # << >> => packet.questions = p.questions
    /\ packet.authorities # << >> =>
          packet.questions = p.questions /\ packet.answers = p.answers
    /\ packet.resources # << >> =>
          /\ packet.questions = p.questions /\ packet.answers = p.answers
          /\ packet.authorities = p.authorities

\* The entry that is read next, its number and which it is.
Due == Len(packet.questions) + Len(packet.answers) + Len(packet.authorities)
         + Len(packet.resources) + 1
Current(p) == p[Section][Len(packet[Section]) + 1]

Stage(p) ==
    \/ /\ Section = "questions" /\ Len(packet.questions) < Len(p.questions)
       /\ packet.answers = << >> /\ packet.authorities = << >> /\ packet.resources = << >>
    \/ /\ Section = "answers" /\ Len(packet.answers) < Len(p.answers)
       /\ packet.questions = p.questions /\ packet.authorities = << >> /\ packet.resources = << >>
    \/ /\ Section = "authorities" /\ Len(packet.authorities) < Len(p.authorities)
       /\ packet.questions = p.questions /\ packet.answers = p.answers
       /\ packet.resources = << >>
    \/ /\ Section = "resources" /\ Len(packet.resources) < Len(p.resources)
       /\ packet.questions = p.questions /\ packet.answers = p.answers
       /\ packet.authorities = p.authorities
    \/ Section = "none" /\ packet = p

LEMMA PacketLists ==
    ASSUME NEW p \in Packet
    PROVE  /\ p = [header |-> p.header, questions |-> p.questions, answers |-> p.answers,
                   authorities |-> p.authorities, resources |-> p.resources]
           /\ p.questions \in Seq(Question) /\ p.answers \in Seq(Record)
           /\ p.authorities \in Seq(Record) /\ p.resources \in Seq(Record)
           /\ Len(p.questions) \in Nat /\ Len(p.answers) \in Nat
           /\ Len(p.authorities) \in Nat /\ Len(p.resources) \in Nat
<1>1. /\ p = [header |-> p.header, questions |-> p.questions, answers |-> p.answers,
              authorities |-> p.authorities, resources |-> p.resources]
      /\ p.questions \in Seq(Question) /\ p.answers \in Seq(Record)
      /\ p.authorities \in Seq(Record) /\ p.resources \in Seq(Record)
  BY DEF Packet
<1> QED  BY <1>1

LEMMA Situation ==
    ASSUME NEW p, Announced(p), PartOf(p)
    PROVE  Stage(p)
<1>1. PICK q, n, t, r : /\ q = p.questions /\ n = p.answers /\ t = p.authorities /\ r = p.resources
                        /\ q \in Seq(Question) /\ n \in Seq(Record) /\ t \in Seq(Record)
                        /\ r \in Seq(Record)
  BY PacketLists DEF Announced
<1>2. /\ Len(packet.questions) \in Nat /\ (~(Len(packet.questions) < Len(q)) => packet.questions = q)
      /\ Len(packet.answers) \in Nat /\ (~(Len(packet.answers) < Len(n)) => packet.answers = n)
  BY <1>1, BeginsAll DEF PartOf
<1>3. /\ Len(packet.authorities) \in Nat
      /\ (~(Len(packet.authorities) < Len(t)) => packet.authorities = t)
      /\ Len(packet.resources) \in Nat /\ (~(Len(packet.resources) < Len(r)) => packet.resources = r)
  BY <1>1, BeginsAll DEF PartOf
<1>4. /\ packet.header = p.header
      /\ packet.header.questions = Len(q) /\ packet.header.answers = Len(n)
      /\ packet.header.authoritative_entries = Len(t) /\ packet.header.resource_entries = Len(r)
  <2>1. packet.header = p.header
    BY DEF PartOf
  <2> QED  BY <1>1, <2>1 DEF Announced
<1>5. PICK lq, ln, lt, lr : /\ lq = Len(q) /\ ln = Len(n) /\ lt = Len(t) /\ lr = Len(r)
                            /\ lq \in Nat /\ ln \in Nat /\ lt \in Nat /\ lr \in Nat
  BY <1>1, PacketLists DEF Announced
<1>6. CASE Len(packet.questions) < lq
  <2>1. Section = "questions"
    BY <1>4, <1>5, <1>6 DEF Section
  <2>2. packet.questions # p.questions
    BY <1>1, <1>2, <1>5, <1>6
  <2> QED  BY <1>1, <1>5, <1>6, <2>1, <2>2 DEF PartOf, Stage
<1>7. CASE ~(Len(packet.questions) < lq) /\ Len(packet.answers) < ln
  <2>1. Section = "answers"
    BY <1>4, <1>5, <1>7 DEF Section
  <2>2. packet.questions = p.questions /\ packet.answers # p.answers
    BY <1>1, <1>2, <1>5, <1>7
  <2> QED  BY <1>1, <1>5, <1>7, <2>1, <2>2 DEF PartOf, Stage
<1>8. CASE /\ ~(Len(packet.questions) < lq) /\ ~(Len(packet.answers) < ln)
           /\ Len(packet.authorities) < lt
  <2>1. Section = "authorities"
    BY <1>4, <1>5, <1>8 DEF Section
  <2>2. /\ packet.questions = p.questions /\ packet.answers = p.answers
        /\ packet.authorities # p.authorities
    BY <1>1, <1>2, <1>3, <1>5, <1>8
  <2> QED  BY <1>1, <1>5, <1>8, <2>1, <2>2 DEF PartOf, Stage
<1>9. CASE /\ ~(Len(packet.questions) < lq) /\ ~(Len(packet.answers) < ln)
           /\ ~(Len(packet.authorities) < lt)
  <2>1. /\ packet.questions = p.questions /\ packet.answers = p.answers
        /\ packet.authorities = p.authorities
    BY <1>1, <1>2, <1>3, <1>5, <1>9
  <2>2. CASE Len(packet.resources) < lr
    <3>1. Section = "resources"
      BY <1>4, <1>5, <1>9, <2>2 DEF Section
    <3> QED  BY <1>1, <1>5, <2>1, <2>2, <3>1 DEF Stage
  <2>3. CASE ~(Len(packet.resources) < lr)
    <3>1. Section = "none"
      BY <1>4, <1>5, <1>9, <2>3 DEF Section
    <3>2. packet.resources = p.resources
      BY <1>1, <1>3, <1>5, <2>3
    <3>3. packet = [header |-> p.header, questions |-> p.questions, answers |-> p.answers,
                    authorities |-> p.authorities, resources |-> p.resources]
      BY <2>1, <3>2 DEF PartOf
    <3>4. packet = p
      BY <3>3, PacketLists DEF Announced
    <3> QED  BY <3>1, <3>4 DEF Stage
  <2> QED  BY <2>2, <2>3
<1> QED  BY <1>6, <1>7, <1>8, <1>9

InARow(rs, a, b, c) ==
    /\ Len(rs) = Len(a) + Len(b) + Len(c)
    /\ \A i \in 1..Len(a) : rs[i] = a[i]
    /\ \A i \in 1..Len(b) : rs[Len(a) + i] = b[i]
    /\ \A i \in 1..Len(c) : rs[Len(a) + Len(b) + i] = c[i]

LEMMA RecordsInARow ==
    ASSUME NEW S, NEW a, a \in Seq(S), NEW b, b \in Seq(S), NEW c, c \in Seq(S),
           NEW rs, rs = a \o b \o c
    PROVE  InARow(rs, a, b, c)
<1>1. PICK l \in Nat, m \in Nat, n \in Nat : l = Len(a) /\ m = Len(b) /\ n = Len(c)
  OBVIOUS
<1>2. PICK w : w = a \o b
  OBVIOUS
<1>3. w \in Seq(S) /\ Len(w) = l + m /\ Opens(a, w) /\ Holds(w, l, b)
  <2>1. Behind(w, a, b, S)
    BY <1>2, Concatenated, Zenon
  <2> QED  BY <1>1, <2>1 DEF Behind
<1>4. rs \in Seq(S) /\ Len(rs) = (l + m) + n /\ Opens(w, rs) /\ Holds(rs, l + m, c)
  <2>1. Behind(rs, w, c, S)
    BY <1>2, <1>3, Concatenated, Zenon
  <2> QED  BY <1>1, <1>3, <2>1 DEF Behind
<1>5. \A i \in 1..l : rs[i] = a[i]
  <2>1. \A i \in 1..l : i \in 1..(l + m)
    OBVIOUS
  <2> QED  BY <1>1, <1>3, <1>4, <2>1 DEF Opens
<1>6. \A i \in 1..m : rs[l + i] = b[i]
  <2>1. \A i \in 1..m : l + i \in 1..(l + m)
    OBVIOUS
  <2> QED  BY <1>1, <1>3, <1>4, <2>1 DEF Opens, Holds
<1>7. \A i \in 1..n : rs[l + m + i] = c[i]
  BY <1>1, <1>4 DEF Holds
<1> QED  BY <1>1, <1>4, <1>5, <1>6, <1>7 DEF InARow

\* The places of n questions and m records.
Entries(p, plan, n, m) ==
    /\ n = Len(p.questions) /\ m = Len(Records(p))
    /\ \A i \in 1..(n + m + 1) : plan.at[i] \in 12..Len(buf)
    /\ plan.at[1] = 12
    /\ \A i \in 1..n : QuestionLaid(buf, plan, plan.at[i], plan.at[i + 1], p.questions[i])
    /\ \A i \in 1..m : RecordLaid(buf, plan, plan.at[n + i], plan.at[n + i + 1], Records(p)[i])

LEMMA LaidEntries ==
    ASSUME NEW p, NEW plan, Laid(buf, p, plan)
    PROVE  /\ Announced(p) /\ NamesLaid(buf, plan.names) /\ StringsLaid(buf, plan.strings)
           /\ Entries(p, plan, Len(p.questions), Len(Records(p)))
<1>1. Announced(p) /\ NamesLaid(buf, plan.names) /\ StringsLaid(buf, plan.strings)
  BY DEF Laid, Announced
<1>2. PICK n, rs, m : n = Len(p.questions) /\ rs = Records(p) /\ m = Len(rs)
  OBVIOUS
<1>3. /\ plan.at \in [1..(n + m + 1) -> 12..Len(buf)] /\ plan.at[1] = 12
      /\ \A i \in 1..n : QuestionLaid(buf, plan, plan.at[i], plan.at[i + 1], p.questions[i])
      /\ \A i \in 1..m : RecordLaid(buf, plan, plan.at[n + i], plan.at[n + i + 1], rs[i])
  BY <1>2, Zenon DEF Laid
<1> QED  BY <1>1, <1>2, <1>3 DEF Entries

\* Where the entry that is due is.
DueQuestion(p, plan) ==
    /\ Current(p) \in Question
    /\ QuestionLaid(buf, plan, plan.at[Due], plan.at[Due + 1], Current(p))

DueRecord(p, plan) ==
    /\ Current(p) \in Record
    /\ RecordLaid(buf, plan, plan.at[Due], plan.at[Due + 1], Current(p))

LEMMA DueEntry ==
    ASSUME NEW p, NEW plan, Laid(buf, p, plan), PartOf(p), Section # "none"
    PROVE  /\ plan.at[Due] \in 12..Len(buf) /\ plan.at[Due + 1] \in 12..Len(buf)
           /\ Section \in {"questions", "answers", "authorities", "resources"}
           /\ IF Section = "questions" THEN DueQuestion(p, plan) ELSE DueRecord(p, plan)
<1>1. PICK n, m : n = Len(p.questions) /\ m = Len(Records(p))
  OBVIOUS
<1>2. Announced(p) /\ Entries(p, plan, n, m)
  BY <1>1, LaidEntries
<1>3. p \in Packet
  BY <1>2 DEF Announced
<1>4. PICK a, b, c : /\ a = p.answers /\ b = p.authorities /\ c = p.resources
                     /\ a \in Seq(Record) /\ b \in Seq(Record) /\ c \in Seq(Record)
  BY <1>3, PacketLists
<1>5. PICK x, y, z, rs : x = Len(a) /\ y = Len(b) /\ z = Len(c) /\ rs = Records(p)
  OBVIOUS
<1>6. x \in Nat /\ y \in Nat /\ z \in Nat /\ n \in Nat
  BY <1>1, <1>3, <1>4, <1>5, PacketLists
<1>7. InARow(rs, a, b, c)
  BY <1>4, <1>5, RecordsInARow DEF Records
<1>8. /\ m = x + y + z
      /\ \A i \in 1..x : rs[i] = a[i]
      /\ \A i \in 1..y : rs[x + i] = b[i]
      /\ \A i \in 1..z : rs[x + y + i] = c[i]
  BY <1>1, <1>5, <1>7 DEF InARow
<1>9. Len(<< >>) = 0
  OBVIOUS
<1>10. Stage(p)
  BY <1>2, Situation
<1>q. \A i \in 1..(n + m + 1) : plan.at[i] \in 12..Len(buf)
  BY <1>2 DEF Entries
<1>r. ASSUME NEW i \in 1..m, Due = n + i, Current(p) = rs[i], Current(p) \in Record,
             Section \in {"answers", "authorities", "resources"}
      PROVE  /\ plan.at[Due] \in 12..Len(buf) /\ plan.at[Due + 1] \in 12..Len(buf)
             /\ DueRecord(p, plan)
  <2>1. n + i \in 1..(n + m + 1) /\ n + i + 1 \in 1..(n + m + 1) /\ m \in Nat
    BY <1>6, <1>8
  <2>2. plan.at[n + i] \in 12..Len(buf) /\ plan.at[n + i + 1] \in 12..Len(buf)
    BY <1>q, <2>1
  <2>3. RecordLaid(buf, plan, plan.at[n + i], plan.at[n + i + 1], rs[i])
    BY <1>2, <1>5 DEF Entries
  <2> QED  BY <1>r, <2>2, <2>3 DEF DueRecord
<1>11. CASE Section = "questions"
  <2>1. PICK k : k = Len(packet.questions)
    OBVIOUS
  <2>2. k \in Nat /\ k < n /\ Begins(packet.questions, p.questions)
    <3>1. Begins(packet.questions, p.questions) /\ p.questions \in Seq(Question)
      BY <1>3, PacketLists DEF PartOf
    <3>2. k \in Nat
      BY <2>1, <3>1, BeginsAll
    <3>3. k < n
      BY <1>1, <1>10, <1>11, <2>1 DEF Stage
    <3> QED  BY <3>1, <3>2, <3>3
  <2>3. Due = k + 0 + 0 + 0 + 1
    BY <1>9, <1>10, <1>11, <2>1 DEF Due, Stage
  <2>4. Due = k + 1 /\ Due + 1 = k + 1 + 1 /\ k + 1 \in 1..n /\ m \in Nat
    BY <1>6, <1>8, <2>2, <2>3
  <2>5. k + 1 \in 1..(n + m + 1) /\ k + 1 + 1 \in 1..(n + m + 1)
    BY <1>6, <2>2, <2>4
  <2>6. Current(p) = p.questions[k + 1]
    BY <1>11, <2>1 DEF Current
  <2>7. Current(p) \in Question
    <3>1. p.questions \in Seq(Question)
      BY <1>3, PacketLists
    <3> QED  BY <1>1, <2>4, <2>6, <3>1, ElementOfSeq
  <2>8. QuestionLaid(buf, plan, plan.at[k + 1], plan.at[k + 1 + 1], p.questions[k + 1])
    BY <1>2, <2>4 DEF Entries
  <2>9. plan.at[Due] \in 12..Len(buf) /\ plan.at[Due + 1] \in 12..Len(buf)
    BY <1>q, <2>4, <2>5
  <2> QED  BY <1>11, <2>4, <2>6, <2>7, <2>8, <2>9 DEF DueQuestion
<1>12. CASE Section = "answers"
  <2>1. PICK k : k = Len(packet.answers)
    OBVIOUS
  <2>2. k \in Nat
    BY <1>4, <2>1, BeginsAll DEF PartOf
  <2>3. k < x /\ Due = n + k + 0 + 0 + 1
    BY <1>1, <1>4, <1>5, <1>9, <1>10, <1>12, <2>1 DEF Due, Stage
  <2>4. k + 1 \in 1..x /\ k + 1 \in 1..m /\ Due = n + (k + 1)
    BY <1>6, <1>8, <2>2, <2>3
  <2>5. Current(p) = a[k + 1]
    BY <1>4, <1>12, <2>1 DEF Current
  <2>6. Current(p) = rs[k + 1] /\ Current(p) \in Record
    BY <1>4, <1>5, <1>8, <2>4, <2>5, ElementOfSeq
  <2> QED  BY <1>12, <1>r, <2>4, <2>6
<1>13. CASE Section = "authorities"
  <2>1. PICK k : k = Len(packet.authorities)
    OBVIOUS
  <2>2. k \in Nat
    BY <1>4, <2>1, BeginsAll DEF PartOf
  <2>3. k < y /\ Due = n + x + k + 0 + 1
    BY <1>1, <1>4, <1>5, <1>9, <1>10, <1>13, <2>1 DEF Due, Stage
  <2>4. k + 1 \in 1..y /\ x + (k + 1) \in 1..m /\ Due = n + (x + (k + 1))
    BY <1>6, <1>8, <2>2, <2>3
  <2>5. Current(p) = b[k + 1]
    BY <1>4, <1>13, <2>1 DEF Current
  <2>6. Current(p) = rs[x + (k + 1)] /\ Current(p) \in Record
    BY <1>4, <1>5, <1>8, <2>4, <2>5, ElementOfSeq
  <2> QED  BY <1>13, <1>r, <2>4, <2>6
<1>14. CASE Section = "resources"
  <2>1. PICK k : k = Len(packet.resources)
    OBVIOUS
  <2>2. k \in Nat
    BY <1>4, <2>1, BeginsAll DEF PartOf
  <2>3. k < z /\ Due = n + x + y + k + 1
    BY <1>1, <1>4, <1>5, <1>10, <1>14, <2>1 DEF Due, Stage
  <2>4. k + 1 \in 1..z /\ x + y + (k + 1) \in 1..m /\ Due = n + (x + y + (k + 1))
    BY <1>6, <1>8, <2>2, <2>3
  <2>5. Current(p) = c[k + 1]
    BY <1>4, <1>14, <2>1 DEF Current
  <2>6. Current(p) = rs[x + y + (k + 1)] /\ Current(p) \in Record
    <3>1. c[k + 1] \in Record
      BY <1>4, <1>5, <2>4, ElementOfSeq
    <3>2. rs[x + y + (k + 1)] = c[k + 1]
      BY <1>8, <2>4
    <3> QED  BY <2>5, <3>1, <3>2
  <2> QED  BY <1>14, <1>r, <2>4, <2>6
<1> QED  BY <1>10, <1>11, <1>12, <1>13, <1>14 DEF Stage

LEMMA KeptPart ==
    ASSUME NEW p, Announced(p), PartOf(p), Section # "none", KeepEntry(Current(p))
    PROVE  PartOf(p)' /\ Due' = Due + 1
<1>1. p \in Packet
  BY DEF Announced
<1>2. PICK q, a, b, c : /\ q = p.questions /\ a = p.answers /\ b = p.authorities /\ c = p.resources
                        /\ q \in Seq(Question) /\ a \in Seq(Record)
                        /\ b \in Seq(Record) /\ c \in Seq(Record)
  BY <1>1, PacketLists
<1>3. PICK s, t, u, v : /\ s = packet.questions /\ t = packet.answers
                        /\ u = packet.authorities /\ v = packet.resources
  OBVIOUS
<1>4. Begins(s, q) /\ Begins(t, a) /\ Begins(u, b) /\ Begins(v, c)
  BY <1>2, <1>3 DEF PartOf
<1>5. Len(s) \in Nat /\ Len(t) \in Nat /\ Len(u) \in Nat /\ Len(v) \in Nat
  BY <1>2, <1>4, BeginsAll
<1>6. packet = [header |-> p.header, questions |-> s, answers |-> t, authorities |-> u, resources |-> v]
  BY <1>3 DEF PartOf
<1>7. PICK e : e = Current(p)
  OBVIOUS
<1>8. packet' = [packet EXCEPT ![Section] = Append(packet[Section], e)]
  BY <1>7 DEF KeepEntry
<1>9. Stage(p)
  BY Situation
<1>d. Due = Len(s) + Len(t) + Len(u) + Len(v) + 1
  BY <1>3 DEF Due
<1>10. CASE Section = "questions"
  <2>1. e = q[Len(s) + 1] /\ Len(s) < Len(q) /\ t = << >> /\ u = << >> /\ v = << >>
    BY <1>2, <1>3, <1>7, <1>9, <1>10 DEF Current, Stage
  <2>2. PICK w : w = Append(s, e)
    OBVIOUS
  <2>3. Begins(w, q) /\ Len(w) = Len(s) + 1
    BY <1>2, <1>4, <2>1, <2>2, BeginsMore
  <2>4. packet' = [header |-> p.header, questions |-> w, answers |-> t, authorities |-> u, resources |-> v]
    <3>1. Append(packet[Section], e) = w
      BY <1>3, <1>10, <2>2
    <3>2. packet' = [packet EXCEPT !.questions = w]
      BY <1>8, <1>10, <3>1, Zenon
    <3> QED  BY <1>6, <3>2
  <2>5. PartOf(p)'
    BY <1>2, <1>4, <2>1, <2>3, <2>4 DEF PartOf
  <2>6. Due' = Len(w) + Len(t) + Len(u) + Len(v) + 1
    BY <2>4 DEF Due
  <2> QED  BY <1>d, <1>5, <2>3, <2>5, <2>6
<1>11. CASE Section = "answers"
  <2>1. e = a[Len(t) + 1] /\ Len(t) < Len(a) /\ s = q /\ u = << >> /\ v = << >>
    BY <1>2, <1>3, <1>7, <1>9, <1>11 DEF Current, Stage
  <2>2. PICK w : w = Append(t, e)
    OBVIOUS
  <2>3. Begins(w, a) /\ Len(w) = Len(t) + 1
    BY <1>2, <1>4, <2>1, <2>2, BeginsMore
  <2>4. packet' = [header |-> p.header, questions |-> s, answers |-> w, authorities |-> u, resources |-> v]
    <3>1. Append(packet[Section], e) = w
      BY <1>3, <1>11, <2>2
    <3>2. packet' = [packet EXCEPT !.answers = w]
      BY <1>8, <1>11, <3>1, Zenon
    <3> QED  BY <1>6, <3>2
  <2>5. PartOf(p)'
    BY <1>2, <1>4, <2>1, <2>3, <2>4 DEF PartOf
  <2>6. Due' = Len(s) + Len(w) + Len(u) + Len(v) + 1
    BY <2>4 DEF Due
  <2> QED  BY <1>d, <1>5, <2>3, <2>5, <2>6
<1>12. CASE Section = "authorities"
  <2>1. e = b[Len(u) + 1] /\ Len(u) < Len(b) /\ s = q /\ t = a /\ v = << >>
    BY <1>2, <1>3, <1>7, <1>9, <1>12 DEF Current, Stage
  <2>2. PICK w : w = Append(u, e)
    OBVIOUS
  <2>3. Begins(w, b) /\ Len(w) = Len(u) + 1
    BY <1>2, <1>4, <2>1, <2>2, BeginsMore
  <2>4. packet' = [header |-> p.header, questions |-> s, answers |-> t, authorities |-> w, resources |-> v]
    <3>1. Append(packet[Section], e) = w
      BY <1>3, <1>12, <2>2
    <3>2. packet' = [packet EXCEPT !.authorities = w]
      BY <1>8, <1>12, <3>1, Zenon
    <3> QED  BY <1>6, <3>2
  <2>5. PartOf(p)'
    BY <1>2, <1>4, <2>1, <2>3, <2>4 DEF PartOf
  <2>6. Due' = Len(s) + Len(t) + Len(w) + Len(v) + 1
    BY <2>4 DEF Due
  <2> QED  BY <1>d, <1>5, <2>3, <2>5, <2>6
<1>13. CASE Section = "resources"
  <2>1. e = c[Len(v) + 1] /\ Len(v) < Len(c) /\ s = q /\ t = a /\ u = b
    BY <1>2, <1>3, <1>7, <1>9, <1>13 DEF Current, Stage
  <2>2. PICK w : w = Append(v, e)
    OBVIOUS
  <2>3. Begins(w, c) /\ Len(w) = Len(v) + 1
    BY <1>2, <1>4, <2>1, <2>2, BeginsMore
  <2>4. packet' = [header |-> p.header, questions |-> s, answers |-> t, authorities |-> u, resources |-> w]
    <3>1. Append(packet[Section], e) = w
      BY <1>3, <1>13, <2>2
    <3>2. packet' = [packet EXCEPT !.resources = w]
      BY <1>8, <1>13, <3>1, Zenon
    <3> QED  BY <1>6, <3>2
  <2>5. PartOf(p)'
    BY <1>2, <1>4, <2>1, <2>3, <2>4 DEF PartOf
  <2>6. Due' = Len(s) + Len(t) + Len(u) + Len(w) + 1
    BY <2>4 DEF Due
  <2> QED  BY <1>d, <1>5, <2>3, <2>5, <2>6
<1> QED  BY <1>9, <1>10, <1>11, <1>12, <1>13 DEF Stage

-----------------------------------------------------------------------------
(* A message that means packet p is read as p.                             *)

\* The fields of record r are read, and its data up to pos or walk.at.
Fields(r, end) ==
    /\ record.domain = r.domain /\ record.type = r.type /\ record.ttl = r.ttl
    /\ record.end = end /\ record.data \in Bytes

AtStrings(r, end, plan) ==
    /\ pos \in DOMAIN plan.strings /\ plan.strings[pos].end = end
    /\ r.data = record.data \o plan.strings[pos].data

AtData(r, end, plan) ==
    end = pos + record.data_len /\ DataLaid(buf, plan, pos, end, r)

AtHost(r, end, plan) ==
    /\ InName(plan.names) /\ plan.names[walk.from].after = end
    /\ r.data = record.data \o plan.names[walk.from].text

BehindHost(r, end) == pos = end /\ r.data = record.data \o walk.text

InData(r, end, plan) ==
    /\ Fields(r, end)
    /\ pc = "data" /\ r.type = TXT => AtStrings(r, end, plan)
    /\ pc = "data" /\ r.type # TXT => AtData(r, end, plan)
    /\ pc = "host" => AtHost(r, end, plan)
    /\ pc = "hosted" => BehindHost(r, end)

AtOwner(plan) == walk.from = plan.at[Due] /\ InName(plan.names)

BehindOwner(plan) ==
    /\ walk.text = plan.names[plan.at[Due]].text
    /\ pos = plan.names[plan.at[Due]].after

\* The parser is where the plan has what it expects.
InStep(p, plan) ==
    /\ pc \in {"header", "entry", "owner", "named", "data", "host", "hosted", "parsed"}
    /\ pc = "header" => packet = NewPacket
    /\ pc # "header" => PartOf(p)
    /\ pc = "entry" => pos = plan.at[Due]
    /\ pc = "owner" => Section # "none" /\ AtOwner(plan)
    /\ pc = "named" => Section # "none" /\ BehindOwner(plan)
    /\ pc \in {"data", "host", "hosted"} =>
          /\ Section \notin {"none", "questions"}
          /\ InData(Current(p), plan.at[Due + 1], plan)
    /\ pc = "parsed" => packet = p

Reading(p, plan) == Numbers /\ Reads /\ Laid(buf, p, plan) /\ InStep(p, plan)

LEMMA SamePacket ==
    ASSUME NEW p, packet' = packet
    PROVE  Section' = Section /\ Due' = Due /\ Current(p)' = Current(p) /\ PartOf(p)' = PartOf(p)
<1>1. Section' = Section
  BY DEF Section
<1>2. Due' = Due
  BY DEF Due
<1>3. Current(p)' = Current(p)
  BY <1>1 DEF Current
<1>4. PartOf(p)' = PartOf(p)
  BY DEF PartOf
<1> QED  BY <1>1, <1>2, <1>3, <1>4

LEMMA HeaderInStep ==
    ASSUME NEW p, NEW plan, Reading(p, plan), ReadHeader
    PROVE  InStep(p, plan)'
<1>1. PICK h : h = [id |-> get_range(0, 2), a |-> get(2), b |-> from_num(get(3)),
                    questions |-> u16_at(4), answers |-> u16_at(6),
                    authoritative_entries |-> u16_at(8), resource_entries |-> u16_at(10)]
  OBVIOUS
<1>2. packet' = [packet EXCEPT !.header = h] /\ pos' = 12 /\ pc' = "entry" /\ packet = NewPacket
  BY <1>1 DEF ReadHeader, Reading, InStep
<1>3. h = p.header
  <2>1. /\ p.header = [id |-> SubSeq(buf, 1, 2), a |-> buf[3], b |-> buf[4],
                       questions |-> u16(buf[5], buf[6]), answers |-> u16(buf[7], buf[8]),
                       authoritative_entries |-> u16(buf[9], buf[10]),
                       resource_entries |-> u16(buf[11], buf[12])]
        /\ p.header.b % 16 <= 5
    BY Zenon DEF Reading, Laid
  <2>2. PICK b : b = buf[4]
    OBVIOUS
  <2>3. b % 16 <= 5
    BY <2>1, <2>2
  <2>4. buf \in Bytes /\ 4 \in 1..Len(buf)
    <3>1. Len(buf) >= 12 /\ buf \in Bytes
      BY DEF Reading, Laid, Numbers
    <3> QED  BY <3>1 DEF Bytes
  <2>5. b \in Byte
    BY <2>2, <2>4, ElementOfSeq DEF Bytes
  <2>6. b % 16 \in Int
    BY <2>5 DEF Byte
  <2>7. from_num(b) = b
    BY <2>3, <2>6 DEF from_num
  <2>8. /\ get_range(0, 2) = SubSeq(buf, 1, 2) /\ get(2) = buf[3] /\ get(3) = b
        /\ u16_at(4) = u16(buf[5], buf[6]) /\ u16_at(6) = u16(buf[7], buf[8])
        /\ u16_at(8) = u16(buf[9], buf[10]) /\ u16_at(10) = u16(buf[11], buf[12])
    <3>1. /\ 0 + 1 = 1 /\ 0 + 2 = 2 /\ 2 + 1 = 3 /\ 3 + 1 = 4 /\ 4 + 1 = 5 /\ 5 + 1 = 6
          /\ 6 + 1 = 7 /\ 7 + 1 = 8 /\ 8 + 1 = 9 /\ 9 + 1 = 10 /\ 10 + 1 = 11 /\ 11 + 1 = 12
      OBVIOUS
    <3> QED  BY <2>2, <3>1 DEF get_range, get, u16_at
  <2> QED  BY <1>1, <2>1, <2>2, <2>7, <2>8, Zenon
<1>4. packet' = [header |-> p.header, questions |-> << >>, answers |-> << >>,
                 authorities |-> << >>, resources |-> << >>]
  BY <1>2, <1>3 DEF NewPacket
<1>5. Announced(p) /\ Entries(p, plan, Len(p.questions), Len(Records(p)))
  BY LaidEntries DEF Reading
<1>6. p \in Packet
  BY <1>5 DEF Announced
<1>7. /\ Begins(<< >>, p.questions) /\ Begins(<< >>, p.answers)
      /\ Begins(<< >>, p.authorities) /\ Begins(<< >>, p.resources)
  BY <1>6, PacketLists, BeginsEmpty
<1>8. /\ packet'.questions = << >> /\ packet'.answers = << >>
      /\ packet'.authorities = << >> /\ packet'.resources = << >>
  BY <1>4
<1>9. PartOf(p)'
  BY <1>4, <1>7, <1>8 DEF PartOf
<1>10. Due' = 1
  <2>1. Due' = Len(<< >>) + Len(<< >>) + Len(<< >>) + Len(<< >>) + 1
    BY <1>8 DEF Due
  <2>2. Len(<< >>) = 0
    OBVIOUS
  <2> QED  BY <2>1, <2>2
<1>11. plan.at[1] = 12
  BY <1>5 DEF Entries
<1> QED  BY <1>2, <1>9, <1>10, <1>11 DEF InStep

\* What is known of the entry that is due.
LEMMA AtEntry ==
    ASSUME NEW p, NEW plan, Reading(p, plan), pc # "header"
    PROVE  /\ PartOf(p) /\ Announced(p) /\ Stage(p)
           /\ NamesLaid(buf, plan.names) /\ StringsLaid(buf, plan.strings)
           /\ Section # "none" =>
                /\ plan.at[Due] \in 12..Len(buf) /\ plan.at[Due + 1] \in 12..Len(buf)
                /\ plan.at[Due] \in DOMAIN plan.names
                /\ IF Section = "questions" THEN DueQuestion(p, plan) ELSE DueRecord(p, plan)
<1>1. Laid(buf, p, plan) /\ PartOf(p)
  BY DEF Reading, InStep
<1>2. Announced(p) /\ NamesLaid(buf, plan.names) /\ StringsLaid(buf, plan.strings)
  BY <1>1, LaidEntries
<1>3. Stage(p)
  BY <1>1, <1>2, Situation
<1>4. ASSUME Section # "none"
      PROVE  /\ plan.at[Due] \in 12..Len(buf) /\ plan.at[Due + 1] \in 12..Len(buf)
             /\ plan.at[Due] \in DOMAIN plan.names
             /\ IF Section = "questions" THEN DueQuestion(p, plan) ELSE DueRecord(p, plan)
  <2>1. /\ plan.at[Due] \in 12..Len(buf) /\ plan.at[Due + 1] \in 12..Len(buf)
        /\ IF Section = "questions" THEN DueQuestion(p, plan) ELSE DueRecord(p, plan)
    BY <1>1, <1>4, DueEntry, SMTT(30)
  <2>2. plan.at[Due] \in DOMAIN plan.names
    BY <2>1 DEF DueQuestion, DueRecord, QuestionLaid, RecordLaid
  <2> QED  BY <2>1, <2>2
<1> QED  BY <1>1, <1>2, <1>3, <1>4

LEMMA EntryInStep ==
    ASSUME NEW p, NEW plan, Reading(p, plan), NextEntry
    PROVE  InStep(p, plan)'
<1>1. pc = "entry" /\ pos' = pos /\ packet' = packet /\ pos = plan.at[Due]
  BY DEF NextEntry, Reading, InStep
<1>2. PartOf(p)' /\ Section' = Section /\ Due' = Due
  BY <1>1, AtEntry, SamePacket
<1>3. CASE Section = "none"
  <2>1. pc' = "parsed"
    BY <1>3 DEF NextEntry
  <2>2. packet = p
    BY <1>1, <1>3, AtEntry DEF Stage
  <2> QED  BY <1>1, <1>2, <2>1, <2>2 DEF InStep
<1>4. CASE Section # "none"
  <2>1. pc' = "owner" /\ walk' = WalkFrom(pos)
    BY <1>4 DEF NextEntry
  <2>2. pos \in DOMAIN plan.names /\ NamesLaid(buf, plan.names)
    BY <1>1, <1>4, AtEntry
  <2>3. InName(plan.names)' /\ walk'.from = pos
    BY <2>1, <2>2, NameBegins DEF Reading
  <2>4. AtOwner(plan)'
    BY <1>1, <1>2, <2>3 DEF AtOwner
  <2> QED  BY <1>2, <1>4, <2>1, <2>4 DEF InStep
<1> QED  BY <1>3, <1>4

LEMMA QuestionInStep ==
    ASSUME NEW p, NEW plan, Reading(p, plan), ReadQuestion
    PROVE  InStep(p, plan)'
<1>1. PICK q : q = [name |-> walk.text, qtype |-> u16_at(pos)]
  OBVIOUS
<1>2. pc = "named" /\ Section = "questions" /\ KeepEntry(q) /\ pos' = pos + 4
  BY <1>1 DEF ReadQuestion
<1>3. PartOf(p) /\ Announced(p) /\ DueQuestion(p, plan)
  BY <1>2, AtEntry
<1>4. PICK e, f : e = Current(p) /\ f = plan.names[plan.at[Due]].after
  OBVIOUS
<1>5. walk.text = plan.names[plan.at[Due]].text /\ pos = f /\ pos \in Nat
  BY <1>2, <1>4 DEF Reading, InStep, BehindOwner, Numbers
<1>6. /\ e \in Question /\ plan.names[plan.at[Due]].text = e.name
      /\ plan.at[Due + 1] = f + 4 /\ e.qtype = u16(buf[f + 1], buf[f + 2])
  BY <1>3, <1>4 DEF DueQuestion, QuestionLaid
<1>7. u16_at(pos) = e.qtype
  <2>1. f + 1 + 1 = f + 2
    BY <1>5
  <2> QED  BY <1>5, <1>6, <2>1 DEF u16_at, get
<1>8. q = e
  BY <1>1, <1>5, <1>6, <1>7 DEF Question
<1>9. PartOf(p)' /\ Due' = Due + 1
  BY <1>2, <1>3, <1>4, <1>8, KeptPart
<1>10. pc' = "entry"
  BY <1>2 DEF KeepEntry
<1>11. pos' = plan.at[Due']
  BY <1>2, <1>5, <1>6, <1>9
<1> QED  BY <1>9, <1>10, <1>11 DEF InStep

\* What the data of record r is, by its type.
DataByType(plan, d, end, r) ==
    /\ r.type = A => end = d + 4 /\ r.data = SubSeq(buf, d + 1, end)
    /\ r.type = AAAA => end = d + 16 /\ r.data = SubSeq(buf, d + 1, end)
    /\ r.type \in {CNAME, NS} =>
          /\ d \in DOMAIN plan.names /\ plan.names[d].after = end
          /\ r.data = SubSeq(buf, d + 1, d) \o plan.names[d].text
    /\ r.type = MX =>
          /\ d + 2 \in DOMAIN plan.names /\ plan.names[d + 2].after = end
          /\ r.data = SubSeq(buf, d + 1, d + 2) \o plan.names[d + 2].text
    /\ r.type = TXT =>
          d \in DOMAIN plan.strings /\ plan.strings[d] = [data |-> r.data, end |-> end]
    /\ r.type \notin {A, AAAA, CNAME, NS, MX, TXT} => r.data = write_u16(end - d)

LEMMA LaidByType ==
    ASSUME NEW plan, NEW d, NEW end, NEW r, DataLaid(buf, plan, d, end, r)
    PROVE  DataByType(plan, d, end, r)
<1>1. PICK host : host = IF r.type = MX THEN d + 2 ELSE d
  OBVIOUS
<1>2. (CASE r.type = A -> end = d + 4 /\ r.data = SubSeq(buf, d + 1, end)
        [] r.type = AAAA -> end = d + 16 /\ r.data = SubSeq(buf, d + 1, end)
        [] r.type \in {CNAME, NS, MX} ->
              /\ host \in DOMAIN plan.names /\ plan.names[host].after = end
              /\ r.data = SubSeq(buf, d + 1, host) \o plan.names[host].text
        [] r.type = TXT  ->
              d \in DOMAIN plan.strings /\ plan.strings[d] = [data |-> r.data, end |-> end]
        [] OTHER         -> r.data = write_u16(end - d))
  BY <1>1, Zenon DEF DataLaid
<1>3. r.type = A => end = d + 4 /\ r.data = SubSeq(buf, d + 1, end)
  BY <1>2 DEF A, AAAA, CNAME, NS, MX, TXT
<1>4. r.type = AAAA => end = d + 16 /\ r.data = SubSeq(buf, d + 1, end)
  BY <1>2 DEF A, AAAA, CNAME, NS, MX, TXT
<1>5. r.type \in {CNAME, NS, MX} =>
         /\ host \in DOMAIN plan.names /\ plan.names[host].after = end
         /\ r.data = SubSeq(buf, d + 1, host) \o plan.names[host].text
  <2> SUFFICES ASSUME r.type \in {CNAME, NS, MX}
               PROVE  /\ host \in DOMAIN plan.names /\ plan.names[host].after = end
                      /\ r.data = SubSeq(buf, d + 1, host) \o plan.names[host].text
    OBVIOUS
  <2>1. ~(r.type = A) /\ ~(r.type = AAAA)
    BY DEF A, AAAA, CNAME, NS, MX
  <2>2. ~(r.type = TXT)
    BY DEF TXT, CNAME, NS, MX
  <2> QED  BY <1>2, <2>1, <2>2, Zenon
<1>6. r.type = TXT =>
         d \in DOMAIN plan.strings /\ plan.strings[d] = [data |-> r.data, end |-> end]
  <2> SUFFICES ASSUME r.type = TXT
               PROVE  d \in DOMAIN plan.strings /\ plan.strings[d] = [data |-> r.data, end |-> end]
    OBVIOUS
  <2>1. ~(r.type = A) /\ ~(r.type = AAAA) /\ ~(r.type \in {CNAME, NS, MX})
    BY DEF A, AAAA, CNAME, NS, MX, TXT
  <2> QED  BY <1>2, <2>1, Zenon
<1>7. r.type \notin {A, AAAA, CNAME, NS, MX, TXT} => r.data = write_u16(end - d)
  <2> SUFFICES ASSUME r.type \notin {A, AAAA, CNAME, NS, MX, TXT}
               PROVE  r.data = write_u16(end - d)
    OBVIOUS
  <2>1. /\ ~(r.type = A) /\ ~(r.type = AAAA) /\ ~(r.type \in {CNAME, NS, MX})
        /\ ~(r.type = TXT)
    OBVIOUS
  <2> QED  BY <1>2, <2>1
<1>8. (r.type \in {CNAME, NS} => host = d) /\ (r.type = MX => host = d + 2)
  BY <1>1 DEF CNAME, NS, MX
<1> QED  BY <1>3, <1>4, <1>5, <1>6, <1>7, <1>8 DEF DataByType

LEMMA FieldsInStep ==
    ASSUME NEW p, NEW plan, Reading(p, plan), ReadFields
    PROVE  InStep(p, plan)'
<1>1. /\ pc = "named" /\ pc' = "data" /\ Section # "questions" /\ packet' = packet
      /\ pos' = pos + 10 /\ buf' = buf
      /\ record' = [domain |-> walk.text, type |-> u16_at(pos), ttl |-> get_range(pos + 4, 4),
                    data_len |-> u16_at(pos + 8), end |-> pos + 10 + u16_at(pos + 8), data |-> << >>]
  BY DEF ReadFields, message
<1>2. PICK r, f, end : /\ r = Current(p) /\ f = plan.names[plan.at[Due]].after
                       /\ end = plan.at[Due + 1]
  OBVIOUS
<1>3. Section # "none" /\ walk.text = plan.names[plan.at[Due]].text /\ pos = f /\ f \in Nat
  BY <1>1, <1>2 DEF Reading, InStep, BehindOwner, Numbers
<1>4. PartOf(p) /\ DueRecord(p, plan)
  BY <1>1, <1>3, AtEntry
<1>5. r \in Record /\ RecordLaid(buf, plan, plan.at[Due], end, r)
  BY <1>2, <1>4 DEF DueRecord
<1>6. /\ plan.names[plan.at[Due]].text = r.domain
      /\ end = f + 10 + u16(buf[f + 9], buf[f + 10])
      /\ r.type = u16(buf[f + 1], buf[f + 2])
      /\ r.ttl = SubSeq(buf, f + 5, f + 8)
      /\ DataLaid(buf, plan, f + 10, end, r)
  BY <1>2, <1>5, Zenon DEF RecordLaid
<1>7. /\ u16_at(f) = u16(buf[f + 1], buf[f + 2])
      /\ u16_at(f + 8) = u16(buf[f + 9], buf[f + 10])
      /\ get_range(f + 4, 4) = SubSeq(buf, f + 5, f + 8)
  <2>1. /\ f + 1 + 1 = f + 2 /\ f + 8 + 1 = f + 9 /\ f + 8 + 1 + 1 = f + 10
        /\ f + 4 + 1 = f + 5 /\ f + 4 + 4 = f + 8
    BY <1>3
  <2> QED  BY <2>1 DEF u16_at, get, get_range
<1>8. /\ record'.domain = r.domain /\ record'.type = r.type /\ record'.ttl = r.ttl
      /\ record'.end = end /\ record'.data = << >> /\ end = pos' + record'.data_len
  BY <1>1, <1>3, <1>6, <1>7
<1>9. Fields(r, end)'
  BY <1>8 DEF Fields, Bytes
<1>10. PartOf(p)' /\ Section' = Section /\ Due' = Due /\ Current(p)' = r
  BY <1>1, <1>2, <1>4, SamePacket
<1>11. DataLaid(buf, plan, pos', end, r)
  BY <1>1, <1>3, <1>6
<1>12. CASE r.type = TXT
  <2>1. pos' \in DOMAIN plan.strings /\ plan.strings[pos'] = [data |-> r.data, end |-> end]
    BY <1>11, <1>12, LaidByType DEF DataByType
  <2>2. << >> \o r.data = r.data
    BY <1>5, ConcatEmptySeq DEF Record, Bytes
  <2>3. AtStrings(r, end, plan)'
    BY <1>8, <2>1, <2>2 DEF AtStrings
  <2>4. InData(r, end, plan)'
    BY <1>1, <1>9, <1>12, <2>3 DEF InData
  <2> QED  BY <1>1, <1>2, <1>3, <1>10, <2>4 DEF InStep
<1>13. CASE r.type # TXT
  <2>1. AtData(r, end, plan)'
    BY <1>1, <1>8, <1>11 DEF AtData
  <2>2. InData(r, end, plan)'
    BY <1>1, <1>9, <1>13, <2>1 DEF InData
  <2> QED  BY <1>1, <1>2, <1>3, <1>10, <2>2 DEF InStep
<1> QED  BY <1>12, <1>13

\* The steps of a walk, over an owner or a host.
LEMMA WalkInStep ==
    ASSUME NEW p, NEW plan, Reading(p, plan), FollowPointer \/ ReadLabel
    PROVE  InStep(p, plan)'
<1>1. pc \in {"owner", "host"} /\ pc' = pc /\ packet' = packet /\ record' = record
  BY DEF FollowPointer, ReadLabel, AtByte, Walking
<1>2. InName(plan.names) /\ NamesLaid(buf, plan.names)
  BY <1>1, AtEntry DEF Reading, InStep, InData, AtOwner, AtHost
<1>3. InName(plan.names)' /\ walk'.from = walk.from
  BY <1>2, PointerInName, LabelInName DEF Reading
<1>4. PartOf(p)' /\ Section' = Section /\ Due' = Due /\ Current(p)' = Current(p)
  BY <1>1, AtEntry, SamePacket
<1>5. CASE pc = "owner"
  <2>1. Section # "none" /\ walk.from = plan.at[Due]
    BY <1>5 DEF Reading, InStep, AtOwner
  <2>2. AtOwner(plan)'
    BY <1>3, <1>4, <2>1 DEF AtOwner
  <2> QED  BY <1>1, <1>4, <1>5, <2>1, <2>2 DEF InStep
<1>6. CASE pc = "host"
  <2>1. PICK r, end : r = Current(p) /\ end = plan.at[Due + 1]
    OBVIOUS
  <2>2. Section \notin {"none", "questions"} /\ Fields(r, end) /\ AtHost(r, end, plan)
    BY <1>6, <2>1 DEF Reading, InStep, InData
  <2>3. Fields(r, end)' /\ AtHost(r, end, plan)'
    BY <1>1, <1>3, <2>2 DEF Fields, AtHost
  <2>4. InData(r, end, plan)'
    BY <1>1, <1>6, <2>3 DEF InData
  <2> QED  BY <1>1, <1>4, <1>6, <2>1, <2>2, <2>4 DEF InStep
<1> QED  BY <1>1, <1>5, <1>6

LEMMA EndInStep ==
    ASSUME NEW p, NEW plan, Reading(p, plan), EndOfName
    PROVE  InStep(p, plan)'
<1>1. /\ pc \in {"owner", "host"} /\ pc' = (IF pc = "owner" THEN "named" ELSE "hosted")
      /\ packet' = packet /\ record' = record
  BY DEF EndOfName, AtByte, Walking
<1>2. InName(plan.names) /\ NamesLaid(buf, plan.names)
  BY <1>1, AtEntry DEF Reading, InStep, InData, AtOwner, AtHost
<1>3. walk'.text = plan.names[walk.from].text /\ pos' = plan.names[walk.from].after
  BY <1>2, NameIsRead DEF Reading
<1>4. PartOf(p)' /\ Section' = Section /\ Due' = Due /\ Current(p)' = Current(p)
  BY <1>1, AtEntry, SamePacket
<1>5. CASE pc = "owner"
  <2>1. Section # "none" /\ walk.from = plan.at[Due] /\ pc' = "named"
    BY <1>1, <1>5 DEF Reading, InStep, AtOwner
  <2>2. BehindOwner(plan)'
    BY <1>3, <1>4, <2>1 DEF BehindOwner
  <2> QED  BY <1>4, <2>1, <2>2 DEF InStep
<1>6. CASE pc = "host"
  <2>1. PICK r, end : r = Current(p) /\ end = plan.at[Due + 1]
    OBVIOUS
  <2>2. /\ Section \notin {"none", "questions"} /\ Fields(r, end) /\ AtHost(r, end, plan)
        /\ pc' = "hosted"
    BY <1>1, <1>6, <2>1 DEF Reading, InStep, InData
  <2>3. Fields(r, end)' /\ BehindHost(r, end)'
    BY <1>1, <1>3, <2>2 DEF Fields, AtHost, BehindHost
  <2>4. InData(r, end, plan)'
    BY <2>2, <2>3 DEF InData
  <2> QED  BY <1>4, <2>1, <2>2, <2>4 DEF InStep
<1> QED  BY <1>1, <1>5, <1>6

\* What is known of the record whose data is read.
LEMMA AtRecord ==
    ASSUME NEW p, NEW plan, Reading(p, plan), pc \in {"data", "host", "hosted"}
    PROVE  /\ Section \notin {"none", "questions"} /\ PartOf(p) /\ Announced(p)
           /\ NamesLaid(buf, plan.names) /\ StringsLaid(buf, plan.strings)
           /\ plan.at[Due + 1] \in 12..Len(buf) /\ Len(buf) \in Nat /\ pos \in Nat
           /\ Current(p) \in Record /\ Current(p).data \in Bytes
           /\ InData(Current(p), plan.at[Due + 1], plan)
           /\ record.type = Current(p).type /\ record.end = plan.at[Due + 1]
           /\ record.data \in Bytes
<1>1. /\ Section \notin {"none", "questions"} /\ InData(Current(p), plan.at[Due + 1], plan)
      /\ Numbers
  BY DEF Reading, InStep
<1>2. /\ PartOf(p) /\ Announced(p) /\ NamesLaid(buf, plan.names) /\ StringsLaid(buf, plan.strings)
      /\ plan.at[Due + 1] \in 12..Len(buf) /\ DueRecord(p, plan)
  BY <1>1, AtEntry
<1>3. Len(buf) \in Nat /\ pos \in Nat
  BY <1>1 DEF Numbers, Bytes
<1>4. Current(p) \in Record /\ Current(p).data \in Bytes
  BY <1>2 DEF DueRecord, Record
<1>5. /\ record.type = Current(p).type /\ record.end = plan.at[Due + 1]
      /\ record.data \in Bytes
  BY <1>1 DEF InData, Fields
<1> QED  BY <1>1, <1>2, <1>3, <1>4, <1>5

LEMMA RecordInStep ==
    ASSUME NEW p, NEW plan, Reading(p, plan), pc \in {"data", "hosted"},
           NEW data, KeepRecord(data), data = Current(p).data, pos' = plan.at[Due + 1]
    PROVE  InStep(p, plan)'
<1>1. PICK r : r = Current(p)
  OBVIOUS
<1>2. r \in Record /\ PartOf(p) /\ Announced(p) /\ Section # "none"
  BY <1>1, AtRecord
<1>3. record.domain = r.domain /\ record.type = r.type /\ record.ttl = r.ttl
  BY <1>1, AtRecord DEF InData, Fields
<1>4. [type |-> record.type, domain |-> record.domain, ttl |-> record.ttl, data |-> data] = r
  BY <1>1, <1>2, <1>3 DEF Record
<1>5. KeepEntry(Current(p))
  BY <1>1, <1>4 DEF KeepRecord
<1>6. PartOf(p)' /\ Due' = Due + 1
  BY <1>2, <1>5, KeptPart
<1>7. pc' = "entry"
  BY <1>5 DEF KeepEntry
<1> QED  BY <1>6, <1>7 DEF InStep

LEMMA AddressInStep ==
    ASSUME NEW p, NEW plan, Reading(p, plan), ReadAddress
    PROVE  InStep(p, plan)'
<1>1. /\ pc = "data" /\ record.type \in {A, AAAA} /\ pos' = pos + AddressLength
      /\ KeepRecord(get_range(pos, AddressLength))
  BY DEF ReadAddress
<1>2. PICK r, end, len : r = Current(p) /\ end = plan.at[Due + 1] /\ len = AddressLength
  OBVIOUS
<1>3. record.type = r.type /\ InData(r, end, plan) /\ pos \in Nat
  BY <1>1, <1>2, AtRecord
<1>4. r.type # TXT
  BY <1>1, <1>3 DEF A, AAAA, TXT
<1>5. DataByType(plan, pos, end, r)
  BY <1>1, <1>3, <1>4, LaidByType DEF InData, AtData
<1>6. end = pos + len /\ r.data = SubSeq(buf, pos + 1, end)
  BY <1>1, <1>2, <1>3, <1>5 DEF DataByType, AddressLength, A, AAAA
<1>7. get_range(pos, len) = r.data
  BY <1>6 DEF get_range
<1> QED  BY <1>1, <1>2, <1>6, <1>7, RecordInStep

LEMMA PriorityInStep ==
    ASSUME NEW p, NEW plan, Reading(p, plan), ReadPriority
    PROVE  InStep(p, plan)'
<1>1. PICK r, end, len, host :
         r = Current(p) /\ end = plan.at[Due + 1] /\ len = PriorityLength /\ host = pos + len
  OBVIOUS
<1>2. /\ pc = "data" /\ pc' = "host" /\ record.type \in {CNAME, NS, MX}
      /\ record' = [record EXCEPT !.data = get_range(pos, len)]
      /\ walk' = WalkFrom(host) /\ packet' = packet /\ buf' = buf
  BY <1>1 DEF ReadPriority, message
<1>3. /\ record.type = r.type /\ InData(r, end, plan) /\ pos \in Nat /\ PartOf(p)
      /\ Section \notin {"none", "questions"} /\ NamesLaid(buf, plan.names) /\ Len(buf) \in Nat
  BY <1>1, <1>2, AtRecord
<1>4. r.type # TXT
  BY <1>2, <1>3 DEF CNAME, NS, MX, TXT
<1>5. DataByType(plan, pos, end, r)
  BY <1>2, <1>3, <1>4, LaidByType DEF InData, AtData
<1>6. /\ host \in DOMAIN plan.names /\ plan.names[host].after = end
      /\ r.data = SubSeq(buf, pos + 1, host) \o plan.names[host].text
  <2>1. CASE r.type = MX
    <3>1. host = pos + 2
      BY <1>1, <1>3, <2>1 DEF PriorityLength
    <3> QED  BY <1>5, <2>1, <3>1 DEF DataByType
  <2>2. CASE r.type \in {CNAME, NS}
    <3>1. r.type # MX
      BY <2>2 DEF CNAME, NS, MX
    <3>2. host = pos
      BY <1>1, <1>3, <3>1 DEF PriorityLength
    <3> QED  BY <1>5, <2>2, <3>2 DEF DataByType
  <2> QED  BY <1>2, <1>3, <2>1, <2>2
<1>7. PICK prio : prio = get_range(pos, len)
  OBVIOUS
<1>8. r.data = prio \o plan.names[host].text /\ prio \in Bytes
  <2>1. prio = SubSeq(buf, pos + 1, host)
    BY <1>1, <1>7 DEF get_range
  <2>2. len \in Nat
    BY <1>1, SMTT(30) DEF PriorityLength
  <2>3. host \in 0..(Len(buf) - 1)
    BY <1>3, <1>6, Zenon DEF NamesLaid
  <2>4. buf \in Seq(Byte)
    BY DEF Reading, Numbers, Bytes
  <2>5. prio \in Seq(Byte)
    <3>1. pos + 1 \in 1..(Len(buf) + 1) /\ host \in 0..Len(buf)
      BY <1>1, <1>3, <2>2, <2>3
    <3> QED  BY <2>1, <2>4, <3>1, SubSeqProperties
  <2> QED  BY <1>6, <2>1, <2>5 DEF Bytes
<1>9. /\ record'.domain = record.domain /\ record'.type = record.type /\ record'.ttl = record.ttl
      /\ record'.end = record.end /\ record'.data = prio
  BY <1>2, <1>7 DEF Reading, Numbers
<1>10. Fields(r, end)'
  BY <1>3, <1>8, <1>9 DEF InData, Fields
<1>11. InName(plan.names)' /\ walk'.from = host
  BY <1>2, <1>3, <1>6, NameBegins DEF Reading
<1>12. AtHost(r, end, plan)'
  BY <1>6, <1>8, <1>9, <1>11 DEF AtHost
<1>13. InData(r, end, plan)'
  BY <1>2, <1>10, <1>12 DEF InData
<1>14. PartOf(p)' /\ Section' = Section /\ Due' = Due /\ Current(p)' = Current(p)
  BY <1>2, <1>3, SamePacket
<1> QED  BY <1>1, <1>2, <1>3, <1>13, <1>14 DEF InStep

LEMMA HostInStep ==
    ASSUME NEW p, NEW plan, Reading(p, plan), KeepHost
    PROVE  InStep(p, plan)'
<1>1. pc = "hosted" /\ KeepRecord(record.data \o walk.text) /\ pos' = pos
  BY DEF KeepHost
<1>2. PICK r, end : r = Current(p) /\ end = plan.at[Due + 1]
  OBVIOUS
<1>3. pos = end /\ r.data = record.data \o walk.text
  BY <1>1, <1>2, AtRecord DEF InData, BehindHost
<1> QED  BY <1>1, <1>2, <1>3, RecordInStep

LEMMA UnknownInStep ==
    ASSUME NEW p, NEW plan, Reading(p, plan), SkipUnknown
    PROVE  InStep(p, plan)'
<1>1. /\ pc = "data" /\ record.type \notin {A, AAAA, CNAME, NS, MX, TXT}
      /\ KeepRecord(write_u16(record.data_len)) /\ pos' = pos + record.data_len
  BY DEF SkipUnknown
<1>2. PICK r, end : r = Current(p) /\ end = plan.at[Due + 1]
  OBVIOUS
<1>3. record.type = r.type /\ InData(r, end, plan) /\ pos \in Nat
  BY <1>1, <1>2, AtRecord
<1>4. r.type # TXT /\ r.type \notin {A, AAAA, CNAME, NS, MX, TXT}
  BY <1>1, <1>3
<1>5. end = pos + record.data_len /\ DataByType(plan, pos, end, r)
  BY <1>1, <1>3, <1>4, LaidByType DEF InData, AtData
<1>6. record.data_len \in Nat
  BY DEF Reading, Numbers
<1>7. end - pos = record.data_len
  BY <1>3, <1>5, <1>6
<1>8. write_u16(record.data_len) = r.data
  BY <1>4, <1>5, <1>7 DEF DataByType
<1> QED  BY <1>1, <1>2, <1>5, <1>8, RecordInStep

\* What is at a place of strings.
LEMMA StringsFrom ==
    ASSUME NEW strings, StringsLaid(buf, strings), NEW p, p \in DOMAIN strings, Numbers
    PROVE  /\ p \in 0..Len(buf) /\ strings[p].data \in Bytes /\ strings[p].end \in Nat
           /\ \/ p = strings[p].end /\ strings[p].data = << >>
              \/ /\ p < strings[p].end /\ p < Len(buf)
                 /\ p + 1 + get(p) \in DOMAIN strings
                 /\ p + 1 + get(p) \in 0..Len(buf)
                 /\ strings[p].end = strings[p + 1 + get(p)].end
                 /\ strings[p + 1 + get(p)].data \in Bytes
                 /\ strings[p].data = SubSeq(buf, p + 2, p + 1 + get(p)) \o strings[p + 1 + get(p)].data
<1>1. \A q \in DOMAIN strings : q \in 0..Len(buf) /\ strings[q] \in [data : Bytes, end : Nat]
  BY DEF StringsLaid
<1>2. PICK on : on = p + 1 + get(p)
  OBVIOUS
<1>3. \/ p = strings[p].end /\ strings[p].data = << >>
      \/ /\ p < strings[p].end /\ p < Len(buf) /\ p + 1 + buf[p + 1] \in DOMAIN strings
         /\ strings[p] = [strings[p + 1 + buf[p + 1]]
                EXCEPT !.data = SubSeq(buf, p + 2, p + 1 + buf[p + 1]) \o @]
  BY Zenon DEF StringsLaid
<1>4. buf[p + 1] = get(p)
  BY DEF get
<1>5. \/ p = strings[p].end /\ strings[p].data = << >>
      \/ /\ p < strings[p].end /\ p < Len(buf) /\ on \in DOMAIN strings
         /\ strings[p] = [strings[on] EXCEPT !.data = SubSeq(buf, p + 2, on) \o @]
  BY <1>2, <1>3, <1>4, Zenon
<1>6. CASE p = strings[p].end /\ strings[p].data = << >>
  BY <1>1, <1>6
<1>7. CASE /\ p < strings[p].end /\ p < Len(buf) /\ on \in DOMAIN strings
           /\ strings[p] = [strings[on] EXCEPT !.data = SubSeq(buf, p + 2, on) \o @]
  <2>1. PICK s \in [data : Bytes, end : Nat] : s = strings[on]
    BY <1>1, <1>7
  <2>2. PICK w : w = SubSeq(buf, p + 2, on)
    OBVIOUS
  <2>3. strings[p] = [s EXCEPT !.data = w \o s.data]
    BY <1>7, <2>1, <2>2
  <2>4. strings[p].end = s.end /\ strings[p].data = w \o s.data /\ s.data \in Bytes
    BY <2>3
  <2>5. on \in 0..Len(buf)
    BY <1>1, <1>7
  <2> QED  BY <1>1, <1>2, <1>7, <2>1, <2>2, <2>4, <2>5
<1> QED  BY <1>5, <1>6, <1>7

LEMMA StringInStep ==
    ASSUME NEW p, NEW plan, Reading(p, plan), ReadString
    PROVE  InStep(p, plan)'
<1>1. PICK r, end, len, on :
         r = Current(p) /\ end = plan.at[Due + 1] /\ len = get(pos) /\ on = pos + 1 + len
  OBVIOUS
<1>2. PICK piece : piece = get_range(pos + 1, len)
  OBVIOUS
<1>3. /\ pc = "data" /\ pc' = "data" /\ record.type = TXT /\ pos < record.end
      /\ record' = [record EXCEPT !.data = @ \o piece] /\ pos' = on
      /\ packet' = packet /\ buf' = buf
  BY <1>1, <1>2 DEF ReadString, message
<1>4. /\ record.type = r.type /\ record.end = end /\ InData(r, end, plan) /\ pos \in Nat
      /\ PartOf(p) /\ record.data \in Bytes /\ Len(buf) \in Nat
      /\ Section \notin {"none", "questions"} /\ StringsLaid(buf, plan.strings)
  BY <1>1, <1>3, AtRecord
<1>5. PICK strings : strings = plan.strings
  OBVIOUS
<1>6. /\ pos \in DOMAIN strings /\ strings[pos].end = end
      /\ r.data = record.data \o strings[pos].data
  BY <1>3, <1>4, <1>5 DEF InData, AtStrings
<1>7. /\ pos < Len(buf) /\ on \in DOMAIN strings /\ on \in 0..Len(buf)
      /\ strings[on].end = end /\ strings[on].data \in Bytes
      /\ strings[pos].data = SubSeq(buf, pos + 2, on) \o strings[on].data
  <2>1. Numbers
    BY DEF Reading
  <2>2. pos # strings[pos].end
    BY <1>3, <1>4, <1>6
  <2> QED  BY <1>1, <1>4, <1>5, <1>6, <2>1, <2>2, StringsFrom, ZenonT(40)
<1>8. piece = SubSeq(buf, pos + 2, on) /\ piece \in Bytes
  <2>1. pos + 1 + 1 = pos + 2
    BY <1>4
  <2>2. piece = SubSeq(buf, pos + 2, on)
    BY <1>1, <1>2, <2>1 DEF get_range
  <2>3. buf \in Seq(Byte)
    BY DEF Reading, Numbers, Bytes
  <2>4. pos + 2 \in 1..(Len(buf) + 1)
    BY <1>4, <1>7
  <2>5. piece \in Seq(Byte)
    BY <1>4, <1>7, <2>2, <2>3, <2>4, SubSeqProperties
  <2> QED  BY <2>2, <2>5 DEF Bytes
<1>9. PICK data, rest : data = record.data /\ rest = strings[on].data
  OBVIOUS
<1>10. (data \o piece) \o rest = data \o (piece \o rest)
  <2>1. data \in Seq(Byte) /\ piece \in Seq(Byte) /\ rest \in Seq(Byte)
    BY <1>4, <1>7, <1>8, <1>9 DEF Bytes
  <2>2. Associate(data, piece, rest)
    BY <2>1, Associates, Zenon
  <2> QED  BY <2>2 DEF Associate
<1>11. /\ record'.domain = record.domain /\ record'.type = record.type /\ record'.ttl = record.ttl
       /\ record'.end = record.end /\ record'.data = data \o piece
  BY <1>3, <1>9, SMTT(30) DEF Reading, Numbers
<1>12. data \o piece \in Bytes
  BY <1>4, <1>8, <1>9 DEF Bytes
<1>13. Fields(r, end)'
  BY <1>4, <1>11, <1>12 DEF InData, Fields
<1>14. AtStrings(r, end, plan)'
  BY <1>3, <1>5, <1>6, <1>7, <1>8, <1>9, <1>10, <1>11, Zenon DEF AtStrings
<1>15. InData(r, end, plan)'
  BY <1>3, <1>4, <1>13, <1>14 DEF InData
<1>16. PartOf(p)' /\ Section' = Section /\ Due' = Due /\ Current(p)' = Current(p)
  BY <1>3, <1>4, SamePacket
<1> QED  BY <1>1, <1>3, <1>4, <1>15, <1>16 DEF InStep

LEMMA StringsInStep ==
    ASSUME NEW p, NEW plan, Reading(p, plan), KeepStrings
    PROVE  InStep(p, plan)'
<1>1. /\ pc = "data" /\ record.type = TXT /\ pos >= record.end
      /\ KeepRecord(record.data) /\ pos' = pos
  BY DEF KeepStrings
<1>2. PICK r, end, strings : r = Current(p) /\ end = plan.at[Due + 1] /\ strings = plan.strings
  OBVIOUS
<1>3. /\ record.type = r.type /\ record.end = end /\ InData(r, end, plan) /\ pos \in Nat
      /\ record.data \in Bytes /\ Len(buf) \in Nat /\ StringsLaid(buf, strings)
      /\ end \in 12..Len(buf)
  BY <1>1, <1>2, AtRecord
<1>4. /\ pos \in DOMAIN strings /\ strings[pos].end = end
      /\ r.data = record.data \o strings[pos].data
  BY <1>1, <1>2, <1>3 DEF InData, AtStrings
<1>5. pos = end /\ strings[pos].data = << >>
  <2>1. Numbers
    BY DEF Reading
  <2>2. ~(pos < strings[pos].end)
    BY <1>1, <1>3, <1>4
  <2> QED  BY <1>3, <1>4, <2>1, <2>2, StringsFrom
<1>6. record.data = r.data
  BY <1>3, <1>4, <1>5, ConcatEmptySeq DEF Bytes
<1> QED  BY <1>1, <1>2, <1>5, <1>6, RecordInStep

LEMMA NothingMissing ==
    ASSUME NEW p, NEW plan, Reading(p, plan)
    PROVE  ~WalkFails /\ ~EndOfBuffer
<1>1. Numbers /\ Reads /\ Len(buf) \in Nat /\ pos \in Nat
  BY DEF Reading, Numbers, Bytes
<1>2. ~WalkFails
  <2>1. CASE pc \in {"owner", "host"}
    <3>1. InName(plan.names) /\ NamesLaid(buf, plan.names)
      BY <2>1, AtEntry DEF Reading, InStep, InData, AtOwner, AtHost
    <3> QED  BY <1>1, <3>1, NameDoesNotFail
  <2>2. CASE pc \notin {"owner", "host"}
    BY <2>2 DEF WalkFails, Walking
  <2> QED  BY <2>1, <2>2
<1>3. ~(pc = "header" /\ ~Has(0, 12))
  BY <1>1 DEF Reading, Laid, Has
<1>4. ~(pc = "named" /\ ~Has(pos, IF Section = "questions" THEN 4 ELSE 10))
  <2> SUFFICES ASSUME pc = "named" PROVE Has(pos, IF Section = "questions" THEN 4 ELSE 10)
    OBVIOUS
  <2>1. PICK f, end : f = plan.names[plan.at[Due]].after /\ end = plan.at[Due + 1]
    OBVIOUS
  <2>2. Section # "none" /\ pos = f
    BY <2>1 DEF Reading, InStep, BehindOwner
  <2>3. end \in 12..Len(buf)
    BY <2>1, <2>2, AtEntry
  <2>4. CASE Section = "questions"
    <3>1. end = f + 4
      BY <2>1, <2>4, AtEntry DEF DueQuestion, QuestionLaid
    <3> QED  BY <1>1, <2>2, <2>3, <2>4, <3>1 DEF Has
  <2>5. CASE Section # "questions"
    <3>1. f + 10 <= end
      BY <2>1, <2>2, <2>5, AtEntry DEF DueRecord, RecordLaid
    <3> QED  BY <1>1, <2>2, <2>3, <2>5, <3>1 DEF Has
  <2> QED  BY <2>4, <2>5
<1>5. ASSUME pc = "data", NEW r, r = Current(p), NEW end, end = plan.at[Due + 1], r.type # TXT
      PROVE  DataByType(plan, pos, end, r) /\ record.type = r.type /\ end \in 12..Len(buf)
  BY <1>5, AtRecord, LaidByType DEF InData, AtData
<1>6. ~(pc = "data" /\ record.type \in {A, AAAA} /\ ~Has(pos, AddressLength))
  <2> SUFFICES ASSUME pc = "data", record.type \in {A, AAAA} PROVE Has(pos, AddressLength)
    OBVIOUS
  <2>1. PICK r, end : r = Current(p) /\ end = plan.at[Due + 1]
    OBVIOUS
  <2>2. record.type = r.type
    BY <2>1, AtRecord
  <2>3. r.type # TXT
    BY <2>2 DEF A, AAAA, TXT
  <2>4. DataByType(plan, pos, end, r) /\ end \in 12..Len(buf)
    BY <1>5, <2>1, <2>3
  <2>5. end = pos + AddressLength
    BY <1>1, <2>2, <2>4 DEF DataByType, AddressLength, A, AAAA
  <2> QED  BY <1>1, <2>4, <2>5 DEF Has
<1>7. ~(pc = "data" /\ record.type \in {CNAME, NS, MX} /\ ~Has(pos, PriorityLength))
  <2> SUFFICES ASSUME pc = "data", record.type \in {CNAME, NS, MX} PROVE Has(pos, PriorityLength)
    OBVIOUS
  <2>1. PICK r, end : r = Current(p) /\ end = plan.at[Due + 1]
    OBVIOUS
  <2>2. record.type = r.type
    BY <2>1, AtRecord
  <2>3. r.type # TXT
    BY <2>2 DEF CNAME, NS, MX, TXT
  <2>4. DataByType(plan, pos, end, r)
    BY <1>5, <2>1, <2>3
  <2>5. NamesLaid(buf, plan.names)
    BY AtRecord
  <2>6. CASE r.type = MX
    <3>1. pos + 2 \in DOMAIN plan.names
      BY <2>4, <2>6, SMTT(30) DEF DataByType
    <3>2. pos + 2 \in 0..(Len(buf) - 1)
      BY <2>5, <3>1, Zenon DEF NamesLaid
    <3> QED  BY <1>1, <2>2, <2>6, <3>2 DEF Has, PriorityLength
  <2>7. CASE r.type # MX
    <3>1. pos \in DOMAIN plan.names
      BY <2>2, <2>4, <2>7, SMTT(30) DEF DataByType
    <3>2. pos \in 0..(Len(buf) - 1)
      BY <2>5, <3>1, Zenon DEF NamesLaid
    <3> QED  BY <1>1, <2>2, <2>7, <3>2 DEF Has, PriorityLength
  <2> QED  BY <2>6, <2>7
<1>8. ~(pc = "data" /\ record.type = TXT /\ pos < record.end
          /\ (Has(pos, 1) => ~Has(pos + 1, get(pos))))
  <2> SUFFICES ASSUME pc = "data", record.type = TXT, pos < record.end
               PROVE  Has(pos, 1) /\ Has(pos + 1, get(pos))
    OBVIOUS
  <2>1. PICK r, end, strings : r = Current(p) /\ end = plan.at[Due + 1] /\ strings = plan.strings
    OBVIOUS
  <2>2. /\ record.type = r.type /\ record.end = end /\ InData(r, end, plan)
        /\ StringsLaid(buf, strings)
    BY <2>1, AtRecord
  <2>3. pos \in DOMAIN strings /\ strings[pos].end = end
    BY <2>1, <2>2 DEF InData, AtStrings
  <2>4. end \in 12..Len(buf)
    BY <2>1, AtRecord
  <2>5. pos # strings[pos].end
    BY <1>1, <2>2, <2>3, <2>4
  <2>6. pos < Len(buf) /\ pos + 1 + get(pos) \in 0..Len(buf)
    BY <1>1, <2>2, <2>3, <2>5, StringsFrom
  <2> QED  BY <1>1, <2>6 DEF Has
<1>9. ~EndOfBuffer
  BY <1>3, <1>4, <1>6, <1>7, <1>8, Zenon DEF EndOfBuffer
<1> QED  BY <1>2, <1>9

LEMMA StaysInStep ==
    ASSUME NEW p, NEW plan, Reading(p, plan), UNCHANGED vars
    PROVE  InStep(p, plan)'
<1>1. /\ buf' = buf /\ pos' = pos /\ pc' = pc /\ walk' = walk /\ record' = record
      /\ packet' = packet
  BY DEF vars
<1>2. Section' = Section /\ Due' = Due /\ Current(p)' = Current(p) /\ PartOf(p)' = PartOf(p)
  BY <1>1, SamePacket
<1>3. AtOwner(plan)' = AtOwner(plan) /\ BehindOwner(plan)' = BehindOwner(plan)
  BY <1>1, <1>2 DEF AtOwner, BehindOwner, InName
<1>4. PICK r, end : r = Current(p) /\ end = plan.at[Due + 1]
  OBVIOUS
<1>5. InData(r, end, plan)' = InData(r, end, plan)
  BY <1>1 DEF InData, Fields, AtStrings, AtData, AtHost, BehindHost, InName
<1>6. pc \in {"data", "host", "hosted"} => InData(r, end, plan)
  BY <1>4 DEF Reading, InStep
<1> QED  BY <1>1, <1>2, <1>3, <1>4, <1>5, <1>6 DEF Reading, InStep

LEMMA StepInStep ==
    ASSUME NEW p, NEW plan, Reading(p, plan), [Next]_vars, ~Answer
    PROVE  InStep(p, plan)'
<1>1. ~WalkFails /\ ~EndOfBuffer
  BY NothingMissing
<1>2. CASE ReadHeader
  BY <1>2, HeaderInStep
<1>3. CASE NextEntry
  BY <1>3, EntryInStep
<1>4. CASE ReadQuestion
  BY <1>4, QuestionInStep
<1>5. CASE ReadFields
  BY <1>5, FieldsInStep
<1>6. CASE FollowPointer \/ ReadLabel
  BY <1>6, WalkInStep
<1>7. CASE EndOfName
  BY <1>7, EndInStep
<1>8. CASE ReadAddress
  BY <1>8, AddressInStep
<1>9. CASE ReadPriority
  BY <1>9, PriorityInStep
<1>10. CASE KeepHost
  BY <1>10, HostInStep
<1>11. CASE ReadString
  BY <1>11, StringInStep
<1>12. CASE KeepStrings
  BY <1>12, StringsInStep
<1>13. CASE SkipUnknown
  BY <1>13, UnknownInStep
<1>14. CASE UNCHANGED vars
  BY <1>14, StaysInStep
<1> QED
  BY <1>1, <1>2, <1>3, <1>4, <1>5, <1>6, <1>7, <1>8, <1>9, <1>10, <1>11, <1>12, <1>13, <1>14,
     Zenon DEF Next

\* The server is in step with what the sender meant.
Understands ==
    side = "server" /\ meant # None /\ pc # "unwritable" =>
        \E p, plan : p = meant /\ Laid(buf, p, plan) /\ InStep(p, plan)

LEMMA Unwritable ==
    ASSUME pc = "unwritable", [Next]_vars
    PROVE  pc' = "unwritable"
BY DEF Next, vars, ReadHeader, NextEntry, ReadQuestion, ReadFields, FollowPointer,
       ReadLabel, EndOfName, WalkFails, ReadAddress, ReadPriority, KeepHost, ReadString,
       KeepStrings, SkipUnknown, EndOfBuffer, Answer, AtByte, Walking

LEMMA StepUnderstands ==
    ASSUME IInv, Understands, [Next]_vars
    PROVE  Understands'
<1> SUFFICES ASSUME side' = "server", meant' # None, pc' # "unwritable"
             PROVE  (\E p, plan : p = meant /\ Laid(buf, p, plan) /\ InStep(p, plan))'
  BY DEF Understands
<1>1. ~Answer
  BY DEF Answer
<1>2. buf' = buf /\ side' = side /\ meant' = meant /\ pc # "unwritable"
  BY <1>1, MessageKept, Unwritable DEF message
<1>3. PICK p, plan : p = meant /\ Laid(buf, p, plan) /\ InStep(p, plan)
  BY <1>2 DEF Understands
<1>4. Reading(p, plan)
  BY <1>3 DEF IInv, Reading
<1>5. InStep(p, plan)'
  BY <1>1, <1>4, StepInStep
<1> QED  BY <1>2, <1>3, <1>5

\* Every query that its sender encoded by the rules, with up to five pointers to
\* a name, a code up to REFUSED, records of any type and in any section, is read
\* without an error, and as what its sender meant by it (packet.rs:35-56, buffer.rs:91-135, record.rs:83-156).
THEOREM UnderstoodQueries == Spec => []QueryIsUnderstood
<1>1. Init => IInv
  BY InitialInv
<1>2. Init => Understands
  <2> SUFFICES ASSUME Init, meant # None
               PROVE  \E p, plan : p = meant /\ Laid(buf, p, plan) /\ InStep(p, plan)
    BY DEF Understands
  <2>1. PICK q \in Queries : buf = q.bytes /\ meant = q.meant
    BY DEF Init
  <2>2. Laid(buf, meant, q.plan)
    BY <2>1, ReaderAssumption
  <2>3. InStep(meant, q.plan)
    BY DEF Init, InStep
  <2> QED  BY <2>2, <2>3
<1>3. IInv /\ [Next]_vars => IInv'
  BY StepInv
<1>4. IInv /\ Understands /\ [Next]_vars => Understands'
  BY StepUnderstands
<1>5. Understands => QueryIsUnderstood
  BY DEF Understands, QueryIsUnderstood, InStep
<1> QED  BY <1>1, <1>2, <1>3, <1>4, <1>5, PTL DEF Spec

-----------------------------------------------------------------------------
(* A plain name that is written is laid out, label by label.               *)

\* The label of len bytes at start, and what is behind it.
LabelAt(text, start, len) ==
    /\ LabelLength(text, start) = len /\ start + len <= Len(text) + 1
    /\ start + len + 1 \in LabelStarts(text) \cup {Len(text) + 2}
    /\ \A j \in (start + 1)..(start + len) : j \notin LabelStarts(text)
    /\ LossyLower(SubSeq(text, start, start + len - 1)) = SubSeq(text, start, start + len - 1)

LEMMA PlainLabel ==
    ASSUME NEW text, Clean(text), IsPlain(text), NameFits(text), NEW start \in LabelStarts(text)
    PROVE  /\ start \in 1..(Len(text) + 1)
           /\ \E len \in 1..63 : LabelAt(text, start, len)
<1>1. PICK n \in Nat : n = Len(text) /\ text \in Seq(Byte)
  BY DEF Clean, Bytes
<1>2. start \in 1..(n + 1) /\ (start = 1 \/ text[start - 1] = Dot)
  BY <1>1 DEF LabelStarts
<1>3. PICK e : LabelEnd(text, start, e) /\ LabelLength(text, start) = e - start
  BY <1>1, <1>2, LabelEnds DEF Bytes
<1>4. /\ e \in start..(n + 1) /\ (e = n + 1 \/ text[e] = Dot)
      /\ \A j \in start..(e - 1) : text[j] # Dot
  BY <1>1, <1>3 DEF LabelEnd
<1>5. PICK len \in 1..63 : len = e - start
  <2>1. LabelLength(text, start) > 0 /\ LabelLength(text, start) <= 63
    BY DEF IsPlain, NameFits
  <2>2. e - start \in Int
    BY <1>2, <1>4
  <2> QED  BY <1>3, <2>1, <2>2
<1>6. e = start + len
  BY <1>2, <1>4, <1>5
<1>7. start + len + 1 \in LabelStarts(text) \cup {Len(text) + 2}
  <2>1. CASE e = n + 1
    BY <1>1, <1>6, <2>1
  <2>2. CASE e # n + 1
    <3>1. e + 1 \in 2..(n + 1) /\ e + 1 - 1 = e /\ text[e] = Dot
      BY <1>2, <1>4, <2>2
    <3> QED  BY <1>1, <1>6, <3>1 DEF LabelStarts
  <2> QED  BY <2>1, <2>2
<1>8. ASSUME NEW j \in (start + 1)..(start + len) PROVE j \notin LabelStarts(text)
  <2>1. j # 1 /\ j - 1 \in start..(e - 1)
    BY <1>2, <1>6
  <2> QED  BY <1>4, <2>1 DEF LabelStarts
<1>9. LossyLower(SubSeq(text, start, start + len - 1)) = SubSeq(text, start, start + len - 1)
  <2>1. PICK b : b = start + len - 1
    OBVIOUS
  <2>2. start \in 1..n /\ b \in start..n /\ b + 1 = e
    BY <1>2, <1>4, <1>6, <2>1
  <2>3. b = Len(text) \/ text[b + 1] = Dot
    BY <1>1, <1>4, <2>2
  <2>4. Clean(SubSeq(text, start, b))
    BY <1>1, <1>2, <2>2, <2>3, CleanLabel
  <2> QED  BY <2>1, <2>4, LossyOfClean
<1>10. LabelAt(text, start, len)
  <2>1. LabelLength(text, start) = len /\ start + len <= Len(text) + 1
    BY <1>1, <1>2, <1>3, <1>4, <1>5, <1>6
  <2> QED  BY <1>7, <1>8, <1>9, <2>1, Zenon DEF LabelAt
<1> QED  BY <1>1, <1>2, <1>10

\* A label and what is behind it make up the text from there on.
LEMMA LabelJoins ==
    ASSUME NEW text, Clean(text), IsPlain(text), NameFits(text), NEW start \in LabelStarts(text),
           NEW len \in 1..63, LabelAt(text, start, len)
    PROVE  Joined(SubSeq(text, start, start + len - 1), SubSeq(text, start + len + 1, Len(text)))
             = SubSeq(text, start, Len(text))
<1>1. PICK n \in Nat : n = Len(text) /\ text \in Seq(Byte)
  BY DEF Clean, Bytes
<1>2. start \in 1..(n + 1)
  BY <1>1, PlainLabel
<1>3. PICK e : e = start + len
  OBVIOUS
<1>4. e \in (start + 1)..(n + 1) /\ start \in 1..n
  BY <1>1, <1>2, <1>3 DEF LabelAt
<1>5. e + 1 \in LabelStarts(text) \cup {n + 2}
  BY <1>1, <1>3 DEF LabelAt
<1>6. PICK label, rest : label = SubSeq(text, start, e - 1) /\ rest = SubSeq(text, e + 1, n)
  OBVIOUS
<1>7. label \in Seq(Byte) /\ Len(label) = len /\ \A i \in 1..len : label[i] = text[start + i - 1]
  <2>1. \A i \in start..(e - 1) : text[i] \in Byte
    BY <1>1, <1>2, <1>4, ElementOfSeq
  <2>2. start \in Int /\ e - 1 \in Int /\ start <= e - 1 /\ (e - 1) - start + 1 = len
    BY <1>2, <1>3, <1>4
  <2> QED  BY <1>6, <2>1, <2>2, SubSeqProperties, SMTT(30)
<1>8. label # << >>
  <2>1. Len(<< >>) = 0
    OBVIOUS
  <2> QED  BY <1>7, <2>1
<1>a. start + len - 1 = e - 1 /\ start + len + 1 = e + 1
  BY <1>2, <1>3
<1>9. CASE e = n + 1
  <2>1. rest = << >>
    BY <1>1, <1>6, <1>9, SubSeqEmpty
  <2>2. label = SubSeq(text, start, n)
    <3>1. e - 1 = n
      BY <1>1, <1>9
    <3> QED  BY <1>6, <3>1
  <2>3. Joined(label, rest) = label
    BY <1>7, <2>1, JoinedWithNothing DEF Bytes
  <2> QED  BY <1>1, <1>a, <1>6, <2>2, <2>3
<1>10. CASE e # n + 1
  <2>1. e \in 1..n /\ e + 1 # n + 2 /\ e + 1 \in Int
    BY <1>1, <1>2, <1>4, <1>10
  <2>2. e + 1 \in LabelStarts(text)
    BY <1>5, <2>1
  <2>3. text[e] = Dot
    <3>1. PICK i : i = e + 1
      OBVIOUS
    <3>2. i # 1 /\ i - 1 = e
      BY <2>1, <3>1
    <3>3. \A j \in LabelStarts(text) : j = 1 \/ text[j - 1] = Dot
      BY DEF LabelStarts
    <3> QED  BY <2>2, <3>1, <3>2, <3>3
  <2>4. e + 1 <= n
    <3>1. PICK k \in 1..63 : LabelAt(text, e + 1, k)
      BY <2>2, PlainLabel
    <3>2. (e + 1) + k <= n + 1
      BY <1>1, <3>1 DEF LabelAt
    <3> QED  BY <2>1, <3>2
  <2>5. PICK m \in Nat : m = n - e /\ m > 0
    BY <2>1, <2>4
  <2>6. rest \in Seq(Byte) /\ Len(rest) = m /\ \A i \in 1..m : rest[i] = text[e + i]
    <3>1. \A i \in (e + 1)..n : text[i] \in Byte
      BY <1>1, <2>1, ElementOfSeq
    <3>2. e + 1 \in Int /\ n \in Int /\ e + 1 <= n /\ n - (e + 1) + 1 = m
      BY <2>1, <2>4, <2>5
    <3>3. rest \in Seq(Byte) /\ Len(rest) = m /\ \A i \in 1..m : rest[i] = text[(e + 1) + i - 1]
      BY <1>6, <3>1, <3>2, SubSeqProperties
    <3>4. \A i \in 1..m : (e + 1) + i - 1 = e + i
      BY <2>1
    <3> QED  BY <3>3, <3>4
  <2>7. PICK u, v, dot : dot = <<Dot>> /\ u = label \o dot /\ v = u \o rest
    OBVIOUS
  <2>8. dot \in Seq(Byte) /\ Len(dot) = 1 /\ dot[1] = Dot
    BY <2>7 DEF Dot, Byte
  <2>9. Behind(u, label, dot, Byte)
    BY <1>7, <2>7, <2>8, Concatenated, Zenon
  <2>10. u \in Seq(Byte) /\ Len(u) = len + 1 /\ u[len + 1] = Dot /\ \A i \in 1..len : u[i] = label[i]
    <3>1. 1 \in 1..1
      OBVIOUS
    <3> QED  BY <1>7, <2>8, <2>9, <3>1 DEF Behind, Opens, Holds
  <2>11. Behind(v, u, rest, Byte)
    BY <2>6, <2>7, <2>10, Concatenated, Zenon
  <2>12. /\ v \in Seq(Byte) /\ Len(v) = len + 1 + m /\ \A i \in 1..(len + 1) : v[i] = u[i]
         /\ \A i \in 1..m : v[len + 1 + i] = rest[i]
    BY <2>6, <2>10, <2>11 DEF Behind, Opens, Holds
  <2>13. PICK t : t = SubSeq(text, start, n)
    OBVIOUS
  <2>14. t \in Seq(Byte) /\ Len(t) = len + 1 + m
         /\ \A i \in 1..(len + 1 + m) : t[i] = text[start + i - 1]
    <3>1. \A i \in start..n : text[i] \in Byte
      BY <1>1, <1>2, ElementOfSeq
    <3>2. start \in Int /\ n \in Int /\ start <= n /\ n - start + 1 = len + 1 + m
      BY <1>2, <1>3, <1>4, <2>5
    <3> QED  BY <2>13, <3>1, <3>2, SubSeqProperties
  <2>15. ASSUME NEW i \in 1..(len + 1 + m) PROVE v[i] = t[i]
    <3>1. CASE i <= len
      <4>1. i \in 1..len /\ i \in 1..(len + 1)
        BY <3>1
      <4> QED  BY <1>7, <2>10, <2>12, <2>14, <4>1
    <3>2. CASE i = len + 1
      <4>1. start + i - 1 = e /\ i \in 1..(len + 1)
        BY <1>2, <1>3, <3>2
      <4> QED  BY <2>3, <2>10, <2>12, <2>14, <3>2, <4>1
    <3>3. CASE i > len + 1
      <4>1. PICK k \in 1..m : i = len + 1 + k
        <5>1. i - (len + 1) \in 1..m /\ i = len + 1 + (i - (len + 1))
          BY <3>3
        <5> QED  BY <5>1
      <4>2. start + i - 1 = e + k
        BY <1>2, <1>3, <4>1
      <4> QED  BY <2>6, <2>12, <2>14, <4>1, <4>2
    <3> QED  BY <3>1, <3>2, <3>3
  <2>16. v = t
    BY <2>12, <2>14, <2>15, SeqEqual
  <2>17. rest # << >>
    <3>1. Len(<< >>) = 0
      OBVIOUS
    <3> QED  BY <2>5, <2>6, <3>1
  <2>18. Joined(label, rest) = v
    BY <1>8, <2>7, <2>17, Zenon DEF Joined
  <2> QED  BY <1>1, <1>a, <1>6, <2>13, <2>16, <2>18
<1> QED  BY <1>9, <1>10

\* The name of a text, and of all that follows in it, begins at x.
Spelled(x, text) == [text |-> text, jumps |-> 0, after |-> x + Len(text) + 2]
Spells(names, x, text) ==
    /\ DOMAIN names \subseteq x..(x + Len(text) + 1)
    /\ x \in DOMAIN names /\ names[x] = Spelled(x, text)

LEMMA OneName ==
    ASSUME NEW bytes, bytes \in Bytes, NEW x \in Nat,
           NEW text, Clean(text), IsPlain(text), NameFits(text),
           NEW w, IsName(w, text), Holds(bytes, x, w)
    PROVE  \E names : NamesLaid(bytes, names) /\ Spells(names, x, text)
<1>1. PICK n \in Nat : n = Len(text) /\ text \in Seq(Byte)
  BY DEF Clean, Bytes
<1>2. PICK len \in Nat : len = Len(bytes) /\ bytes \in Seq(Byte)
  BY DEF Bytes
<1>3. /\ Len(w) = n + 2 /\ w[n + 2] = 0
      /\ \A i \in 1..(n + 1) :
            w[i] = IF i \in LabelStarts(text) THEN LabelLength(text, i) ELSE text[i - 1]
  BY <1>1 DEF IsName
<1>4. x + n + 2 <= len /\ \A i \in 1..(n + 2) : bytes[x + i] = w[i]
  BY <1>1, <1>2, <1>3 DEF Holds
<1>5. PICK Starts : Starts = LabelStarts(text) \cup {n + 2}
  OBVIOUS
<1>6. Starts \subseteq 1..(n + 2) /\ 1 \in Starts /\ LabelStarts(text) \subseteq 1..(n + 1)
  BY <1>1, <1>5 DEF LabelStarts
<1>7. PICK Place : Place = {x + s - 1 : s \in Starts}
  OBVIOUS
<1>8. PICK names : names = [p \in Place |-> [text |-> SubSeq(text, p - x + 1, n), jumps |-> 0,
                                              after |-> x + n + 2]]
  OBVIOUS
<1>9. ASSUME NEW s \in Starts
      PROVE  /\ x + s - 1 \in Place /\ x + s - 1 \in DOMAIN names
             /\ names[x + s - 1] = [text |-> SubSeq(text, s, n), jumps |-> 0, after |-> x + n + 2]
             /\ x + s - 1 \in x..(x + n + 1)
  <2>1. s \in 1..(n + 2)
    BY <1>6
  <2>2. PICK p : p = x + s - 1
    OBVIOUS
  <2>3. p \in Place
    BY <1>7, <2>2
  <2>4. p - x + 1 = s
    BY <2>1, <2>2
  <2>5. names[p] = [text |-> SubSeq(text, p - x + 1, n), jumps |-> 0, after |-> x + n + 2]
    BY <1>8, <2>3
  <2>6. p \in x..(x + n + 1)
    BY <2>1, <2>2
  <2> QED  BY <1>8, <2>2, <2>3, <2>4, <2>5, <2>6
<1>10. ASSUME NEW s \in Starts PROVE SubSeq(text, s, n) \in Bytes
  <2>1. s \in 1..(n + 2)
    BY <1>6
  <2>2. \A i \in s..n : text[i] \in Byte
    BY <1>1, <2>1, ElementOfSeq
  <2>3. SubSeq(text, s, n) \in Seq(Byte)
    BY <2>1, <2>2, SubSeqProperties
  <2> QED  BY <2>3 DEF Bytes
<1>11. ASSUME NEW p \in DOMAIN names
       PROVE  /\ p \in 0..(Len(bytes) - 1) /\ names[p] \in Names
              /\ \/ bytes[p + 1] = 0 /\ names[p] = [NoName EXCEPT !.after = p + 1]
                 \/ /\ bytes[p + 1] \in 1..63 /\ p + 1 + bytes[p + 1] \in DOMAIN names
                    /\ names[p] = [names[p + 1 + bytes[p + 1]] EXCEPT !.text =
                          Joined(LossyLower(SubSeq(bytes, p + 2, p + 1 + bytes[p + 1])), @)]
  <2>1. PICK s \in Starts : p = x + s - 1
    BY <1>7, <1>8
  <2>2. s \in 1..(n + 2) /\ p + 1 = x + s /\ p \in Nat
    BY <1>6, <2>1
  <2>3. names[p] = [text |-> SubSeq(text, s, n), jumps |-> 0, after |-> x + n + 2]
    BY <1>9, <2>1
  <2>4. names[p] \in Names
    BY <1>10, <2>3 DEF Names, max_jumps
  <2>5. p \in 0..(Len(bytes) - 1)
    BY <1>2, <1>4, <2>2
  <2>6. bytes[p + 1] = w[s]
    BY <1>4, <2>2
  <2>7. CASE s = n + 2
    <3>1. bytes[p + 1] = 0
      BY <1>3, <2>6, <2>7
    <3>2. SubSeq(text, s, n) = << >>
      BY <2>7, SubSeqEmpty
    <3>3. x + n + 2 = p + 1
      BY <2>2, <2>7
    <3>4. names[p] = [NoName EXCEPT !.after = p + 1]
      BY <2>3, <3>2, <3>3 DEF NoName
    <3> QED  BY <2>4, <2>5, <3>1, <3>4
  <2>8. CASE s # n + 2
    <3>1. s \in LabelStarts(text) /\ s \in 1..(n + 1)
      BY <1>5, <1>6, <2>8
    <3>2. PICK l \in 1..63 : LabelAt(text, s, l)
      BY <3>1, PlainLabel
    <3>3. /\ LabelLength(text, s) = l /\ s + l <= n + 1 /\ s + l + 1 \in Starts
          /\ \A j \in (s + 1)..(s + l) : j \notin LabelStarts(text)
          /\ LossyLower(SubSeq(text, s, s + l - 1)) = SubSeq(text, s, s + l - 1)
      BY <1>1, <1>5, <3>2 DEF LabelAt
    <3>4. bytes[p + 1] = l
      BY <1>3, <2>6, <3>1, <3>3
    <3>5. PICK on : on = p + 1 + l
      OBVIOUS
    <3>6. on = x + (s + l + 1) - 1 /\ on = x + s + l /\ p + 2 = x + s + 1
      BY <2>2, <3>5
    <3>7. on \in DOMAIN names
          /\ names[on] = [text |-> SubSeq(text, s + l + 1, n), jumps |-> 0, after |-> x + n + 2]
      BY <1>9, <3>3, <3>6
    <3>8. SubSeq(bytes, p + 2, on) = SubSeq(text, s, s + l - 1)
      <4>1. PICK u, v : u = SubSeq(bytes, p + 2, on) /\ v = SubSeq(text, s, s + l - 1)
        OBVIOUS
      <4>2. u \in Seq(Byte) /\ Len(u) = l /\ \A i \in 1..l : u[i] = bytes[x + (s + i)]
        <5>1. PICK a \in Nat : a = p + 2
          BY <2>2
        <5>2. a \in 1..on /\ on \in Nat /\ on <= len /\ on - a + 1 = l
          <6>1. s + l <= n + 1 /\ x + n + 2 <= len
            BY <1>4, <3>3
          <6>2. x + s + l <= x + n + 1 /\ x + n + 1 <= len
            BY <2>2, <6>1
          <6> QED  BY <2>2, <3>6, <5>1, <6>2
        <5>3. \A i \in a..on : i \in 1..len
          BY <5>2
        <5>4. \A i \in a..on : bytes[i] \in Byte
          BY <1>2, <5>3, ElementOfSeq
        <5>5. u = SubSeq(bytes, a, on) /\ a \in Int /\ on \in Int /\ a <= on
          BY <4>1, <5>1, <5>2
        <5>6. u \in Seq(Byte) /\ Len(u) = l /\ \A i \in 1..l : u[i] = bytes[a + i - 1]
          BY <5>2, <5>4, <5>5, SubSeqProperties
        <5>7. \A i \in 1..l : a + i - 1 = x + (s + i)
          BY <2>2, <3>6, <5>1
        <5> QED  BY <5>6, <5>7
      <4>3. v \in Seq(Byte) /\ Len(v) = l /\ \A i \in 1..l : v[i] = text[s + i - 1]
        <5>1. s \in Int /\ s + l - 1 \in Int /\ s <= s + l - 1 /\ (s + l - 1) - s + 1 = l
          BY <2>2
        <5>2. \A i \in s..(s + l - 1) : i \in 1..n
          BY <2>2, <3>3
        <5>3. \A i \in s..(s + l - 1) : text[i] \in Byte
          BY <1>1, <5>2, ElementOfSeq
        <5> QED  BY <4>1, <5>1, <5>3, SubSeqProperties
      <4>4. ASSUME NEW i \in 1..l PROVE u[i] = v[i]
        <5>1. PICK j : j = s + i
          OBVIOUS
        <5>2. j \in (s + 1)..(s + l) /\ j \in 1..(n + 1) /\ j \in 1..(n + 2) /\ j - 1 = s + i - 1
          BY <2>2, <3>3, <5>1
        <5>3. j \notin LabelStarts(text)
          BY <3>3, <5>2
        <5>4. bytes[x + j] = w[j]
          BY <1>4, <5>2
        <5>5. w[j] = text[j - 1]
          BY <1>3, <5>2, <5>3
        <5> QED  BY <4>2, <4>3, <5>1, <5>2, <5>4, <5>5
      <4> QED  BY <4>1, <4>2, <4>3, <4>4, SeqEqual
    <3>9. Joined(SubSeq(text, s, s + l - 1), SubSeq(text, s + l + 1, n)) = SubSeq(text, s, n)
      BY <1>1, <3>1, <3>2, LabelJoins
    <3>10. PICK r : r = names[on]
      OBVIOUS
    <3>11. r = [text |-> SubSeq(text, s + l + 1, n), jumps |-> 0, after |-> x + n + 2]
      BY <3>7, <3>10
    <3>12. names[p] = [r EXCEPT !.text = Joined(LossyLower(SubSeq(bytes, p + 2, on)), @)]
      <4>1. PICK t : t = SubSeq(text, s, n)
        OBVIOUS
      <4>2. Joined(LossyLower(SubSeq(bytes, p + 2, on)), r.text) = t
        BY <3>3, <3>8, <3>9, <3>11, <4>1
      <4>3. names[p] = [r EXCEPT !.text = t]
        <5>1. PICK y, z : y = SubSeq(text, s + l + 1, n) /\ z = x + n + 2
          OBVIOUS
        <5>2. r = [text |-> y, jumps |-> 0, after |-> z]
          BY <3>11, <5>1, Zenon
        <5>3. names[p] = [text |-> t, jumps |-> 0, after |-> z]
          BY <2>3, <4>1, <5>1, Zenon
        <5>4. [r EXCEPT !.text = t] = [text |-> t, jumps |-> 0, after |-> z]
          BY <5>2
        <5> QED  BY <5>3, <5>4, Zenon
      <4> QED  BY <4>2, <4>3, Zenon
    <3>13. names[p] = [names[p + 1 + bytes[p + 1]] EXCEPT !.text =
              Joined(LossyLower(SubSeq(bytes, p + 2, p + 1 + bytes[p + 1])), @)]
      BY <3>4, <3>5, <3>10, <3>12, Zenon
    <3> QED  BY <2>4, <2>5, <3>4, <3>5, <3>7, <3>13, Zenon
  <2> QED  BY <2>7, <2>8
<1>12. NamesLaid(bytes, names)
  BY <1>11, Zenon DEF NamesLaid
<1>13. Spells(names, x, text)
  <2>1. DOMAIN names \subseteq x..(x + n + 1)
    <3>1. DOMAIN names = Place
      BY <1>8
    <3> QED  BY <1>7, <1>9, <3>1, ZenonT(40)
  <2>2. x + 1 - 1 = x
    OBVIOUS
  <2>3. x \in DOMAIN names /\ names[x] = [text |-> SubSeq(text, 1, n), jumps |-> 0, after |-> x + n + 2]
    BY <1>6, <1>9, <2>2
  <2>4. SubSeq(text, 1, n) = text
    BY <1>1, SubSeqFull
  <2> QED  BY <1>1, <2>1, <2>3, <2>4 DEF Spells, Spelled
<1> QED  BY <1>12, <1>13

Merges(names, f, g) ==
    /\ DOMAIN names = DOMAIN f \cup DOMAIN g
    /\ \A p \in DOMAIN f : names[p] = f[p]
    /\ \A p \in DOMAIN g : names[p] = g[p]

LEMMA NamesTogether ==
    ASSUME NEW bytes, NEW f, NamesLaid(bytes, f), NEW g, NamesLaid(bytes, g),
           \A p \in DOMAIN f : p \notin DOMAIN g
    PROVE  \E names : NamesLaid(bytes, names) /\ Merges(names, f, g)
<1>1. PICK names : names = [p \in DOMAIN f \cup DOMAIN g |-> IF p \in DOMAIN f THEN f[p] ELSE g[p]]
  OBVIOUS
<1>2. DOMAIN names = DOMAIN f \cup DOMAIN g
  BY <1>1
<1>3. \A p \in DOMAIN f : names[p] = f[p]
  BY <1>1
<1>4. \A p \in DOMAIN g : names[p] = g[p]
  BY <1>1
<1>5. ASSUME NEW h, NamesLaid(bytes, h), \A p \in DOMAIN h : p \in DOMAIN names /\ names[p] = h[p],
             NEW p, p \in DOMAIN h
      PROVE  /\ p \in 0..(Len(bytes) - 1) /\ names[p] \in Names
             /\ \/ bytes[p + 1] = 0 /\ names[p] = [NoName EXCEPT !.after = p + 1]
                \/ /\ bytes[p + 1] >= 192 /\ p + 2 <= Len(bytes)
                   /\ u16(bytes[p + 1], bytes[p + 2]) - 192 * 256 \in DOMAIN names
                   /\ names[p] = [names[u16(bytes[p + 1], bytes[p + 2]) - 192 * 256]
                                     EXCEPT !.jumps = @ + 1, !.after = p + 2]
                \/ /\ bytes[p + 1] \in 1..63 /\ p + 1 + bytes[p + 1] \in DOMAIN names
                   /\ names[p] = [names[p + 1 + bytes[p + 1]] EXCEPT !.text =
                         Joined(LossyLower(SubSeq(bytes, p + 2, p + 1 + bytes[p + 1])), @)]
  <2>1. /\ p \in 0..(Len(bytes) - 1) /\ h[p] \in Names
        /\ \/ bytes[p + 1] = 0 /\ h[p] = [NoName EXCEPT !.after = p + 1]
           \/ /\ bytes[p + 1] >= 192 /\ p + 2 <= Len(bytes)
              /\ u16(bytes[p + 1], bytes[p + 2]) - 192 * 256 \in DOMAIN h
              /\ h[p] = [h[u16(bytes[p + 1], bytes[p + 2]) - 192 * 256]
                                EXCEPT !.jumps = @ + 1, !.after = p + 2]
           \/ /\ bytes[p + 1] \in 1..63 /\ p + 1 + bytes[p + 1] \in DOMAIN h
              /\ h[p] = [h[p + 1 + bytes[p + 1]] EXCEPT !.text =
                    Joined(LossyLower(SubSeq(bytes, p + 2, p + 1 + bytes[p + 1])), @)]
    BY <1>5, ZenonT(40) DEF NamesLaid
  <2>3. names[p] = h[p]
    BY <1>5
  <2>6. CASE bytes[p + 1] = 0 /\ h[p] = [NoName EXCEPT !.after = p + 1]
    BY <2>1, <2>3, <2>6, Zenon
  <2>7. CASE /\ bytes[p + 1] >= 192 /\ p + 2 <= Len(bytes)
             /\ u16(bytes[p + 1], bytes[p + 2]) - 192 * 256 \in DOMAIN h
             /\ h[p] = [h[u16(bytes[p + 1], bytes[p + 2]) - 192 * 256]
                               EXCEPT !.jumps = @ + 1, !.after = p + 2]
    <3>1. u16(bytes[p + 1], bytes[p + 2]) - 192 * 256 \in DOMAIN names
          /\ names[u16(bytes[p + 1], bytes[p + 2]) - 192 * 256]
               = h[u16(bytes[p + 1], bytes[p + 2]) - 192 * 256]
      BY <1>5, <2>7, ZenonT(40)
    <3> QED  BY <2>1, <2>3, <2>7, <3>1, ZenonT(40)
  <2>8. CASE /\ bytes[p + 1] \in 1..63 /\ p + 1 + bytes[p + 1] \in DOMAIN h
             /\ h[p] = [h[p + 1 + bytes[p + 1]] EXCEPT !.text =
                   Joined(LossyLower(SubSeq(bytes, p + 2, p + 1 + bytes[p + 1])), @)]
    <3>1. p + 1 + bytes[p + 1] \in DOMAIN names
          /\ names[p + 1 + bytes[p + 1]] = h[p + 1 + bytes[p + 1]]
      BY <1>5, <2>8, Zenon
    <3> QED  BY <2>1, <2>3, <2>8, <3>1, Zenon
  <2> QED  BY <2>1, <2>6, <2>7, <2>8, Zenon
<1>6. ASSUME NEW p \in DOMAIN names
      PROVE  /\ p \in 0..(Len(bytes) - 1) /\ names[p] \in Names
             /\ \/ bytes[p + 1] = 0 /\ names[p] = [NoName EXCEPT !.after = p + 1]
                \/ /\ bytes[p + 1] >= 192 /\ p + 2 <= Len(bytes)
                   /\ u16(bytes[p + 1], bytes[p + 2]) - 192 * 256 \in DOMAIN names
                   /\ names[p] = [names[u16(bytes[p + 1], bytes[p + 2]) - 192 * 256]
                                     EXCEPT !.jumps = @ + 1, !.after = p + 2]
                \/ /\ bytes[p + 1] \in 1..63 /\ p + 1 + bytes[p + 1] \in DOMAIN names
                   /\ names[p] = [names[p + 1 + bytes[p + 1]] EXCEPT !.text =
                         Joined(LossyLower(SubSeq(bytes, p + 2, p + 1 + bytes[p + 1])), @)]
  <2>1. \A q \in DOMAIN f : q \in DOMAIN names /\ names[q] = f[q]
    BY <1>2, <1>3
  <2>2. \A q \in DOMAIN g : q \in DOMAIN names /\ names[q] = g[q]
    BY <1>2, <1>4
  <2>3. CASE p \in DOMAIN f
    BY <1>5, <2>1, <2>3, ZenonT(40)
  <2>4. CASE p \in DOMAIN g
    BY <1>5, <2>2, <2>4, ZenonT(40)
  <2> QED  BY <1>2, <2>3, <2>4
<1>7. NamesLaid(bytes, names)
  BY <1>6, ZenonT(40) DEF NamesLaid
<1> QED  BY <1>2, <1>3, <1>4, <1>7 DEF Merges

\* The names of texts, each behind the one before it.
Spelt(bytes, x, text) ==
    /\ Clean(text) /\ IsPlain(text) /\ NameFits(text)
    /\ \E w : IsName(w, text) /\ Holds(bytes, x, w)

Gathered(bytes, place, text, k) ==
    \E names : /\ NamesLaid(bytes, names) /\ \A p \in DOMAIN names : p < place[k + 1]
               /\ \A j \in 1..k : /\ place[j] \in DOMAIN names
                                  /\ names[place[j]] = Spelled(place[j], text[j])

LEMMA AllNames ==
    ASSUME NEW bytes, bytes \in Bytes, NEW n \in Nat, NEW place, NEW text,
           \A k \in 1..(n + 1) : place[k] \in Nat,
           \A k \in 1..n : Spelt(bytes, place[k], text[k])
                             /\ place[k] + Len(text[k]) + 2 <= place[k + 1]
    PROVE  Gathered(bytes, place, text, n)
<1> DEFINE G == {k \in 0..n : Gathered(bytes, place, text, k)}
<1>1. 0 \in G
  <2>1. PICK names : names = [p \in {} |-> 0]
    OBVIOUS
  <2>2. DOMAIN names = {}
    BY <2>1
  <2>3. NamesLaid(bytes, names)
    BY <2>2 DEF NamesLaid
  <2> QED  BY <2>2, <2>3 DEF Gathered
<1>2. ASSUME NEW k \in 0..(n - 1), k \in G PROVE k + 1 \in G
  <2>1. PICK f : /\ NamesLaid(bytes, f) /\ \A p \in DOMAIN f : p < place[k + 1]
                 /\ \A j \in 1..k : /\ place[j] \in DOMAIN f
                                    /\ f[place[j]] = Spelled(place[j], text[j])
    BY <1>2 DEF Gathered
  <2>2. PICK i, x, t : i = k + 1 /\ x = place[i] /\ t = text[i]
    OBVIOUS
  <2>3. i \in 1..n /\ i \in 1..(n + 1) /\ i + 1 \in 1..(n + 1)
    BY <2>2
  <2>4. x \in Nat /\ place[i + 1] \in Nat /\ Spelt(bytes, x, t) /\ x + Len(t) + 2 <= place[i + 1]
    BY <2>2, <2>3
  <2>5. PICK w : /\ Clean(t) /\ IsPlain(t) /\ NameFits(t)
                 /\ IsName(w, t) /\ Holds(bytes, x, w)
    BY <2>4 DEF Spelt
  <2>6. PICK g : NamesLaid(bytes, g) /\ Spells(g, x, t)
    BY <2>4, <2>5, OneName
  <2>7. DOMAIN g \subseteq x..(x + Len(t) + 1) /\ x \in DOMAIN g /\ g[x] = Spelled(x, t)
    BY <2>6 DEF Spells
  <2>8. Len(t) \in Nat
    BY <2>5 DEF Clean, Bytes
  <2>9. \A p \in DOMAIN f : p \in Int /\ p < x
    <3>1. ASSUME NEW p \in DOMAIN f PROVE p \in 0..(Len(bytes) - 1)
      BY <2>1, Zenon DEF NamesLaid
    <3>2. Len(bytes) \in Nat
      BY DEF Bytes
    <3>3. \A p \in DOMAIN f : p < x
      BY <2>1, <2>2
    <3> QED  BY <3>1, <3>2, <3>3
  <2>10. \A p \in DOMAIN f : p \notin DOMAIN g
    BY <2>4, <2>7, <2>9
  <2>11. PICK names : /\ NamesLaid(bytes, names) /\ DOMAIN names = DOMAIN f \cup DOMAIN g
                      /\ \A p \in DOMAIN f : names[p] = f[p]
                      /\ \A p \in DOMAIN g : names[p] = g[p]
    <3>1. \E names : NamesLaid(bytes, names) /\ Merges(names, f, g)
      BY <2>1, <2>6, <2>10, NamesTogether, Zenon
    <3> QED  BY <3>1 DEF Merges
  <2>12. \A p \in DOMAIN names : p < place[i + 1]
    <3>1. \A p \in DOMAIN g : p < place[i + 1]
      BY <2>4, <2>7, <2>8
    <3>2. \A p \in DOMAIN f : p < place[i + 1]
      <4>1. x < place[i + 1]
        BY <2>4, <2>8
      <4> QED  BY <2>4, <2>9, <4>1
    <3> QED  BY <2>11, <3>1, <3>2
  <2>13. ASSUME NEW j \in 1..i
         PROVE  place[j] \in DOMAIN names /\ names[place[j]] = Spelled(place[j], text[j])
    <3>1. CASE j = i
      BY <2>2, <2>7, <2>11, <3>1
    <3>2. CASE j # i
      <4>1. j \in 1..k
        BY <2>2, <3>2
      <4> QED  BY <2>1, <2>11, <4>1
    <3> QED  BY <3>1, <3>2
  <2>14. Gathered(bytes, place, text, i)
    BY <2>11, <2>12, <2>13 DEF Gathered
  <2> QED  BY <2>2, <2>3, <2>14
<1>3. 0..n \subseteq G
  <2> HIDE DEF G
  <2> QED  BY <1>1, <1>2, StepByStep
<1>4. n \in 0..n
  OBVIOUS
<1> QED  BY <1>3, <1>4

\* What a question, or a record, is at the place where its bytes are.
Good(text) == Clean(text) /\ IsPlain(text) /\ NameFits(text)

LEMMA NameHeld ==
    ASSUME NEW text, Good(text), NEW nm, IsName(nm, text), NEW w, Len(w) \in Nat, Opens(nm, w),
           NEW bytes, Len(bytes) \in Nat, NEW x \in Nat, Holds(bytes, x, w)
    PROVE  Spelt(bytes, x, text) /\ Len(text) \in Nat /\ Len(text) + 2 <= Len(w)
<1>1. Len(text) \in Nat
  BY DEF Good, Clean, Bytes
<1>2. PICK n \in Nat : n = Len(text)
  BY <1>1
<1>3. Len(nm) = n + 2
  BY <1>2 DEF IsName
<1>4. n + 2 <= Len(w)
  BY <1>3 DEF Opens
<1>5. Holds(w, 0, nm)
  BY <1>2, <1>3, AtFront
<1>6. Holds(bytes, x + 0, nm)
  <2>1. 0 \in Nat /\ Len(nm) \in Nat
    BY <1>3
  <2> QED  BY <1>5, <2>1, Deeper, Zenon
<1>7. Holds(bytes, x, nm)
  <2>1. x + 0 = x
    OBVIOUS
  <2> QED  BY <1>6, <2>1
<1> QED  BY <1>2, <1>4, <1>7, Zenon DEF Spelt, Good

QuestionFits(bytes, x, end, q) ==
    \A plan : x \in DOMAIN plan.names /\ plan.names[x] = Spelled(x, q.name)
                => QuestionLaid(bytes, plan, x, end, q)

RecordFits(bytes, x, end, r) ==
    \A plan : x \in DOMAIN plan.names /\ plan.names[x] = Spelled(x, r.domain)
                => RecordLaid(bytes, plan, x, end, r)

LEMMA QuestionHeld ==
    ASSUME NEW q, Good(q.name), NEW w, IsQuestion(w, q),
           NEW bytes, Len(bytes) \in Nat, NEW x \in Nat, Holds(bytes, x, w),
           NEW end, end = x + Len(w)
    PROVE  /\ Spelt(bytes, x, q.name) /\ x + Len(q.name) + 2 <= end
           /\ QuestionFits(bytes, x, end, q)
<1>1. PICK nm : IsName(nm, q.name) /\ Opens(nm, w)
  BY DEF IsQuestion
<1>2. PICK n \in Nat : n = Len(q.name)
  BY DEF Good, Clean, Bytes
<1>3. Len(w) = n + 6 /\ Len(w) \in Nat /\ u16(w[n + 3], w[n + 4]) = q.qtype
  BY <1>2 DEF IsQuestion
<1>4. Spelt(bytes, x, q.name)
  BY <1>1, <1>3, NameHeld
<1>5. bytes[x + n + 2 + 1] = w[n + 3] /\ bytes[x + n + 2 + 2] = w[n + 4]
  <2>1. n + 3 \in 1..Len(w) /\ n + 4 \in 1..Len(w)
    BY <1>3
  <2>2. bytes[x + (n + 3)] = w[n + 3] /\ bytes[x + (n + 4)] = w[n + 4]
    BY <2>1 DEF Holds
  <2>3. x + (n + 3) = x + n + 2 + 1 /\ x + (n + 4) = x + n + 2 + 2
    OBVIOUS
  <2> QED  BY <2>2, <2>3
<1>6. ASSUME NEW plan, x \in DOMAIN plan.names, plan.names[x] = Spelled(x, q.name)
      PROVE  QuestionLaid(bytes, plan, x, end, q)
  <2>1. plan.names[x].text = q.name /\ plan.names[x].after = x + n + 2
    BY <1>2, <1>6 DEF Spelled
  <2>2. end = x + n + 2 + 4
    BY <1>3
  <2>3. q.qtype = u16(bytes[x + n + 2 + 1], bytes[x + n + 2 + 2])
    BY <1>3, <1>5, Zenon
  <2> QED  BY <1>6, <2>1, <2>2, <2>3, Zenon DEF QuestionLaid
<1>7. x + n + 2 <= end
  BY <1>3
<1> QED  BY <1>2, <1>4, <1>6, <1>7 DEF QuestionFits

LEMMA Cut ==
    ASSUME NEW bytes, bytes \in Seq(Byte), NEW t, t \in Seq(Byte), NEW x \in Nat, Holds(bytes, x, t),
           0 < Len(t)
    PROVE  t = SubSeq(bytes, x + 1, x + Len(t))
<1>1. PICK l \in Nat : l = Len(t)
  OBVIOUS
<1>2. PICK a \in Nat, z \in Nat : a = x + 1 /\ z = x + l
  OBVIOUS
<1>3. PICK u : u = SubSeq(bytes, a, z)
  OBVIOUS
<1>4. z <= Len(bytes) /\ Len(bytes) \in Nat /\ a <= z /\ a \in Int /\ z \in Int
  BY <1>1, <1>2 DEF Holds
<1>5. \A i \in a..z : bytes[i] \in Byte
  <2>1. \A i \in a..z : i \in 1..Len(bytes)
    BY <1>2, <1>4
  <2> QED  BY <2>1, ElementOfSeq
<1>6. u \in Seq(Byte) /\ Len(u) = l /\ \A i \in 1..l : u[i] = bytes[a + i - 1]
  <2>1. z - a + 1 = l
    BY <1>2
  <2> QED  BY <1>3, <1>4, <1>5, <2>1, SubSeqProperties
<1>7. \A i \in 1..l : a + i - 1 = x + i
  BY <1>2
<1>8. \A i \in 1..l : u[i] = t[i]
  BY <1>1, <1>6, <1>7 DEF Holds
<1>9. t = u
  BY <1>1, <1>6, <1>8, SeqEqual
<1> QED  BY <1>1, <1>2, <1>3, <1>9

LEMMA RecordHeld ==
    ASSUME NEW r, Address(r), Good(r.domain), NEW w, IsRecord(w, r),
           NEW bytes, bytes \in Seq(Byte), NEW x \in Nat, Holds(bytes, x, w),
           NEW end, end = x + Len(w)
    PROVE  /\ Spelt(bytes, x, r.domain) /\ x + Len(r.domain) + 2 <= end
           /\ RecordFits(bytes, x, end, r)
<1>1. PICK nm : IsName(nm, r.domain) /\ Opens(nm, w)
  BY DEF IsRecord
<1>2. PICK n \in Nat : n = Len(r.domain)
  BY DEF Good, Clean, Bytes
<1>3. PICK l \in Nat : l = Len(r.data) /\ l = IF r.type = A THEN 4 ELSE 16
  BY DEF Address
<1>4. /\ Len(w) = n + 12 + l /\ Len(w) \in Nat /\ Len(bytes) \in Nat
      /\ u16(w[n + 3], w[n + 4]) = r.type /\ u16(w[n + 11], w[n + 12]) = l
      /\ Holds(w, n + 6, r.ttl) /\ Holds(w, n + 12, r.data)
  <2>1. /\ w \in Seq(Byte) /\ Len(w) = n + 12 + l
        /\ u16(w[n + 3], w[n + 4]) = r.type /\ u16(w[n + 11], w[n + 12]) = l
        /\ Holds(w, n + 6, r.ttl) /\ Holds(w, n + 12, r.data)
    BY <1>2, <1>3, Zenon DEF IsRecord
  <2> QED  BY <2>1
<1>5. Spelt(bytes, x, r.domain)
  BY <1>1, <1>4, NameHeld
<1>6. PICK f \in Nat : f = x + n + 2
  OBVIOUS
<1>7. /\ bytes[f + 1] = w[n + 3] /\ bytes[f + 2] = w[n + 4]
      /\ bytes[f + 9] = w[n + 11] /\ bytes[f + 10] = w[n + 12]
  <2>1. n + 3 \in 1..Len(w) /\ n + 4 \in 1..Len(w) /\ n + 11 \in 1..Len(w) /\ n + 12 \in 1..Len(w)
    BY <1>3, <1>4
  <2>2. /\ bytes[x + (n + 3)] = w[n + 3] /\ bytes[x + (n + 4)] = w[n + 4]
        /\ bytes[x + (n + 11)] = w[n + 11] /\ bytes[x + (n + 12)] = w[n + 12]
    BY <2>1 DEF Holds
  <2>3. /\ x + (n + 3) = f + 1 /\ x + (n + 4) = f + 2
        /\ x + (n + 11) = f + 9 /\ x + (n + 12) = f + 10
    BY <1>6
  <2> QED  BY <2>2, <2>3
<1>8. r.ttl = SubSeq(bytes, f + 5, f + 8)
  <2>1. PICK y \in Nat : y = n + 6
    OBVIOUS
  <2>2. r.ttl \in Seq(Byte) /\ Len(r.ttl) = 4 /\ 0 < Len(r.ttl)
    BY DEF Address
  <2>3. Holds(bytes, x + y, r.ttl) /\ x + y \in Nat
    BY <1>4, <2>1, <2>2, Deeper
  <2>4. r.ttl = SubSeq(bytes, (x + y) + 1, (x + y) + Len(r.ttl))
    BY <2>2, <2>3, Cut
  <2>5. (x + y) + 1 = f + 5 /\ (x + y) + 4 = f + 8
    BY <1>6, <2>1
  <2> QED  BY <2>2, <2>4, <2>5
<1>9. r.data = SubSeq(bytes, f + 10 + 1, f + 10 + l)
  <2>1. PICK y \in Nat : y = n + 12
    OBVIOUS
  <2>2. r.data \in Seq(Byte) /\ 0 < Len(r.data) /\ Len(r.data) \in Nat
    BY <1>3 DEF Address
  <2>3. Holds(bytes, x + y, r.data) /\ x + y \in Nat
    BY <1>4, <2>1, <2>2, Deeper
  <2>4. r.data = SubSeq(bytes, (x + y) + 1, (x + y) + l)
    <3>1. PICK z \in Nat : z = x + y
      BY <2>3
    <3>2. Holds(bytes, z, r.data)
      BY <2>3, <3>1
    <3>3. r.data = SubSeq(bytes, z + 1, z + Len(r.data))
      BY <2>2, <3>2, Cut
    <3> QED  BY <1>3, <3>1, <3>3
  <2>5. (x + y) + 1 = f + 10 + 1 /\ (x + y) + l = f + 10 + l
    BY <1>6, <2>1
  <2> QED  BY <2>4, <2>5
<1>10. end = f + 10 + l
  BY <1>4, <1>6
<1>11. ASSUME NEW plan, x \in DOMAIN plan.names, plan.names[x] = Spelled(x, r.domain)
       PROVE  RecordLaid(bytes, plan, x, end, r)
  <2>1. plan.names[x].text = r.domain /\ plan.names[x].after = f
    BY <1>2, <1>6, <1>11 DEF Spelled
  <2>2. f + 10 <= end /\ end = f + 10 + u16(bytes[f + 9], bytes[f + 10])
    <3>1. u16(bytes[f + 9], bytes[f + 10]) = l
      BY <1>4, <1>7, Zenon
    <3>2. f + 10 <= end
      BY <1>10
    <3> QED  BY <1>10, <3>1, <3>2
  <2>3. r.type = u16(bytes[f + 1], bytes[f + 2])
    BY <1>4, <1>7, Zenon
  <2>4. DataLaid(bytes, plan, f + 10, end, r)
    <3>1. PICK d, data : d = f + 10 /\ data = SubSeq(bytes, d + 1, end)
      OBVIOUS
    <3>2. end = d + l /\ r.data = data
      BY <1>9, <1>10, <3>1
    <3>3. CASE r.type = A
      <4>1. end = d + 4
        BY <1>3, <3>2, <3>3
      <4> QED  BY <3>1, <3>2, <3>3, <4>1 DEF DataLaid, A, AAAA, CNAME, NS, MX, TXT
    <3>4. CASE r.type # A
      <4>1. end = d + 16 /\ r.type = AAAA
        BY <1>3, <3>2, <3>4 DEF Address
      <4> QED  BY <3>1, <3>2, <3>4, <4>1 DEF DataLaid, A, AAAA, CNAME, NS, MX, TXT
    <3> QED  BY <3>3, <3>4
  <2>5. PICK g : g = plan.names[x].after
    OBVIOUS
  <2>6. /\ g + 10 <= end /\ end = g + 10 + u16(bytes[g + 9], bytes[g + 10])
        /\ r.type = u16(bytes[g + 1], bytes[g + 2])
        /\ r.ttl = SubSeq(bytes, g + 5, g + 8)
        /\ DataLaid(bytes, plan, g + 10, end, r)
    BY <1>8, <2>1, <2>2, <2>3, <2>4, <2>5, Zenon
  <2> QED  BY <1>11, <2>1, <2>5, <2>6, Zenon DEF RecordLaid
<1>12. x + n + 2 <= end
  BY <1>4
<1> QED  BY <1>2, <1>5, <1>11, <1>12 DEF RecordFits

\* Questions and records in a row, every name of them good, are laid out.
LaidInRow(bytes, plan, qs, rs) ==
    LET n == Len(qs)
    IN  /\ NamesLaid(bytes, plan.names) /\ StringsLaid(bytes, plan.strings)
        /\ plan.at \in [1..(n + Len(rs) + 1) -> 12..Len(bytes)] /\ plan.at[1] = 12
        /\ \A i \in 1..n : QuestionLaid(bytes, plan, plan.at[i], plan.at[i + 1], qs[i])
        /\ \A i \in 1..Len(rs) : RecordLaid(bytes, plan, plan.at[n + i], plan.at[n + i + 1], rs[i])

LEMMA RowIsLaid ==
    ASSUME NEW bytes, NEW h, NEW qs, NEW rs, NEW at, NEW to, Pieced(bytes, h, qs, rs, at, to),
           Len(qs) \in Nat, Len(rs) \in Nat,
           \A i \in 1..Len(qs) : Good(qs[i].name),
           \A i \in 1..Len(rs) : Address(rs[i]) /\ Good(rs[i].domain)
    PROVE  \E plan : LaidInRow(bytes, plan, qs, rs)
<1>1. PICK n \in Nat, m \in Nat : n = Len(qs) /\ m = Len(rs)
  OBVIOUS
<1>2. PICK len \in Nat : len = Len(bytes)
  BY DEF Pieced
<1>3. /\ bytes \in Bytes /\ at[1] = 12 /\ to[1] = at[n + 1]
      /\ \A i \in 1..(n + 1) : at[i] \in 12..len
      /\ \A i \in 1..(m + 1) : to[i] \in 12..len
      /\ \A i \in 1..n : \E w : /\ IsQuestion(w, qs[i]) /\ Holds(bytes, at[i], w)
                                /\ at[i + 1] = at[i] + Len(w)
      /\ \A i \in 1..m : \E w : /\ IsRecord(w, rs[i]) /\ Holds(bytes, to[i], w)
                                /\ to[i + 1] = to[i] + Len(w)
  BY <1>1, <1>2, Zenon DEF Pieced
<1>4. bytes \in Seq(Byte)
  BY <1>3 DEF Bytes
<1>5. ASSUME NEW i \in 1..n
      PROVE  /\ Spelt(bytes, at[i], qs[i].name) /\ at[i] + Len(qs[i].name) + 2 <= at[i + 1]
             /\ QuestionFits(bytes, at[i], at[i + 1], qs[i])
  <2>1. PICK w : /\ IsQuestion(w, qs[i]) /\ Holds(bytes, at[i], w) /\ at[i + 1] = at[i] + Len(w)
    BY <1>3
  <2>2. at[i] \in Nat
    BY <1>3
  <2>3. Good(qs[i].name)
    BY <1>1
  <2> QED  BY <1>2, <2>1, <2>2, <2>3, QuestionHeld
<1>6. ASSUME NEW i \in 1..m
      PROVE  /\ Spelt(bytes, to[i], rs[i].domain) /\ to[i] + Len(rs[i].domain) + 2 <= to[i + 1]
             /\ RecordFits(bytes, to[i], to[i + 1], rs[i])
  <2>1. PICK w : /\ IsRecord(w, rs[i]) /\ Holds(bytes, to[i], w) /\ to[i + 1] = to[i] + Len(w)
    BY <1>3
  <2>2. to[i] \in Nat
    BY <1>3
  <2>3. Address(rs[i]) /\ Good(rs[i].domain)
    BY <1>1
  <2> QED  BY <1>4, <2>1, <2>2, <2>3, RecordHeld
<1>7. PICK place : place = [k \in 1..(n + m + 1) |-> IF k <= n THEN at[k] ELSE to[k - n]]
  OBVIOUS
<1>8. PICK text : text = [k \in 1..(n + m) |-> IF k <= n THEN qs[k].name ELSE rs[k - n].domain]
  OBVIOUS
<1>9. ASSUME NEW i \in 1..n
      PROVE  place[i] = at[i] /\ place[i + 1] = at[i + 1] /\ text[i] = qs[i].name
  <2>1. i \in 1..(n + m + 1) /\ i + 1 \in 1..(n + m + 1) /\ i \in 1..(n + m) /\ i <= n
    OBVIOUS
  <2>2. place[i] = at[i] /\ text[i] = qs[i].name
    BY <1>7, <1>8, <2>1
  <2>3. CASE i = n
    <3>1. ~(i + 1 <= n) /\ (i + 1) - n = 1
      BY <2>3
    <3>2. place[i + 1] = to[1]
      BY <1>7, <2>1, <3>1
    <3> QED  BY <1>3, <2>2, <2>3, <3>2
  <2>4. CASE i # n
    <3>1. i + 1 <= n
      BY <2>4
    <3> QED  BY <1>7, <2>1, <2>2, <3>1
  <2> QED  BY <2>3, <2>4
<1>10. ASSUME NEW i \in 1..m
       PROVE  place[n + i] = to[i] /\ place[n + i + 1] = to[i + 1] /\ text[n + i] = rs[i].domain
  <2>1. PICK k, l : k = n + i /\ l = n + i + 1
    OBVIOUS
  <2>2. /\ k \in 1..(n + m + 1) /\ k \in 1..(n + m) /\ ~(k <= n) /\ k - n = i
        /\ l \in 1..(n + m + 1) /\ ~(l <= n) /\ l - n = i + 1
    BY <2>1
  <2>3. place[k] = to[i] /\ place[l] = to[i + 1] /\ text[k] = rs[i].domain
    BY <1>7, <1>8, <2>2
  <2> QED  BY <2>1, <2>3
<1>11. ASSUME NEW k \in 1..(n + m + 1) PROVE place[k] \in 12..len
  <2>1. CASE k <= n
    <3>1. k \in 1..(n + 1)
      BY <2>1
    <3>2. place[k] = at[k]
      BY <1>7, <2>1
    <3> QED  BY <1>3, <3>1, <3>2
  <2>2. CASE ~(k <= n)
    <3>1. k - n \in 1..(m + 1)
      BY <2>2
    <3>2. place[k] = to[k - n]
      BY <1>7, <2>2
    <3> QED  BY <1>3, <3>1, <3>2
  <2> QED  BY <2>1, <2>2
<1>12. ASSUME NEW k \in 1..(n + m)
       PROVE  Spelt(bytes, place[k], text[k]) /\ place[k] + Len(text[k]) + 2 <= place[k + 1]
  <2>1. CASE k <= n
    <3>1. k \in 1..n
      BY <2>1
    <3> QED  BY <1>5, <1>9, <3>1
  <2>2. CASE ~(k <= n)
    <3>1. PICK i : i = k - n
      OBVIOUS
    <3>2. i \in 1..m /\ k = n + i
      BY <2>2, <3>1
    <3> QED  BY <1>6, <1>10, <3>2
  <2> QED  BY <2>1, <2>2
<1>13. PICK all \in Nat : all = n + m
  OBVIOUS
<1>14. Gathered(bytes, place, text, all)
  <2>1. \A k \in 1..(all + 1) : place[k] \in Nat
    <3>1. \A k \in 1..(all + 1) : place[k] \in 12..len
      BY <1>11, <1>13
    <3> QED  BY <3>1
  <2>2. \A k \in 1..all : Spelt(bytes, place[k], text[k])
                            /\ place[k] + Len(text[k]) + 2 <= place[k + 1]
    BY <1>12, <1>13
  <2> QED  BY <1>3, <2>1, <2>2, AllNames
<1>15. PICK names : /\ NamesLaid(bytes, names)
                    /\ \A k \in 1..all : /\ place[k] \in DOMAIN names
                                         /\ names[place[k]] = Spelled(place[k], text[k])
  BY <1>14 DEF Gathered
<1>16. PICK strings : strings = [p \in {} |-> 0]
  OBVIOUS
<1>17. StringsLaid(bytes, strings)
  <2>1. DOMAIN strings = {}
    BY <1>16
  <2> QED  BY <2>1 DEF StringsLaid
<1>18. PICK plan : plan = [at |-> place, names |-> names, strings |-> strings]
  OBVIOUS
<1>19. plan.at = place /\ plan.names = names /\ plan.strings = strings
  BY <1>18
<1>20. plan.at \in [1..(n + m + 1) -> 12..len] /\ plan.at[1] = 12
  <2>1. place \in [1..(n + m + 1) -> 12..len]
    BY <1>7, <1>11
  <2>2. place[1] = 12
    <3>1. CASE n = 0
      <4>1. ~(1 <= n) /\ 1 - n = 1 /\ 1 \in 1..(n + m + 1) /\ n + 1 = 1
        BY <3>1
      <4> QED  BY <1>3, <1>7, <4>1
    <3>2. CASE n # 0
      <4>1. 1 \in 1..n
        BY <3>2
      <4> QED  BY <1>3, <1>9, <4>1
    <3> QED  BY <3>1, <3>2
  <2> QED  BY <1>19, <2>1, <2>2
<1>21. ASSUME NEW i \in 1..n
       PROVE  QuestionLaid(bytes, plan, plan.at[i], plan.at[i + 1], qs[i])
  <2>1. i \in 1..all
    BY <1>13
  <2>2. at[i] \in DOMAIN plan.names /\ plan.names[at[i]] = Spelled(at[i], qs[i].name)
    BY <1>9, <1>15, <1>19, <2>1
  <2>3. QuestionLaid(bytes, plan, at[i], at[i + 1], qs[i])
    BY <1>5, <2>2 DEF QuestionFits
  <2> QED  BY <1>9, <1>19, <2>3
<1>22. ASSUME NEW i \in 1..m
       PROVE  RecordLaid(bytes, plan, plan.at[n + i], plan.at[n + i + 1], rs[i])
  <2>1. PICK k : k = n + i
    OBVIOUS
  <2>2. k \in 1..all /\ place[k] = to[i] /\ text[k] = rs[i].domain
    BY <1>10, <1>13, <2>1
  <2>3. to[i] \in DOMAIN plan.names /\ plan.names[to[i]] = Spelled(to[i], rs[i].domain)
    BY <1>15, <1>19, <2>2
  <2>4. RecordLaid(bytes, plan, to[i], to[i + 1], rs[i])
    BY <1>6, <2>3 DEF RecordFits
  <2> QED  BY <1>10, <1>19, <2>4
<1>23. LaidInRow(bytes, plan, qs, rs)
  BY <1>1, <1>2, <1>15, <1>17, <1>19, <1>20, <1>21, <1>22, Zenon DEF LaidInRow
<1> QED  BY <1>23

LEMMA HeaderLaid ==
    ASSUME NEW h \in Header, NEW w, IsHeader(w, h), NEW bytes, bytes \in Bytes, Opens(w, bytes)
    PROVE  /\ Len(bytes) >= 12
           /\ h = [id |-> SubSeq(bytes, 1, 2), a |-> bytes[3], b |-> bytes[4],
                   questions |-> u16(bytes[5], bytes[6]), answers |-> u16(bytes[7], bytes[8]),
                   authoritative_entries |-> u16(bytes[9], bytes[10]),
                   resource_entries |-> u16(bytes[11], bytes[12])]
<1>1. bytes \in Seq(Byte) /\ Len(bytes) \in Nat
  BY DEF Bytes
<1>2. Len(w) = 12 /\ w \in Seq(Byte)
  BY DEF IsHeader
<1>3. Len(bytes) >= 12 /\ \A i \in 1..12 : bytes[i] = w[i]
  BY <1>1, <1>2 DEF Opens
<1>4. /\ bytes[1] = w[1] /\ bytes[2] = w[2] /\ bytes[3] = w[3] /\ bytes[4] = w[4]
      /\ bytes[5] = w[5] /\ bytes[6] = w[6] /\ bytes[7] = w[7] /\ bytes[8] = w[8]
      /\ bytes[9] = w[9] /\ bytes[10] = w[10] /\ bytes[11] = w[11] /\ bytes[12] = w[12]
  BY <1>3
<1>5. h.id = SubSeq(bytes, 1, 2)
  <2>1. PICK t : t = <<w[1], w[2]>>
    OBVIOUS
  <2>2. w[1] \in Byte /\ w[2] \in Byte
    <3>1. 1 \in 1..Len(w) /\ 2 \in 1..Len(w)
      BY <1>2
    <3> QED  BY <1>2, <3>1, ElementOfSeq
  <2>3. t \in Seq(Byte) /\ Len(t) = 2 /\ t[1] = w[1] /\ t[2] = w[2]
    BY <2>1, <2>2
  <2>4. Holds(bytes, 0, t)
    <3>1. \A p \in 1..2 : bytes[0 + p] = t[p]
      BY <1>4, <2>3
    <3> QED  BY <1>1, <1>3, <2>3, <3>1 DEF Holds
  <2>5. t = SubSeq(bytes, 0 + 1, 0 + Len(t))
    <3>1. 0 \in Nat /\ 0 < Len(t)
      BY <2>3
    <3> QED  BY <1>1, <2>3, <2>4, <3>1, Cut
  <2>6. t = SubSeq(bytes, 1, 2)
    BY <2>3, <2>5
  <2> QED  BY <2>1, <2>6 DEF IsHeader
<1>6. /\ h.a = bytes[3] /\ h.b = bytes[4]
      /\ h.questions = u16(bytes[5], bytes[6]) /\ h.answers = u16(bytes[7], bytes[8])
      /\ h.authoritative_entries = u16(bytes[9], bytes[10])
      /\ h.resource_entries = u16(bytes[11], bytes[12])
  BY <1>4, Zenon DEF IsHeader
<1>7. h = [id |-> h.id, a |-> h.a, b |-> h.b, questions |-> h.questions, answers |-> h.answers,
           authoritative_entries |-> h.authoritative_entries,
           resource_entries |-> h.resource_entries]
  BY DEF Header
<1> QED  BY <1>3, <1>5, <1>6, <1>7, Zenon

\* What the server writes is laid out as a packet: the answer.
LEMMA AnswerLaid ==
    ASSUME NEW q, Read(q), NEW p \in Policy, Writable(synthesize(q, p)),
           \A x \in ToSet(q.questions) : IsPlain(x.name)
    PROVE  \E plan : Laid(Write(synthesize(q, p)), Answered(q, p), plan)
<1>1. PICK a, qs, rs, h, bytes, answer :
        /\ a = synthesize(q, p) /\ qs = q.questions /\ rs = BlockRecords(q.questions, p)
        /\ h = Answered(q, p).header /\ bytes = Write(synthesize(q, p))
        /\ answer = Answered(q, p)
  OBVIOUS
<1>2. /\ h \in Header /\ h.b % 16 <= 5
      /\ h.questions = Len(qs) /\ h.answers = Len(rs)
      /\ h.authoritative_entries = 0 /\ h.resource_entries = 0
      /\ answer = [header |-> h, questions |-> qs, answers |-> rs,
                   authorities |-> << >>, resources |-> << >>]
  BY <1>1, AnswerFields, ZenonT(40)
<1>3. PICK at, to : Pieced(bytes, h, qs, rs, at, to)
  BY <1>1, AnswerWritten, Zenon
<1>4. qs \in Seq(CleanQuestion) /\ Len(qs) \in Nat
  BY <1>1 DEF Read
<1>5. ASSUME NEW i \in 1..Len(qs) PROVE Good(qs[i].name)
  <2>1. PICK x : x = qs[i]
    OBVIOUS
  <2>2. x \in ToSet(qs)
    BY <1>4, <2>1 DEF ToSet
  <2>3. x \in CleanQuestion
    BY <1>4, <2>1, ElementOfSeq
  <2>4. Clean(x.name)
    BY <2>3 DEF CleanQuestion, Texts
  <2>5. IsPlain(x.name)
    BY <1>1, <2>2
  <2>6. NameFits(x.name)
    <3>1. a.questions = qs
      BY <1>1 DEF synthesize, Read
    <3> QED  BY <1>1, <2>2, <3>1 DEF Writable
  <2> QED  BY <2>1, <2>4, <2>5, <2>6 DEF Good
<1>6. /\ rs \in Seq(Record) /\ Len(rs) \in Nat
      /\ \A i \in 1..Len(rs) : Address(rs[i]) /\ Good(rs[i].domain)
  <2>1. CASE rs = << >>
    <3>1. rs \in Seq(Record) /\ 1..Len(rs) = {}
      BY <2>1
    <3> QED  BY <3>1
  <2>2. CASE rs # << >>
    <3>1. PICK r \in Record : rs = <<r>> /\ Address(r) /\ qs # << >> /\ r.domain = qs[1].name
      BY <1>1, <1>4, <2>2, Blocked
    <3>2. 1 \in 1..Len(qs)
      BY <1>4, <3>1, EmptySeq
    <3>3. Good(r.domain)
      BY <1>5, <3>1, <3>2
    <3>4. rs \in Seq(Record) /\ Len(rs) = 1 /\ \A i \in 1..Len(rs) : rs[i] = r
      BY <3>1
    <3> QED  BY <3>1, <3>3, <3>4
  <2> QED  BY <2>1, <2>2
<1>7. PICK plan : LaidInRow(bytes, plan, qs, rs)
  BY <1>3, <1>4, <1>5, <1>6, RowIsLaid
<1>8. PICK w : bytes \in Bytes /\ IsHeader(w, h) /\ Opens(w, bytes)
  BY <1>3 DEF Pieced
<1>9. /\ Len(bytes) >= 12
      /\ h = [id |-> SubSeq(bytes, 1, 2), a |-> bytes[3], b |-> bytes[4],
              questions |-> u16(bytes[5], bytes[6]), answers |-> u16(bytes[7], bytes[8]),
              authoritative_entries |-> u16(bytes[9], bytes[10]),
              resource_entries |-> u16(bytes[11], bytes[12])]
  BY <1>2, <1>8, HeaderLaid, Zenon
<1>10. /\ answer.header = h /\ answer.questions = qs /\ answer.answers = rs
       /\ answer.authorities = << >> /\ answer.resources = << >>
  BY <1>2
<1>11. answer \in Packet
  <2>1. qs \in Seq(Question)
    <3>1. \A x \in CleanQuestion : x \in Question
      BY DEF CleanQuestion, Question, Texts
    <3>2. \A i \in 1..Len(qs) : qs[i] \in Question
      BY <1>4, <3>1, ElementOfSeq
    <3> QED  BY <1>4, <3>2
  <2>2. << >> \in Seq(Record)
    OBVIOUS
  <2> QED  BY <1>2, <1>6, <2>1, <2>2 DEF Packet
<1>12. Records(answer) = rs
  <2>1. rs \o << >> = rs
    BY <1>6
  <2>2. Records(answer) = (rs \o << >>) \o << >>
    BY <1>10, Zenon DEF Records
  <2> QED  BY <2>1, <2>2, Zenon
<1>13. Len(<< >>) = 0
  OBVIOUS
<1>14. Laid(bytes, answer, plan)
  BY <1>2, <1>7, <1>9, <1>10, <1>11, <1>12, <1>13, Zenon DEF Laid, LaidInRow
<1> QED  BY <1>1, <1>14, Zenon

\* The client is in step with what the server wrote.
PlainQuery == \A q \in ToSet(asked.questions) : IsPlain(q.name)

Fits ==
    side = "client" /\ PlainQuery =>
        \E p, plan : p = Answered(asked, policy) /\ Laid(buf, p, plan) /\ InStep(p, plan)

LEMMA AnswerStartsFit ==
    ASSUME IInv, Answer, side' = "client"
    PROVE  Fits'
<1>1. PICK p \in Policies :
        /\ Writable(synthesize(packet, p)) /\ buf' = Write(synthesize(packet, p))
        /\ policy' = p /\ asked' = packet /\ pc' = "header" /\ packet' = NewPacket
  <2>1. side' # side
    BY DEF Answer
  <2>2. ~UNCHANGED message
    BY <2>1 DEF message
  <2> QED  BY <2>2, Zenon DEF Answer
<1>2. p \in Policy
  BY ReaderAssumption
<1>3. Read(packet)
  BY PacketIsRead DEF IInv
<1> SUFFICES ASSUME \A q \in ToSet(packet.questions) : IsPlain(q.name)
             PROVE  (\E x, plan : x = Answered(asked, policy) /\ Laid(buf, x, plan) /\ InStep(x, plan))'
  BY <1>1 DEF Fits, PlainQuery
<1>4. PICK x : x = Answered(packet, p)
  OBVIOUS
<1>5. PICK plan : Laid(buf', x, plan)
  BY <1>1, <1>2, <1>3, <1>4, AnswerLaid, Zenon
<1>6. InStep(x, plan)'
  BY <1>1 DEF InStep
<1>7. x = Answered(asked', policy')
  BY <1>1, <1>4
<1> QED  BY <1>5, <1>6, <1>7

LEMMA StepFits ==
    ASSUME IInv, Fits, [Next]_vars
    PROVE  Fits'
<1>1. CASE Answer
  <2>1. CASE side' = "client"
    BY <1>1, <2>1, AnswerStartsFit
  <2>2. CASE side' # "client"
    BY <2>2 DEF Fits
  <2> QED  BY <2>1, <2>2
<1>2. CASE ~Answer
  <2> SUFFICES ASSUME side' = "client", PlainQuery'
               PROVE  (\E p, plan : p = Answered(asked, policy) /\ Laid(buf, p, plan) /\ InStep(p, plan))'
    BY DEF Fits
  <2>1. buf' = buf /\ side' = side /\ asked' = asked /\ policy' = policy
    BY <1>2, MessageKept DEF message
  <2>2. PlainQuery
    BY <2>1 DEF PlainQuery
  <2>3. PICK p, plan : p = Answered(asked, policy) /\ Laid(buf, p, plan) /\ InStep(p, plan)
    BY <2>1, <2>2 DEF Fits
  <2>4. Reading(p, plan)
    BY <2>3 DEF IInv, Reading
  <2>5. InStep(p, plan)'
    BY <1>2, <2>4, StepInStep
  <2> QED  BY <2>1, <2>3, <2>5
<1> QED  BY <1>1, <1>2

LEMMA InvFits == IInv /\ Fits => AnswerFits
<1> SUFFICES ASSUME IInv, Fits, side = "client", PlainQuery
             PROVE  /\ pc # "failed"
                    /\ pc = "parsed" =>
                         /\ packet.header.id = asked.header.id
                         /\ packet.header.a = 128 + (asked.header.a % 128)
                         /\ packet.header.b % 16 = Codes[policy.response]
                         /\ packet.questions = asked.questions
                         /\ packet.answers = BlockRecords(asked.questions, policy)
                         /\ packet.authorities = << >> /\ packet.resources = << >>
  BY DEF AnswerFits, PlainQuery
<1>1. PICK p, plan : p = Answered(asked, policy) /\ Laid(buf, p, plan) /\ InStep(p, plan)
  BY DEF Fits
<1>2. pc # "failed" /\ (pc = "parsed" => packet = p)
  BY <1>1 DEF InStep
<1>3. Read(asked) /\ policy \in Policy
  BY ReaderAssumption DEF IInv, Asked
<1>4. PICK h, rs : h = Answered(asked, policy).header /\ rs = BlockRecords(asked.questions, policy)
  OBVIOUS
<1>5. /\ h.id = asked.header.id /\ h.a = 128 + (asked.header.a % 128)
      /\ h.b % 16 = Codes[policy.response]
      /\ p = [header |-> h, questions |-> asked.questions, answers |-> rs,
              authorities |-> << >>, resources |-> << >>]
  BY <1>1, <1>3, <1>4, AnswerFields, ZenonT(40)
<1>6. /\ p.header = h /\ p.questions = asked.questions /\ p.answers = rs
      /\ p.authorities = << >> /\ p.resources = << >>
  BY <1>5
<1> QED  BY <1>2, <1>4, <1>5, <1>6, Zenon

\* An answer the server makes up for a query whose names are plain is read by
\* the client without an error, and has the query's id and questions, the code
\* of the policy, and an address exactly where the policy gives one
\* (blocking.rs:43-106, packet.rs:58-80, buffer.rs:162-174, packet.rs:35-56).
THEOREM FittingAnswers == Spec => []AnswerFits
<1>1. Init => IInv
  BY InitialInv
<1>2. Init => Fits
  BY DEF Init, Fits
<1>3. IInv /\ [Next]_vars => IInv'
  BY StepInv
<1>4. IInv /\ Fits /\ [Next]_vars => Fits'
  BY StepFits
<1>5. IInv /\ Fits => AnswerFits
  BY InvFits
<1> QED  BY <1>1, <1>2, <1>3, <1>4, <1>5, PTL DEF Spec

-----------------------------------------------------------------------------
(* A name is left where it ends in place.                                  *)

\* The recursion of EndInPlace, and that it is well defined.
Ending(bytes, end, q) ==
    IF ~(q + 1 <= Len(bytes)) THEN Len(bytes)
    ELSE CASE bytes[q + 1] >= 192 -> q + 2
           [] bytes[q + 1] = 0    -> q + 1
           [] OTHER -> IF q + 1 + bytes[q + 1] <= Len(bytes)
                       THEN end[q + 1 + bytes[q + 1]] ELSE Len(bytes)

InPlace(end, bytes) == end = [q \in 0..Len(bytes) |-> Ending(bytes, end, q)]

Agree(f, g, k, n) == \A p \in (k + 1)..n : f[p] = g[p]

LEMMA SameEnding ==
    ASSUME NEW bytes, bytes \in Bytes, NEW q \in 0..Len(bytes), NEW f, NEW g,
           Agree(f, g, q, Len(bytes))
    PROVE  Ending(bytes, f, q) = Ending(bytes, g, q)
<1>1. PICK len \in Nat : len = Len(bytes)
  BY DEF Bytes
<1>2. CASE ~(q + 1 <= len)
  BY <1>1, <1>2, Zenon DEF Ending
<1>3. CASE q + 1 <= len
  <2>1. q + 1 \in 1..Len(bytes) /\ bytes \in Seq(Byte)
    BY <1>1, <1>3 DEF Bytes
  <2>2. bytes[q + 1] \in Byte
    BY <2>1, ElementOfSeq
  <2>3. PICK b \in 0..255 : b = bytes[q + 1]
    BY <2>2 DEF Byte
  <2>4. CASE b >= 192 \/ b = 0
    BY <1>1, <1>3, <2>3, <2>4 DEF Ending
  <2>5. CASE ~(b >= 192) /\ b # 0
    <3>1. PICK on : on = q + 1 + b
      OBVIOUS
    <3>2. on <= len => on \in (q + 1)..Len(bytes)
      BY <1>1, <2>5, <3>1
    <3>3. on <= len => f[on] = g[on]
      BY <3>2 DEF Agree
    <3>4. Ending(bytes, f, q) = (IF on <= len THEN f[on] ELSE len)
      BY <1>1, <1>3, <2>3, <2>5, <3>1 DEF Ending
    <3>5. Ending(bytes, g, q) = (IF on <= len THEN g[on] ELSE len)
      BY <1>1, <1>3, <2>3, <2>5, <3>1 DEF Ending
    <3> QED  BY <3>3, <3>4, <3>5
  <2> QED  BY <2>4, <2>5
<1> QED  BY <1>2, <1>3, <1>1

LEMMA EndsInPlace ==
    ASSUME NEW bytes, bytes \in Bytes
    PROVE  \E end : InPlace(end, bytes)
<1>1. PICK n \in Nat : n = Len(bytes)
  BY DEF Bytes
<1> DEFINE Ends0(end, d) == end = [q \in (n - d)..n |-> Ending(bytes, end, q)]
           G == {d \in 0..n : \E end : Ends0(end, d)}
<1>2. ASSUME NEW end, NEW d \in 0..n, NEW k \in 0..n, k = n - d,
             \A q \in (k + 1)..n : end[q] = Ending(bytes, end, q),
             NEW g, g = [q \in k..n |-> IF q = k THEN Ending(bytes, end, k) ELSE end[q]]
      PROVE  Ends0(g, d)
  <2>1. \A q \in (k + 1)..n : q \in k..n /\ q # k
    OBVIOUS
  <2>2. \A q \in (k + 1)..n : g[q] = end[q]
    BY <1>2, <2>1
  <2>3. ASSUME NEW q \in k..n PROVE Ending(bytes, g, q) = Ending(bytes, end, q)
    <3>1. q \in 0..Len(bytes) /\ \A p \in (q + 1)..Len(bytes) : p \in (k + 1)..n
      BY <1>1
    <3>2. \A p \in (q + 1)..Len(bytes) : g[p] = end[p]
      BY <2>2, <3>1
    <3> QED  BY <3>1, <3>2, SameEnding DEF Agree
  <2>4. ASSUME NEW q \in k..n PROVE g[q] = Ending(bytes, g, q)
    <3>1. CASE q = k
      <4>1. g[q] = Ending(bytes, end, k)
        BY <1>2, <3>1
      <4> QED  BY <2>3, <3>1, <4>1
    <3>2. CASE q # k
      <4>1. q \in (k + 1)..n
        BY <3>2
      <4> QED  BY <1>2, <2>2, <2>3, <4>1
    <3> QED  BY <3>1, <3>2
  <2>5. g = [q \in k..n |-> Ending(bytes, g, q)]
    <3>1. PICK h : h = [q \in k..n |-> Ending(bytes, g, q)]
      OBVIOUS
    <3>2. \A q \in k..n : g[q] = h[q]
      BY <2>4, <3>1
    <3>3. DOMAIN g = k..n /\ DOMAIN h = k..n /\ g = [q \in k..n |-> g[q]] /\ h = [q \in k..n |-> h[q]]
      BY <1>2, <3>1
    <3>4. g = h
      BY <3>2, <3>3
    <3> QED  BY <3>1, <3>4
  <2> QED  BY <1>2, <2>5
<1>3. 0 \in G
  <2>1. PICK end : end = [q \in {} |-> 0]
    OBVIOUS
  <2>2. PICK g : g = [q \in n..n |-> IF q = n THEN Ending(bytes, end, n) ELSE end[q]]
    OBVIOUS
  <2>3. n = n - 0 /\ 0 \in 0..n /\ n \in 0..n /\ \A q \in (n + 1)..n : end[q] = Ending(bytes, end, q)
    OBVIOUS
  <2> HIDE DEF Ends0
  <2>4. Ends0(g, 0)
    BY <1>2, <2>2, <2>3
  <2> QED  BY <2>3, <2>4
<1>4. ASSUME NEW d \in 0..(n - 1), d \in G PROVE d + 1 \in G
  <2>1. PICK end : Ends0(end, d)
    BY <1>4
  <2>2. PICK e \in 0..n, k \in 0..n : e = d + 1 /\ k = n - e /\ n - d = k + 1
    OBVIOUS
  <2>3. \A q \in (k + 1)..n : end[q] = Ending(bytes, end, q)
    BY <2>1, <2>2
  <2>4. PICK g : g = [q \in k..n |-> IF q = k THEN Ending(bytes, end, k) ELSE end[q]]
    OBVIOUS
  <2> HIDE DEF Ends0
  <2>5. Ends0(g, e)
    BY <1>2, <2>2, <2>3, <2>4
  <2> QED  BY <2>2, <2>5
<1>5. n \in G
  <2> HIDE DEF G
  <2>1. 0..n \subseteq G
    BY <1>3, <1>4, StepByStep
  <2> QED  BY <2>1
<1>6. PICK end : Ends0(end, n)
  BY <1>5
<1>7. n - n = 0
  OBVIOUS
<1> QED  BY <1>1, <1>6, <1>7 DEF InPlace

LEMMA PlaceIsOne ==
    ASSUME buf \in Bytes
    PROVE  \E end : InPlace(end, buf) /\ \A p : EndInPlace(p) = end[p]
<1> DEFINE Is(end) == end = [q \in 0..Len(buf) |->
                               IF ~Has(q, 1) THEN Len(buf)
                               ELSE CASE get(q) >= 192 -> q + 2
                                      [] get(q) = 0    -> q + 1
                                      [] OTHER -> IF Has(q + 1, get(q)) THEN end[q + 1 + get(q)]
                                                  ELSE Len(buf)]
<1>1. \A end : Is(end) <=> InPlace(end, buf)
  BY Zenon DEF InPlace, Ending, Has, get
<1>2. \A p : EndInPlace(p) = (CHOOSE end : Is(end))[p]
  BY DEF EndInPlace
<1> HIDE DEF Is
<1>3. \E end : Is(end)
  BY <1>1, EndsInPlace
<1>4. Is(CHOOSE end : Is(end))
  BY <1>3
<1> QED  BY <1>1, <1>2, <1>4

\* Before the first jump, what is left of the name ends where all of it does;
\* from then on the position is there.
Kept(end) ==
    IF Walking /\ ~walk.jumped THEN end[walk.from] = end[walk.at]
    ELSE pc \in {"owner", "host", "named", "hosted"} => pos = end[walk.from]

Follows == \A end : InPlace(end, buf) => Kept(end)

LEMMA FreshFollows ==
    ASSUME NEW p, walk' = WalkFrom(p), pc' \in {"owner", "host"}
    PROVE  Follows'
<1>1. walk'.from = walk'.at /\ walk'.jumped = FALSE
  BY DEF WalkFrom
<1> QED  BY <1>1 DEF Follows, Kept, Walking

LEMMA AwayFollows ==
    ASSUME pc' \notin {"owner", "host", "named", "hosted"}
    PROVE  Follows'
BY DEF Follows, Kept, Walking

\* At a byte, the place where the name ends follows from that byte.
LEMMA EndAt ==
    ASSUME Numbers, AtByte, NEW end, InPlace(end, buf)
    PROVE  /\ get(walk.at) \in 0..255
           /\ get(walk.at) >= 192 => end[walk.at] = walk.at + 2
           /\ get(walk.at) = 0 => end[walk.at] = walk.at + 1
           /\ get(walk.at) \in 1..191 /\ Has(walk.at + 1, get(walk.at)) =>
                 end[walk.at] = end[walk.at + 1 + get(walk.at)]
<1>1. PICK len \in Nat : len = Len(buf)
  BY DEF Numbers, Bytes
<1>2. PICK x \in Nat : x = walk.at
  BY DEF Numbers
<1>3. x + 1 <= len
  BY <1>1, <1>2 DEF AtByte, Has
<1>4. PICK b \in 0..255 : b = get(x) /\ b = buf[x + 1]
  <2>1. get(x) \in 0..255
    BY <1>1, <1>3, GetIsByte DEF Has
  <2> QED  BY <2>1 DEF get
<1>5. end[x] = Ending(buf, end, x)
  <2>1. x \in 0..len
    BY <1>3
  <2> QED  BY <1>1, <2>1 DEF InPlace
<1>6. b >= 192 => end[x] = x + 2
  BY <1>1, <1>3, <1>4, <1>5 DEF Ending
<1>7. b = 0 => end[x] = x + 1
  BY <1>1, <1>3, <1>4, <1>5 DEF Ending
<1>8. ASSUME b \in 1..191, Has(x + 1, b) PROVE end[x] = end[x + 1 + b]
  <2>1. ~(b >= 192) /\ b # 0
    BY <1>8
  <2>2. x + 1 + b <= len
    BY <1>1, <1>8 DEF Has
  <2> QED  BY <1>1, <1>3, <1>4, <1>5, <2>1, <2>2 DEF Ending
<1> QED  BY <1>2, <1>4, <1>6, <1>7, <1>8

LEMMA PointerFollows ==
    ASSUME Numbers, Follows, FollowPointer
    PROVE  Follows'
<1>1. /\ AtByte /\ get(walk.at) >= 192 /\ pos' = Seek
      /\ walk' = [walk EXCEPT !.at = Offset, !.jumped = TRUE, !.jumps = @ + 1, !.turns = @ + 1]
      /\ pc' = pc /\ buf' = buf
  BY DEF FollowPointer, IsPointer, message
<1>2. walk'.jumped = TRUE /\ walk'.from = walk.from
  BY <1>1 DEF Numbers
<1>3. ASSUME NEW end, InPlace(end, buf) PROVE pos' = end[walk.from]
  <2>1. Kept(end) /\ Walking
    BY <1>1, <1>3 DEF Follows, AtByte
  <2>2. CASE walk.jumped
    BY <1>1, <2>1, <2>2 DEF Kept, Seek, Walking
  <2>3. CASE ~walk.jumped
    <3>1. end[walk.from] = end[walk.at]
      BY <2>1, <2>3 DEF Kept
    <3>2. end[walk.at] = walk.at + 2
      BY <1>1, <1>3, EndAt
    <3> QED  BY <1>1, <2>3, <3>1, <3>2 DEF Seek
  <2> QED  BY <2>2, <2>3
<1> QED  BY <1>1, <1>2, <1>3 DEF Follows, Kept

LEMMA LabelFollows ==
    ASSUME Numbers, Follows, ReadLabel
    PROVE  Follows'
<1>1. /\ AtByte /\ ~IsPointer /\ get(walk.at) # 0 /\ Has(walk.at + 1, get(walk.at))
      /\ walk'.at = walk.at + 1 + get(walk.at) /\ walk'.jumped = walk.jumped
      /\ walk'.from = walk.from /\ pos' = pos /\ pc' = pc /\ buf' = buf
  BY DEF ReadLabel, message, Numbers
<1>2. ASSUME NEW end, InPlace(end, buf), Kept(end) PROVE Kept(end)'
  <2>1. get(walk.at) \in 1..191
    BY <1>1, <1>2, EndAt, SMTT(30) DEF IsPointer
  <2>2. end[walk.at] = end[walk.at + 1 + get(walk.at)]
    BY <1>1, <1>2, <2>1, EndAt
  <2> QED  BY <1>1, <1>2, <2>2 DEF Kept, Walking
<1> QED  BY <1>1, <1>2 DEF Follows

LEMMA EndFollows ==
    ASSUME Numbers, Follows, EndOfName
    PROVE  Follows'
<1>1. /\ AtByte /\ get(walk.at) = 0 /\ pos' = IF walk.jumped THEN pos ELSE walk.at + 1
      /\ walk'.from = walk.from /\ pc' \in {"named", "hosted"} /\ buf' = buf
  BY DEF EndOfName, message, Numbers
<1>2. ASSUME NEW end, InPlace(end, buf) PROVE pos' = end[walk.from]
  <2>1. Kept(end) /\ Walking
    BY <1>1, <1>2 DEF Follows, AtByte
  <2>2. CASE walk.jumped
    BY <1>1, <2>1, <2>2 DEF Kept, Walking
  <2>3. CASE ~walk.jumped
    <3>1. end[walk.from] = end[walk.at]
      BY <2>1, <2>3 DEF Kept
    <3>2. end[walk.at] = walk.at + 1
      BY <1>1, <1>2, EndAt
    <3> QED  BY <1>1, <2>3, <3>1, <3>2
  <2> QED  BY <2>2, <2>3
<1> QED  BY <1>1, <1>2 DEF Follows, Kept, Walking

LEMMA StepFollows ==
    ASSUME Numbers, Follows, [Next]_vars
    PROVE  Follows'
<1>1. CASE NextEntry
  <2>1. CASE pc' = "parsed"
    BY <2>1, AwayFollows
  <2>2. CASE pc' # "parsed"
    <3>1. walk' = WalkFrom(pos) /\ pc' = "owner"
      BY <1>1, <2>2 DEF NextEntry
    <3> QED  BY <3>1, FreshFollows
  <2> QED  BY <2>1, <2>2
<1>2. CASE ReadPriority
  <2>1. walk' = WalkFrom(pos + PriorityLength) /\ pc' = "host"
    BY <1>2 DEF ReadPriority
  <2> QED  BY <2>1, FreshFollows
<1>3. CASE FollowPointer
  BY <1>3, PointerFollows
<1>4. CASE ReadLabel
  BY <1>4, LabelFollows
<1>5. CASE EndOfName
  BY <1>5, EndFollows
<1>6. CASE ReadHeader \/ ReadQuestion \/ ReadFields \/ ReadAddress \/ KeepHost \/ ReadString
             \/ KeepStrings \/ SkipUnknown \/ WalkFails \/ EndOfBuffer \/ Answer
  <2>1. pc' \notin {"owner", "host", "named", "hosted"}
    BY <1>6 DEF ReadHeader, ReadQuestion, ReadFields, ReadAddress, KeepHost, ReadString,
                KeepStrings, SkipUnknown, WalkFails, EndOfBuffer, Fail, Answer,
                KeepEntry, KeepRecord
  <2> QED  BY <2>1, AwayFollows
<1>7. CASE UNCHANGED vars
  BY <1>7 DEF Follows, Kept, Walking, vars
<1> QED  BY <1>1, <1>2, <1>3, <1>4, <1>5, <1>6, <1>7 DEF Next

\* However many pointers a name has, and wherever they lead, what comes behind
\* it is read from where the name ends in place: behind its first pointer, or
\* its zero byte (buffer.rs:105-115, 130-132).
THEOREM FieldsInPlace == Spec => []FieldsFollowName
<1>1. Init => IInv /\ Follows
  <2> SUFFICES ASSUME Init PROVE Follows
    BY InitialInv
  <2> QED  BY DEF Init, Follows, Kept, Walking
<1>2. IInv /\ [Next]_vars => IInv'
  BY StepInv
<1>3. IInv /\ Follows /\ [Next]_vars => Follows'
  BY StepFollows DEF IInv
<1>4. IInv /\ Follows => FieldsFollowName
  <2> SUFFICES ASSUME IInv, Follows, pc \in {"named", "hosted"} PROVE pos = EndInPlace(walk.from)
    BY DEF FieldsFollowName
  <2>1. PICK end : InPlace(end, buf) /\ \A p : EndInPlace(p) = end[p]
    BY PlaceIsOne DEF IInv, Numbers
  <2>2. Kept(end)
    BY <2>1 DEF Follows
  <2> QED  BY <2>1, <2>2 DEF Kept, Walking
<1> QED  BY <1>1, <1>2, <1>3, <1>4, PTL DEF Spec
=============================================================================
