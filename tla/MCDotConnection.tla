-------------------------- MODULE MCDotConnection --------------------------
(***************************************************************************)
(* A small instance of DotConnection: bytes of one bit, so that a prefix   *)
(* can say 0 to 3.                                                         *)
(***************************************************************************)
EXTENDS DotConnection

\* Some messages begin like a prefix, and one is empty.
MCQuestions == {<< >>, <<0, 1>>, <<1, 0, 1>>}
MCAnswers == {<<1>>, <<0, 1, 1>>}

\* The body of an HTTP answer, which DohTransport returns whole, may be longer
\* than a prefix can say.
LongAnswers == {<<1>>, <<0, 1, 0, 1, 1>>}
=============================================================================
