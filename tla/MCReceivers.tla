----------------------------- MODULE MCReceivers -----------------------------
(***************************************************************************)
(* A small instance of Receivers: two accounts whose upstreams differ in   *)
(* as little as they can, names dialed rightly and wrongly, and every way  *)
(* of escaping the base64 text YWE of the octets 97, 97.  The empty        *)
(* parameter encodes the empty message.                                    *)
(***************************************************************************)
EXTENDS Receivers, TLC

CONSTANTS q1, q2

MCLabels == {"", "*", "a", "b", "dns", "default"}
MCLower == [l \in MCLabels |-> l]
MCDomain == <<"", "dns", "">>

Whole == <<97, 97>>
Part  == <<97>>
Nothing == << >>
MCMessages == {Whole, Part, Nothing}
MCNamed == {Whole}
MCEncoded == (Whole :> <<89, 87, 69>>) @@ (Part :> <<89, 81>>) @@ (Nothing :> << >>)

\* Every text that stands for Encoded[m] in a URL, with two hex digits for each
\* code that is escaped.
Escaped == (89 :> <<37, 53, 57>>) @@ (87 :> <<37, 53, 55>>) @@ (69 :> <<37, 52, 53>>)
TextsOf(m) ==
    LET text == Encoded[m]
    IN  {FlattenSeq([i \in DOMAIN text |-> IF i \in S THEN Escaped[text[i]] ELSE <<text[i]>>]) :
            S \in SUBSET DOMAIN text}

\* Padding, an escape of the percent sign, escapes that end too soon or are none.
BadTexts == {<<89, 81, 61, 61>>, <<37, 50, 53, 53, 57, 87, 69>>, <<89, 87, 37, 52>>,
             <<89, 87, 37>>, <<37, 122, 122>>}

Dns(text) == [name |-> "dns", value |-> text]
Ct == [name |-> "ct", value |-> <<89, 81>>]
Get(pairs) == [kind |-> "GET", pairs |-> pairs]
Post(chunks) == [kind |-> "POST", chunks |-> chunks]

DohCall(sni, sent, form) == [receiver |-> "doh", sni |-> sni, sent |-> sent, form |-> form]
DotCall(sni) == [receiver |-> "dot", sni |-> sni, sent |-> Whole, form |-> [kind |-> "message"]]

Home == <<"a", "dns">>
\* DohTransport sends the text as it is.
AsTransport == Get(<<Dns(Encoded[Whole])>>)

FormCalls ==
    {DohCall(Home, Whole, Get(<<Dns(t)>>)) : t \in TextsOf(Whole)}
      \cup {DohCall(Home, Whole, Get(<<Ct, Dns(Encoded[Whole]), Dns(Encoded[Part])>>))}
      \cup {DohCall(Home, Nothing, Get(<<Dns(<< >>)>>))}
      \cup {DohCall(Home, None, Get(<<Dns(t)>>)) : t \in BadTexts}
      \cup {DohCall(Home, None, f) : f \in {Get(<<Ct>>), Get(<< >>), Post(<< >>), [kind |-> "PUT"]}}
      \cup {DohCall(Home, Whole, Post(c)) : c \in {<<Whole>>, <<Part, Part>>}}

SNIs == {None, <<"">>, <<"b", "dns">>, <<"b", "dns", "">>, <<"dns">>, <<"", "dns">>,
         <<"b", "a", "dns">>, <<"a", "b">>, <<"a", "dns", "b">>}
HostCalls == {DohCall(sni, Whole, AsTransport) : sni \in SNIs}
               \cup {DotCall(sni) : sni \in SNIs \cup {Home}}
MCCalls == FormCalls \cup HostCalls

AnUpstream(p, host, addr) == [protocol |-> p, host |-> host, port |-> 443, addr |-> addr]
Pinned1 == AnUpstream("doh", "h", "1.1.1.1:443")
Pinned2 == AnUpstream("doh", "h", "9.9.9.9:443")
Wrong   == AnUpstream("doh", "h", "resolver")
Plain   == AnUpstream("udp", "h", None)

MCPolicyMaps == {("a" :> Pinned1) @@ ("b" :> Pinned2),
                 ("a" :> Pinned2) @@ ("b" :> None),
                 ("a" :> Wrong) @@ ("b" :> Plain)}

QuerySymmetry == Permutations(Queries)
=============================================================================
