---------------------------- MODULE MCBlocklist ----------------------------
(***************************************************************************)
(* A small instance of Blocklist: a feed per format, with a category each  *)
(* but the last, whose entry in the configuration lists none.  The first   *)
(* one's format is unknown, so it is read as plain.                        *)
(***************************************************************************)
EXTENDS Blocklist, TLC

CONSTANTS f1, f2, f3, ads, tracking

MCFeedCategories ==
    (f1 :> {ads}) @@ (f2 :> {tracking}) @@ (f3 :> {})

MCFeedFormats == (f1 :> "domains") @@ (f2 :> "hosts") @@ (f3 :> "adblock")

MCClean == {"ads", "ADS", "cdn", "trk", "com", "localhost", "127", "0", "long"}
MCAlphabetic == MCClean \ {"127", "0"}
MCLabels == MCClean \cup {"", "*", "not&clean"}
MCLower == [l \in MCLabels |-> IF l = "ADS" THEN "ads" ELSE l]

adsCom == <<"ads", "com">>
cdnCom == <<"cdn", "com">>
trkCom == <<"trk", "com">>

Body(format, lines, lists, mentions) ==
    [format |-> format, lines |-> lines, lists |-> lists, mentions |-> mentions]

PlainBodies == {
    Body("plain",
         << <<"#", " ", "cdn", ".", "com">>,
            << >>,
            <<" ", "*", ".", "*", ".", "ADS", ".", "com", ".", " ", "#", "trk", ".", "com">>,
            <<"127", ".", "0">>,
            <<"localhost">>,
            <<"cdn", ".", ".", "com">> >>,
         {adsCom}, {}),
    Body("plain",
         << <<"cdn", ".", "com">>,
            <<".", "trk", ".", "com">>,
            <<"ads", " ", "trk", ".", "com">>,
            <<"not&clean", ".", "com">>,
            <<"*", ".">>,
            <<"long", ".", "com">> >>,
         {cdnCom}, {}) }

HostsBodies == {
    Body("hosts",
         << <<"127", ".", "0", " ", "localhost">>,
            <<"0", ".", "0", " ", " ", "ads", ".", "com", " ", "cdn", ".", "com", " ">> >>,
         {adsCom, cdnCom}, {}),
    Body("hosts",
         << <<" ", "#", " ", "ads", ".", "com">>,
            <<"0", " ", "trk", ".", "com", " ", "#", " ", "cdn", ".", "com">> >>,
         {trkCom}, {cdnCom}) }

AdblockBodies == {
    Body("adblock",
         << <<"!", " ", "cdn", ".", "com">>,
            <<"[", "ads">>,
            <<"||", "ads", ".", "com", "^", "$", "trk">>,
            <<"@@", "||", "cdn", ".", "com", "^">> >>,
         {adsCom}, {}),
    Body("adblock",
         << <<"ads", ".", "com">>,
            <<"||", "*", ".", "trk", ".", "com", "/", "ads", "^">> >>,
         {trkCom}, {}) }

MCBodies == PlainBodies \cup HostsBodies \cup AdblockBodies
=============================================================================
