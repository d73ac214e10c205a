----------------------------- MODULE FeedParsing -----------------------------
(***************************************************************************)
(* What the ingestion finds in the body of a feed: parse_domains and its   *)
(* line parsers (lib/blocklist.rs).                                        *)
(*                                                                         *)
(* A line is a sequence of pieces: labels, and the marks the parsers look  *)
(* for.  No two labels stand next to each other.  The domains that are     *)
(* found are names as in DomainNames.                                      *)
(***************************************************************************)
EXTENDS DomainNames, Integers, FiniteSets, Functions

CONSTANTS
    Clean,       \* labels of letters, digits, hyphens and underscores
    Alphabetic,  \* labels with a letter
    Long,        \* labels that make any name longer than 253 octets
    None

Space == " "
Dot == "."
Comment == "#"
CutMarks == {"^", "$", "/"}
Marks == {Space, Dot, Comment, "||", "@@", "!", "["} \cup CutMarks
Garbage == "?"  \* a label and a mark run together: some character is not allowed

ASSUME FeedAssumption ==
    /\ Clean \cup Alphabetic \cup Long \subseteq Labels
    /\ {Empty, Star} \cap Clean = {}
    /\ Labels \cap (Marks \cup {Garbage}) = {}
    /\ \A l \in Labels : Lower[l] \in Clean <=> l \in Clean

-----------------------------------------------------------------------------
trim(text) ==
    LET after == SelectInSeq(text, LAMBDA p : p # Space)
        last  == SelectLastInSeq(text, LAMBDA p : p # Space)
    IN  IF after = 0 THEN << >> ELSE SubSeq(text, after, last)

StartsWith(text, marks) == text # << >> /\ text[1] \in marks

\* The text before the first of these marks.
Before(text, marks) ==
    LET i == SelectInSeq(text, LAMBDA p : p \in marks)
    IN  IF i = 0 THEN text ELSE SubSeq(text, 1, i - 1)

\* text.split_whitespace()
Words(text) ==
    LET starts == {i \in DOMAIN text : text[i] # Space /\ (i = 1 \/ text[i - 1] = Space)}
    IN  [i \in starts |-> Before(SubSeq(text, i, Len(text)), {Space})]

\* The labels of a text that is read as a name.
NameOf(text) ==
    FoldLeft(LAMBDA name, p :
                IF p = Dot THEN Append(name, Empty)
                ELSE [name EXCEPT ![Len(name)] = IF @ # Empty \/ p \in Marks THEN Garbage ELSE p],
             <<Empty>>, text)

\* Some(domain) as a set of one, None as the empty set.  A name of one label,
\* or of none, is not a domain; labels may be empty.
sanitize(token) ==
    LET text == NameOf(trim(token))
        name == TrimEndDots(TrimStarDots(text))
    IN  IF /\ Garbage \notin Range(name)
           /\ Len(name) >= 2
           /\ Range(name) \subseteq (Clean \cup {Empty}) \ Long
           /\ Range(name) \cap Alphabetic # {}
        THEN {ToLower(name)} ELSE {}

parse_plain_line(line) ==
    LET text == trim(line)
    IN  IF StartsWith(text, {Comment}) THEN {} ELSE sanitize(Before(text, {Comment}))

\* Every word but the first, those of a comment too.
parse_hosts_line(line) ==
    LET text == trim(line)  words == Words(text)
    IN  IF StartsWith(text, {Comment}) THEN {}
        ELSE UNION {sanitize(words[i]) : i \in DOMAIN words \ {1}}

\* Mutant: an exception is a block entry like any other.
WithExceptions(line) ==
    LET text == trim(line)
        entry == IF StartsWith(text, {"@@"}) THEN Tail(text) ELSE text
    IN  IF ~StartsWith(entry, {"||"}) THEN {} ELSE sanitize(Before(Tail(entry), CutMarks))

\* Comments, headers and exceptions do not start with "||".
parse_adblock_line(line) ==
    LET text == trim(line)
    IN  IF ~StartsWith(text, {"||"}) THEN {}
        ELSE sanitize(Before(Tail(text), CutMarks))

\* FeedFormat::from_str, and unwrap_or(Plain)
Formats == {"plain", "hosts", "adblock"}
FormatOf(text) == IF text \in Formats THEN text ELSE "plain"

parse_line(format, line) ==
    CASE format = "plain"   -> parse_plain_line(line)
      [] format = "hosts"   -> parse_hosts_line(line)
      [] format = "adblock" -> parse_adblock_line(line)

parse_domains(format, lines) == UNION {parse_line(format, line) : line \in Range(lines)}
=============================================================================
