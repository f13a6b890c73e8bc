----------------------------- MODULE Formatter ------------------------------
(***************************************************************************)
(* bc::log::formatter: its constructor, which cuts a format into segments, *)
(* repr(), and format(), which builds a line of the log from the segments  *)
(* and takes the newlines off its end.                                     *)
(*                                                                         *)
(* A text is a sequence of tokens: a token is one of the characters the    *)
(* code looks at, a name the code compares with, or any other character.   *)
(***************************************************************************)
EXTENDS Integers, SequencesExt, FiniteSetsExt

CONSTANT Name           \* the names of meta_type: "datetime", "level", ...

PERCENT == "%"
OPEN == "{"
CLOSE == "}"
NEWLINE == "newline"
NoName == ""            \* of a segment that is a piece of text
Token == {PERCENT, OPEN, CLOSE, NEWLINE, "other"} \cup Name

ASSUME FormatterAssumption == {NoName, PERCENT, OPEN, CLOSE, NEWLINE, "other"} \cap Name = {}

\* A segment is a piece of text or a name.
Text(t) == [name |-> NoName, text |-> t]
Meta(n) == [name |-> n, text |-> <<>>]

-----------------------------------------------------------------------------
(* The constructor                                                         *)

\* Mutant: the name keeps its opening brace.
KeepsBrace(i) == i + 1

\* Where the name begins whose percent sign is at i.
NameBegins(i) == i + 2

\* The text before a name is a segment, unless there is none.
TextBefore(f, s, i) == IF i = s THEN <<>> ELSE <<Text(SubSeq(f, s, i - 1))>>

\* Mutant: the name becomes text.
NameAsText(f, s, i) == TextBefore(f, s, i)

\* A name becomes a segment if it is one of meta_type, and is dropped if not.
Named(f, s, i) == IF s = i - 1 /\ f[s] \in Name THEN <<Meta(f[s])>> ELSE <<>>

\* The loop over format_: meta is the parser's state, s where the segment in hand
\* begins and i the character it looks at.
ParserBegins == [meta |-> FALSE, s |-> 1, i |-> 1, segments |-> <<>>]
OpensAt(f, i) == i < Len(f) /\ f[i] = PERCENT /\ f[i + 1] = OPEN

\* One turn of the loop, if it is not over.
ParserStep(f, p) ==
  IF p.i > Len(f) THEN p
  ELSE IF ~p.meta /\ OpensAt(f, p.i)
  THEN [meta |-> TRUE, s |-> NameBegins(p.i), i |-> p.i + 2,
        segments |-> p.segments \o TextBefore(f, p.s, p.i)]
  ELSE IF p.meta /\ f[p.i] = CLOSE
  THEN [meta |-> FALSE, s |-> p.i + 1, i |-> p.i + 1,
        segments |-> p.segments \o Named(f, p.s, p.i)]
  ELSE [p EXCEPT !.i = @ + 1]

\* The text behind the last name is a segment; a name that is not closed is dropped.
Segments(f) ==
  LET At[k \in 0 .. Len(f)] == IF k = 0 THEN ParserBegins ELSE ParserStep(f, At[k - 1])
      end == At[Len(f)]
  IN  end.segments \o IF end.meta THEN <<>> ELSE TextBefore(f, end.s, Len(f) + 1)

-----------------------------------------------------------------------------
(* repr and format                                                         *)

\* The segments put together, a name printed as value says.
Joined(segs, value) ==
  FlattenSeq([k \in DOMAIN segs |->
    IF segs[k].name = NoName THEN segs[k].text ELSE value[segs[k].name]])

Repr(segs) == Joined(segs, [n \in Name |-> <<PERCENT, OPEN, n, CLOSE>>])

\* Mutant: one newline is taken off at most.
OneNewline(line) ==
  IF line # <<>> /\ Last(line) = NEWLINE THEN Len(line) - 1 ELSE Len(line)

\* How many tokens of a line the loop over its newlines leaves.
LengthLeft(line) ==
  LET Pop[k \in 0 .. Len(line)] == IF k > 0 /\ line[k] = NEWLINE THEN Pop[k - 1] ELSE k
  IN  Pop[Len(line)]

\* format(): back() of the empty string is undefined, so nothing is known of a line
\* that has nothing but newlines.
Format(segs, value) ==
  LET line == Joined(segs, value)
  IN  IF LengthLeft(line) = 0 THEN [defined |-> FALSE]
      ELSE [defined |-> TRUE, line |-> SubSeq(line, 1, LengthLeft(line))]

-----------------------------------------------------------------------------
(* What a format means                                                     *)

Opens(f, p) == {q \in p .. Len(f) : OpensAt(f, q)}
Closes(f, p) == {c \in p .. Len(f) : f[c] = CLOSE}

\* A text that is not empty, and a name of meta_type.
MeantText(f, a, b) == IF a <= b THEN <<Text(SubSeq(f, a, b))>> ELSE <<>>
MeantName(f, a, b) == IF a = b /\ f[a] \in Name THEN <<Meta(f[a])>> ELSE <<>>

\* From position p on: the text up to the next "%{", the name up to the next "}" if
\* there is one, and so on behind it.
MeantSegments(f) ==
  LET From[p \in 1 .. Len(f) + 1] ==
        IF Opens(f, p) = {} THEN MeantText(f, p, Len(f))
        ELSE LET q == Min(Opens(f, p))
                 closes == Closes(f, q + 2)
             IN  MeantText(f, p, q - 1) \o
                 IF closes = {} THEN <<>>
                 ELSE MeantName(f, q + 2, Min(closes) - 1) \o From[Min(closes) + 1]
  IN  From[1]

\* Behind every "%{" stand a name of meta_type and "}".
AllKnown(f) ==
  \A q \in Opens(f, 1) : q + 3 <= Len(f) /\ f[q + 2] \in Name /\ f[q + 3] = CLOSE

Newlines(n) == [k \in 1 .. n |-> NEWLINE]

=============================================================================
