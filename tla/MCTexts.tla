------------------------------ MODULE MCTexts -------------------------------
(***************************************************************************)
(* The two parsers over bounded inputs: each state is one text, a format   *)
(* for the log or the hostname of an address, that the code is given.      *)
(***************************************************************************)
EXTENDS Formatter, Address

CONSTANTS
  Messages,     \* the messages that are logged
  MaxLen,       \* bound: the tokens of a format
  MaxSegments,  \* bound: the segments of a hostname
  MaxDotted     \* bound: the segments of a hostname with dots

\* Two of the names of meta_type.
Names == {"level", "message"}

\* These names are known, a message is text, and the numbers fit their places: up to 255
\* between dots, up to 16 bits between colons.
ASSUME TextsAssumption ==
  /\ Names \subseteq Name
  /\ Messages \subseteq Seq(Token)
  /\ MaxLen \in Nat /\ MaxDotted \in 0 .. 255 /\ MaxSegments \in 0 .. 127

\* Numbers that differ in every position, and in both bytes behind the dotted ones.
NumberAt(sep, k) == IF sep = "colon" /\ k > MaxDotted THEN 513 * k ELSE k

\* A level is never empty; a message may be anything, also text that looks like a
\* format.
SomeMessages == { <<>>, <<NEWLINE>>, <<"other", NEWLINE, NEWLINE>>, <<NEWLINE, "other">>,
                  <<PERCENT, OPEN, "level", CLOSE>> }
Value(n, message) == IF n = "message" THEN message ELSE <<"other">>

VARIABLES
  format,       \* a format, <<>> in states about hostnames
  separator,    \* "dot", "colon", "mixed", "other" (a character no address has), or "none"
  segments      \* the segments of a hostname

vars == <<format, separator, segments>>

Written(sep, kinds) ==
  [k \in DOMAIN kinds |-> IF kinds[k] = "number" THEN Number(NumberAt(sep, k))
                          ELSE [kind |-> kinds[k]]]

\* An empty hostname has no segment; one segment alone may stand between colons.
Init ==
  \/ format \in SeqOf(Token, MaxLen) /\ separator = "none" /\ segments = <<>>
  \/ /\ format = <<>> /\ separator \in {"dot", "colon", "mixed", "other"}
     /\ \E kinds \in SeqOf({"empty", "number", "long"}, MaxSegments) \ {<<"empty">>} :
          /\ separator = "dot" => Len(kinds) \in 2 .. MaxDotted
          /\ separator = "mixed" => Len(kinds) > 4
          /\ separator = "other" => Len(kinds) \in 1 .. MaxDotted
          /\ segments = Written(separator, kinds)

\* The code keeps nothing from one text to the next.
Next == UNCHANGED vars

Spec == Init /\ [][Next]_vars

-----------------------------------------------------------------------------
(* The log's formatter                                                     *)

\* The constructor cuts a format into the texts and names it consists of.
ParsesWhatIsMeant == Segments(format) = MeantSegments(format)

\* repr() gives the format back, if all names in it are known.
ReprFaithful == AllKnown(format) => Repr(Segments(format)) = format

\* A line loses all newlines at its end and nothing else; it is only undefined when
\* there is nothing but newlines.
StripsNewlines ==
  \A m \in Messages :
    LET value == [n \in Name |-> Value(n, m)]
        full == Joined(Segments(format), value)
        result == Format(Segments(format), value)
    IN  IF result.defined
        THEN /\ Last(result.line) # NEWLINE
             /\ full = result.line \o Newlines(Len(full) - Len(result.line))
        ELSE full = Newlines(Len(full))

-----------------------------------------------------------------------------
(* Addresses                                                               *)

Address == From(separator, segments)

\* An address is read as what it means, in network byte order, unless it is "::" or has
\* its last numbers in dots behind colons: these are refused.
ReadAsMeant ==
  Valid(separator, segments) =>
    Address = IF Refused(separator, segments) THEN Invalid ELSE NetworkOrder(MeantNumbers(segments))

\* The print of an address that was read has the numbers it was read from.
PrintedAsMeant ==
  Valid(separator, segments) /\ Address # Invalid => Printed(Address) = MeantNumbers(segments)

\* Besides addresses three forms with colons are accepted: fewer than eight numbers, one
\* colon at an end instead of two, and text behind eight numbers.
TooFew == Len(segments) < 8 /\ AllNumbers(segments)
OneColon == /\ Len(segments) \in 2 .. 8
            /\ \/ Head(segments) = Empty /\ AllNumbers(Tail(segments))
               \/ Last(segments) = Empty /\ AllNumbers(Front(segments))
TooMuch == Len(segments) > 8 /\ AllNumbers(SubSeq(segments, 1, 8))
OnlyLenient ==
  Address # Invalid /\ ~Valid(separator, segments) =>
    separator = "colon" /\ (TooFew \/ OneColon \/ TooMuch)

=============================================================================
