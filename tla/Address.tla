------------------------------ MODULE Address -------------------------------
(***************************************************************************)
(* bc::network::address: from() with parse_ipv4 and parse_ipv6, and expr,  *)
(* which prints an address.                                                *)
(*                                                                         *)
(* A hostname is the sequence of its segments and the character between    *)
(* them: "dot", "colon", or "mixed" for colons with dots between the last  *)
(* four.  The parsers tell apart whether a segment is empty, a number that *)
(* fits, or a number that is too long (over 255 between dots, more than    *)
(* four digits between colons).                                            *)
(***************************************************************************)
EXTENDS Integers, SequencesExt, FiniteSetsExt

Empty == [kind |-> "empty"]
Long == [kind |-> "long"]
Number(n) == [kind |-> "number", n |-> n]

IsNumber(seg) == seg.kind = "number"
AllNumbers(segs) == \A k \in DOMAIN segs : IsNumber(segs[k])
NumbersOf(segs) == [k \in DOMAIN segs |-> segs[k].n]
Zeros(n) == [k \in 1 .. n |-> 0]

Invalid == <<>>         \* no address: from() returns invalid_address

-----------------------------------------------------------------------------
(* from: the address as it lies in memory, a sequence of bytes             *)

\* Mutant: the parts are written from the lowest byte on.
PartsUp(n) == n

\* parts[3 - i]: the bytes of addr in memory, the least significant first.
Parts4(n) == [k \in 1 .. 4 |-> n[5 - k]]

Htonl(bytes) == [k \in 1 .. 4 |-> bytes[5 - k]]

\* Mutant: nobody counts the numbers between the dots.
Uncounted(segs) ==
  IF AllNumbers(segs)
  THEN Htonl([k \in 1 .. 4 |-> IF 5 - k <= Len(segs) THEN segs[5 - k].n ELSE 0])
  ELSE Invalid

\* parse_ipv4 and the htonl of from().
Ipv4(segs) ==
  IF Len(segs) = 4 /\ AllNumbers(segs) THEN Htonl(Parts4(NumbersOf(segs))) ELSE Invalid

\* htons: the bytes of a number change places.
Htons(n) == (n % 256) * 256 + n \div 256

\* Words in memory, of each the least significant byte first.
Stored(words) ==
  [b \in 1 .. 2 * Len(words) |-> LET w == Htons(words[(b + 1) \div 2])
                                 IN  IF b % 2 = 1 THEN w % 256 ELSE w \div 256]

\* Mutant: "::" at the end is not shortened.
LeadingOnly(segs) ==
  IF Len(segs) >= 3 /\ segs[1] = Empty /\ segs[2] = Empty THEN Tail(segs) ELSE segs

\* One colon of "::" at the beginning, or else of "::" at the end, is taken off.
Shortened(segs) ==
  LET n == Len(segs)
  IN  IF n >= 3 /\ segs[1] = Empty /\ segs[2] = Empty THEN Tail(segs)
      ELSE IF n >= 3 /\ segs[n] = Empty /\ segs[n - 1] = Empty THEN Front(segs)
      ELSE segs

\* How many numbers a loop writes that starts at segment k: it stops behind the eighth,
\* behind the last segment, or at a segment that is no number.
Taken(segs, k) ==
  Min({m \in 0 .. 8 : m = 8 \/ k + m > Len(segs) \/ ~IsNumber(segs[k + m])})

\* parse_ipv6: a segments go to addr; an empty one behind them is the gap, and t
\* segments behind the gap go to tail.  Nobody looks behind the eighth number, and
\* nobody counts when there is no gap.
Ipv6(given) ==
  LET segs == Shortened(given)
      a == Taken(segs, 1)
      t == Taken(segs, a + 2)
      words == NumbersOf(SubSeq(segs, 1, a))
      tail == NumbersOf(SubSeq(segs, a + 2, a + 1 + t))
      stopped == a < 8 /\ a < Len(segs)
      tailStopped == t < 8 /\ a + 1 + t < Len(segs)
  IN  IF ~stopped THEN Stored(words \o Zeros(8 - a))
      ELSE IF segs[a + 1] # Empty \/ tailStopped \/ a + t >= 8 THEN Invalid
      ELSE Stored(words \o Zeros(8 - a - t) \o tail)

\* No parser takes a hostname with a character of the other, like the dots in a mixed one.
From(sep, segs) ==
  IF sep = "dot" THEN Ipv4(segs)
  ELSE IF sep = "colon" THEN Ipv6(segs)
  ELSE Invalid

-----------------------------------------------------------------------------
(* expr                                                                    *)

\* Mutant: the words are printed as they lie in memory.
AsStored(word) == word

Ntohs(word) == Htons(word)

\* The numbers printed for an address.
Printed(bytes) ==
  IF Len(bytes) = 4 THEN bytes
  ELSE [k \in 1 .. 8 |-> Ntohs(bytes[2 * k - 1] + 256 * bytes[2 * k])]

-----------------------------------------------------------------------------
(* The texts that are addresses (RFC 4291, 2.2), and the numbers they mean *)

OrEmpty(segs) == IF segs = <<>> THEN <<Empty>> ELSE segs
IsGap(segs, l, r) ==
  LET left == SubSeq(segs, 1, l)
      right == SubSeq(segs, Len(segs) - r + 1, Len(segs))
  IN  /\ l + r <= 7 /\ AllNumbers(left) /\ AllNumbers(right)
      /\ segs = OrEmpty(left) \o <<Empty>> \o OrEmpty(right)
Gaps(segs) == {lr \in (0 .. 7) \X (0 .. 7) :
                 lr[1] <= Len(segs) /\ lr[2] <= Len(segs) /\ IsGap(segs, lr[1], lr[2])}

Dotted(sep, segs) == sep = "dot" /\ Len(segs) = 4 /\ AllNumbers(segs)
Full(sep, segs) == sep = "colon" /\ Len(segs) = 8 /\ AllNumbers(segs)
Gapped(sep, segs) == sep = "colon" /\ Gaps(segs) # {}

\* The last 32 bits in dots, with the same gap or none before them: ::ffff:192.0.2.1.
InColons(segs) ==
  LET n == Len(segs)
      two(k) == Number(256 * segs[k].n + segs[k + 1].n)
  IN  SubSeq(segs, 1, n - 4) \o <<two(n - 3), two(n - 1)>>
Mixed(sep, segs) ==
  /\ sep = "mixed" /\ Len(segs) > 4
  /\ \A k \in Len(segs) - 3 .. Len(segs) : IsNumber(segs[k]) /\ segs[k].n < 256
  /\ Full("colon", InColons(segs)) \/ Gapped("colon", InColons(segs))

Valid(sep, segs) ==
  Dotted(sep, segs) \/ Full(sep, segs) \/ Gapped(sep, segs) \/ Mixed(sep, segs)

\* The addresses that the code refuses: "::", and those with dots and colons.
Refused(sep, segs) == segs = <<Empty, Empty, Empty>> \/ Mixed(sep, segs)

MeantNumbers(segs) ==
  IF AllNumbers(segs) THEN NumbersOf(segs)
  ELSE LET lr == CHOOSE lr \in Gaps(segs) : TRUE
           n == Len(segs)
       IN  NumbersOf(SubSeq(segs, 1, lr[1])) \o Zeros(8 - lr[1] - lr[2])
           \o NumbersOf(SubSeq(segs, n - lr[2] + 1, n))

\* The bytes of an address as they are sent.
NetworkOrder(words) ==
  IF Len(words) = 4 THEN words
  ELSE [b \in 1 .. 16 |-> LET w == words[(b + 1) \div 2]
                          IN  IF b % 2 = 1 THEN w \div 256 ELSE w % 256]

=============================================================================
