---------------------------- MODULE AddressText ----------------------------
(***************************************************************************)
(* Addresses as text: ethernet_address_factory::from_string() and the two  *)
(* to_string().  A text is a sequence of characters, of which the digits   *)
(* are numbers; it is typed one character after the other, and every text  *)
(* on the way is tried.                                                    *)
(***************************************************************************)
EXTENDS AddressFactory

CONSTANTS
  OctetBase,          \* base of the numerals of IPv4, 10 in the code
  SegmentBase,        \* and of IPv6, 16
  SegmentDigits,      \* digits of the largest segment, 4
  Dot, Colon, Nul,    \* characters
  Typed,              \* the characters that are typed
  MaxText             \* bound on the length of a text

(* Addresses have several parts, separators are no digits, and the largest *)
(* segment is written with the largest digit in every place.               *)
ASSUME TextAssumption ==
  /\ Octets > 1 /\ Segments > 1
  /\ {OctetBase, SegmentBase} \subseteq Nat \ {0, 1}
  /\ SegmentDigits \in Nat \ {0}
  /\ Positional([k \in 1..SegmentDigits |-> SegmentBase - 1],
                SegmentDigits, SegmentBase) = Radix(6) - 1
  /\ \A c \in {Dot, Colon, Nul} : c \notin Nat
  /\ Dot # Colon /\ Nul \notin {Dot, Colon}

VARIABLE text

Has(s, c) == \E k \in 1..Len(s) : s[k] = c

(* What the characters of a text leave: the parts that a separator ended,  *)
(* and the characters behind the last one.                                 *)
Cut(s, separator) ==
  LET cut[k \in 0..Len(s)] ==
        IF k = 0 THEN [parts |-> <<>>, rest |-> <<>>]
        ELSE LET before == cut[k - 1]
             IN  IF s[k] = separator
                 THEN [parts |-> Append(before.parts, before.rest),
                       rest  |-> <<>>]
                 ELSE [parts |-> before.parts,
                       rest  |-> Append(before.rest, s[k])]
  IN  cut[Len(s)]

(* The parts of a text between its separators, empty ones included.        *)
Split(s, separator) ==
  Append(Cut(s, separator).parts, Cut(s, separator).rest)

(* The parts with a separator between each two of them.                    *)
Join(parts, separator) ==
  LET joined[k \in 0..Len(parts)] ==
        IF k = 0 THEN <<>>
        ELSE (IF k = 1 THEN <<>> ELSE Append(joined[k - 1], separator))
               \o parts[k]
  IN  joined[Len(parts)]

ValueOf(token, base) == Positional(token, Len(token), base)

Numeral(n, base) ==
  LET digits[k \in 0..n] ==
        IF k < base THEN <<k>> ELSE Append(digits[k \div base], k % base)
  IN  digits[n]

(* Variant: leading zeros are permitted.                                   *)
IsOctetOrPadded(token) ==
  /\ token # <<>>
  /\ \A k \in 1..Len(token) : token[k] \in 0..(OctetBase - 1)
  /\ ValueOf(token, OctetBase) < Radix(4)

IsOctet(token) ==
  /\ token # <<>>
  /\ \A k \in 1..Len(token) : token[k] \in 0..(OctetBase - 1)
  /\ Len(token) > 1 => token[1] # 0
  /\ ValueOf(token, OctetBase) < Radix(4)

FromDotted(s) ==
  LET octets == Split(s, Dot)
  IN  IF Len(octets) # Octets \/ \E k \in 1..Len(octets) : ~IsOctet(octets[k])
      THEN Refused
      ELSE [version |-> 4,
            value |-> [k \in 1..Octets |-> ValueOf(octets[k], OctetBase)]]

-----------------------------------------------------------------------------
(* inet_pton() of the system, for texts without an IPv4 address in them:   *)
(* groups of digits, with at most one gap that stands for at least one.    *)
Groups(s) == IF s = <<>> THEN <<>> ELSE Split(s, Colon)

IsSegment(token) ==
  /\ Len(token) \in 1..SegmentDigits
  /\ \A k \in 1..Len(token) : token[k] \in 0..(SegmentBase - 1)

InetPton(s) ==
  LET gaps  == {k \in 1..(Len(s) - 1) : s[k] = Colon /\ s[k + 1] = Colon}
      gap   == CHOOSE k \in gaps : TRUE
      left  == IF gaps = {} THEN Groups(s) ELSE Groups(SubSeq(s, 1, gap - 1))
      right == IF gaps = {} THEN <<>> ELSE Groups(SubSeq(s, gap + 2, Len(s)))
      given == left \o right
      Value(k) ==
        IF k <= Len(left) THEN ValueOf(left[k], SegmentBase)
        ELSE IF k > Segments - Len(right)
        THEN ValueOf(right[k - (Segments - Len(right))], SegmentBase)
        ELSE 0
  IN  IF \/ \E k \in 1..Len(given) : ~IsSegment(given[k])
         \/ IF gaps = {} THEN Len(given) # Segments
            ELSE Cardinality(gaps) > 1 \/ Len(given) >= Segments
      THEN Refused
      ELSE [version |-> 6, value |-> [k \in 1..Segments |-> Value(k)]]

(* The text up to its first null character, as c_str() gives it.           *)
UpToNul(s) == IF Has(s, Nul) THEN Split(s, Nul)[1] ELSE s

(* A null character may only be the last one; IPv6 is looked for first.    *)
FromString(s) ==
  IF \E k \in 1..(Len(s) - 1) : s[k] = Nul THEN Refused
  ELSE IF Has(s, Colon) THEN InetPton(UpToNul(s))
  ELSE IF Has(s, Dot) THEN FromDotted(s)
  ELSE Refused

ToString(ip) ==
  LET separator == IF ip.version = 4 THEN Dot ELSE Colon
      base      == IF ip.version = 4 THEN OctetBase ELSE SegmentBase
  IN  Join([k \in 1..Digits(ip.version) |-> Numeral(ip.value[k], base)],
           separator)

-----------------------------------------------------------------------------
TextInit == text = <<>>

(* Texts with both separators, which only inet_pton() reads, are left out. *)
Type ==
  /\ Len(text) < MaxText
  /\ \E c \in Typed : text' = Append(text, c)
  /\ ~(Has(text', Dot) /\ Has(text', Colon))

TextSpec == TextInit /\ [][Type]_text

(* An address that was read is written as a text that is read as the same  *)
(* address; of IPv4 it is the very text that was read, so that no address  *)
(* has two texts.  The search needs it: is_host_suitable() compares the    *)
(* text that was asked for with the one to_string() writes.  (Of IPv6 it   *)
(* does not hold: a gap, a leading zero or a null character at the end is  *)
(* read but not written.)                                                  *)
TextIsCanonical ==
  LET ip == FromString(text)
  IN  ip # Refused =>
        /\ ip \in Addresses(ip.version)
        /\ FromString(ToString(ip)) = ip
        /\ ip.version = 4 => ToString(ip) = text
        /\ ip.version = 6 /\ ToString(ip) # text =>
             \/ Has(text, Nul)
             \/ \E k \in 1..Len(text) :
                  text[k] = 0 /\ k < Len(text) /\ text[k + 1] # Colon
             \/ \E k \in 1..(Len(text) - 1) :
                  text[k] = Colon /\ text[k + 1] = Colon
=============================================================================
