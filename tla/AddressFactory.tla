--------------------------- MODULE AddressFactory ---------------------------
(***************************************************************************)
(* ethernet_address_factory: what is calculated from IP addresses.         *)
(*                                                                         *)
(* An address is its version and the sequence of its digits, the octets of *)
(* IPv4 or the segments of IPv6, as in the arrays of the code.  How many   *)
(* digits there are and how wide they are is left open, and so is the      *)
(* width of a host index; in the code they are 4 of 8 bits, 8 of 16 bits,  *)
(* and 64 bits.                                                            *)
(***************************************************************************)
EXTENDS Integers, Sequences, FiniteSets

CONSTANTS
  Octets, OctetBits,        \* of an IPv4 address
  Segments, SegmentBits,    \* of an IPv6 address
  IndexBits,                \* of uint64_t
  Refused                   \* std::nullopt

ASSUME WidthsAssumption ==
  /\ {Octets, OctetBits, Segments, SegmentBits, IndexBits} \subseteq Nat \ {0}
  /\ SegmentBits % 2 = 0
  /\ Octets * OctetBits < IndexBits
  /\ IndexBits < Segments * SegmentBits

(* Powers of two, shifts in the code, as a function a proof can unfold.    *)
Pow2[n \in Nat] == IF n = 0 THEN 1 ELSE 2 * Pow2[n - 1]

(* The number that n digits, the first one the most significant, write.    *)
Positional(digits, n, radix) ==
  LET sum[i \in 0..n] ==
        IF i = 0 THEN 0 ELSE sum[i - 1] * radix + digits[i]
  IN  sum[n]

Digits(version)    == IF version = 4 THEN Octets ELSE Segments
DigitBits(version) == IF version = 4 THEN OctetBits ELSE SegmentBits
Width(version)     == Digits(version) * DigitBits(version)
Radix(version)     == Pow2[DigitBits(version)]

Addresses(version) ==
  [version : {version},
   value : [1..Digits(version) -> 0..(Radix(version) - 1)]]

(* std::nullopt is neither a number nor an address.                        *)
ASSUME RefusedAssumption ==
  Refused \notin Nat \cup Addresses(4) \cup Addresses(6)

Bit(x, i) == (x \div Pow2[i]) % 2

BitAnd(x, y, bits) ==
  Positional([i \in 1..bits |-> Bit(x, bits - i) * Bit(y, bits - i)], bits, 2)

(* ethernet_ipv4_address::to_uint32() and its inverse.                     *)
ToUint32(ip) ==
  LET sum[i \in 0..Octets] ==
        IF i = 0 THEN 0
        ELSE sum[i - 1] + ip.value[i] * Pow2[OctetBits * (Octets - i)]
  IN  sum[Octets]

FromUint32(x) ==
  [version |-> 4,
   value |-> [i \in 1..Octets |->
                (x \div Pow2[OctetBits * (Octets - i)]) % Pow2[OctetBits]]]

(* operator< of two addresses of one version; the others follow from it.   *)
Precedes4(ip, other) == ToUint32(ip) < ToUint32(other)

Precedes6(ip, other) ==
  \E i \in 1..Segments :
    /\ ip.value[i] < other.value[i]
    /\ \A j \in 1..(i - 1) : ip.value[j] = other.value[j]

-----------------------------------------------------------------------------
(* An address of either version and a mask of the other are refused.       *)
BaseAddress(ip, mask) ==
  IF ip.version # mask.version THEN Refused
  ELSE IF ip.version = 4
  THEN FromUint32(BitAnd(ToUint32(ip), ToUint32(mask), Width(4)))
  ELSE [ip EXCEPT !.value = [i \in 1..Segments |->
          BitAnd(ip.value[i], mask.value[i], SegmentBits)]]

(* The sum is one of uint64_t, tested after it was formed.                 *)
NewAddress4(base, index) ==
  LET sum == (ToUint32(base) + index) % Pow2[IndexBits]
  IN  IF sum > Pow2[Width(4)] - 1 THEN Refused ELSE FromUint32(sum)

(* Variant: the carry of a segment is lost.                                *)
NewAddress6NoCarry(base, index) ==
  LET rest[i \in 0..Segments] ==
        IF i = Segments THEN index ELSE rest[i + 1] \div Radix(6)
  IN  IF rest[0] # 0 THEN Refused
      ELSE [base EXCEPT !.value = [i \in 1..Segments |->
              (base.value[i] + (rest[i] % Radix(6))) % Radix(6)]]

(* The loop from the last segment to the first: rest[i] is what is left of *)
(* the index, with the carry, when segment i has its turn.  The loop stops *)
(* when nothing is left, which changes nothing.                            *)
NewAddress6(base, index) ==
  LET rest[i \in 0..Segments] ==
        IF i = Segments THEN index
        ELSE rest[i + 1] \div Radix(6)
               + (base.value[i + 1] + (rest[i + 1] % Radix(6))) \div Radix(6)
  IN  IF rest[0] # 0 THEN Refused
      ELSE [base EXCEPT !.value = [i \in 1..Segments |->
              (base.value[i] + (rest[i] % Radix(6))) % Radix(6)]]

NewAddress(base, index) ==
  IF base.version = 4 THEN NewAddress4(base, index)
                      ELSE NewAddress6(base, index)

-----------------------------------------------------------------------------
(* All ones, shifted left in 32 bits.                                      *)
Mask4(prefix) ==
  FromUint32(((Pow2[Width(4)] - 1) * Pow2[Width(4) - prefix]) % Pow2[Width(4)])

ByteBits == SegmentBits \div 2

(* Variant: a byte that is not full is empty.                              *)
MaskByteWhole(prefix, i) ==
  IF prefix - i * ByteBits >= ByteBits THEN Pow2[ByteBits] - 1 ELSE 0

(* Byte i from 0: full, empty, or ones shifted left in 8 bits.             *)
MaskByte(prefix, i) ==
  LET length == prefix - i * ByteBits
  IN  IF length >= ByteBits THEN Pow2[ByteBits] - 1
      ELSE IF length > 0
      THEN ((Pow2[ByteBits] - 1) * Pow2[ByteBits - length]) % Pow2[ByteBits]
      ELSE 0

Mask6(prefix) ==
  [version |-> 6,
   value |-> [i \in 1..Segments |->
                MaskByte(prefix, 2 * i - 2) * Pow2[ByteBits]
                  + MaskByte(prefix, 2 * i - 1)]]

ValidPrefix(version, prefix) == prefix \in 1..Width(version)

Mask(version, prefix) ==
  IF ~ValidPrefix(version, prefix) THEN Refused
  ELSE IF version = 4 THEN Mask4(prefix) ELSE Mask6(prefix)

(* Bit k of an address, counted from 1 at the left.                        *)
BitAt(ip, k) ==
  LET bits == DigitBits(ip.version)
  IN  Bit(ip.value[1 + (k - 1) \div bits], bits - 1 - ((k - 1) % bits))

(* The ones from the left; a one behind a zero is refused.                 *)
MaskPrefix(mask) ==
  LET ones == {k \in 1..Width(mask.version) : BitAt(mask, k) = 1}
  IN  IF \E k \in ones : \E j \in 1..k : j \notin ones THEN Refused
      ELSE Cardinality(ones)

(* Variant: the count of an IPv6 network wraps.                            *)
AddressCountWraps(version, prefix) ==
  IF ~ValidPrefix(version, prefix) THEN Refused
  ELSE Pow2[Width(version) - prefix] % Pow2[IndexBits]

(* The count of an IPv6 network is saturated.                              *)
AddressCount(version, prefix) ==
  IF ~ValidPrefix(version, prefix) THEN Refused
  ELSE IF version = 6 /\ Width(6) - prefix >= IndexBits
  THEN Pow2[IndexBits] - 1
  ELSE Pow2[Width(version) - prefix]
=============================================================================
