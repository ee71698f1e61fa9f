---------------------------- MODULE AddressCalls ----------------------------
(***************************************************************************)
(* Calls of the address factory, and what they promise: an address is      *)
(* chosen, then the prefix and the host index it is used with.             *)
(***************************************************************************)
EXTENDS AddressFactory

CONSTANTS
  SegmentValues,      \* the segments IPv6 addresses are made of
  Indices             \* the host indices asked for

ASSUME CallsAssumption ==
  /\ SegmentValues \subseteq 0..(Radix(6) - 1)
  /\ Indices \subseteq 0..(Pow2[IndexBits] - 1)

VARIABLES ip, prefix, index

callVars == <<ip, prefix, index>>

CallsInit ==
  /\ ip = Refused
  /\ prefix = Refused
  /\ index = 0

Choose ==
  /\ ip = Refused
  /\ \/ ip' \in Addresses(4)
     \/ ip' \in [version : {6}, value : [1..Segments -> SegmentValues]]
  /\ UNCHANGED <<prefix, index>>

Ask ==
  /\ ip # Refused
  /\ prefix = Refused
  /\ prefix' \in 0..(Width(ip.version) + 1)
  /\ index' \in Indices
  /\ UNCHANGED ip

CallsNext == Choose \/ Ask

CallsSpec == CallsInit /\ [][CallsNext]_callVars

(* What an address stands for.                                             *)
Number(a) == Positional(a.value, Digits(a.version), Radix(a.version))

Precedes(a, other) ==
  IF a.version = 4 THEN Precedes4(a, other) ELSE Precedes6(a, other)

(* The sum that calculate_new_address() forms for IPv4 leaves uint64_t.    *)
SumWraps(a, n) == a.version = 4 /\ Number(a) + n >= Pow2[IndexBits]

(* calculate_new_address() adds: the segments, with their carries, are the *)
(* digits of the sum, and an address is refused exactly when the sum is    *)
(* outside the address space.  The comparison operators agree: a higher    *)
(* index is a later address.  Nothing is said of a sum that wraps: see     *)
(* OverflowIsRefused.                                                      *)
NewAddressAdds ==
  ip # Refused /\ ~SumWraps(ip, index) =>
  LET new == NewAddress(ip, index)
      sum == Number(ip) + index
  IN  IF sum < Pow2[Width(ip.version)]
      THEN /\ new # Refused
           /\ new \in Addresses(ip.version)
           /\ Number(new) = sum
           /\ Precedes(ip, new) <=> index > 0
      ELSE new = Refused

(* The message of the code, and the test with the highest uint64_t: a host *)
(* index whose sum is outside the address space is refused.  An IPv4 sum   *)
(* that wraps is not: it gives an address below the base.                  *)
OverflowIsRefused ==
  ip # Refused /\ Number(ip) + index >= Pow2[Width(ip.version)] =>
    NewAddress(ip, index) = Refused

(* calculate_mask() and calculate_mask_prefix() are inverse: every valid   *)
(* prefix is read back from its mask, and what has another prefix than     *)
(* zero is the mask of that prefix.                                        *)
MaskRoundTrip ==
  ip # Refused =>
  /\ ValidPrefix(ip.version, prefix) =>
       MaskPrefix(Mask(ip.version, prefix)) = prefix
  /\ MaskPrefix(ip) \notin {Refused, 0} =>
       Mask(ip.version, MaskPrefix(ip)) = ip

(* The base address and the count describe one network: base + index is an *)
(* address of the network of ip exactly when index is below the count,     *)
(* unless the count was saturated; then it is one for every index.         *)
CountFitsNetwork ==
  ip # Refused /\ ValidPrefix(ip.version, prefix) =>
    LET mask  == Mask(ip.version, prefix)
        base  == BaseAddress(ip, mask)
        count == AddressCount(ip.version, prefix)
        new   == NewAddress(base, index)
        inside == new # Refused /\ BaseAddress(new, mask) = base
    IN  /\ index < count => inside
        /\ count < Pow2[IndexBits] - 1 => (inside => index < count)
=============================================================================
