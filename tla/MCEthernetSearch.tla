-------------------------- MODULE MCEthernetSearch --------------------------
(***************************************************************************)
(* Instances of EthernetSearch for TLC: IPv4 addresses of three bits, IPv6 *)
(* addresses of eight, two Ethernet adapters and another one.              *)
(***************************************************************************)
EXTENDS EthernetSearch

CONSTANTS n1, n2, lo        \* names

EthernetNames == {n1, n2}

V4(a, b, c) == [version |-> 4, value |-> <<a, b, c>>]
V6(a, b)    == [version |-> 6, value |-> <<a, b>>]

Packet(name, mac) == [name |-> name, family |-> "packet", mac |-> mac]
Ip(name, address, mask) ==
  [name |-> name, family |-> "ip", address |-> address, mask |-> mask]

Adapter(name, mac, up, unicast, gateways) ==
  [name |-> name, family |-> "adapter", mac |-> mac, up |-> up,
   unicast |-> unicast, gateways |-> gateways]
Unit(address, prefix) == [address |-> address, prefix |-> prefix]

FirstBit  == V4(1, 0, 0)       \* the mask of prefix 1
TwoBits   == V4(1, 1, 0)       \* the mask of prefix 2

TheEntries ==
  {Packet(n1, Mac), Packet(n1, ZeroMac), Packet(n2, Mac), Packet(n2, NotMac),
   Ip(n1, V4(1, 0, 1), FirstBit), Ip(n1, V4(0, 1, 0), TwoBits),
   Ip(n1, V4(0, 1, 1), Null), Ip(n1, V4(1, 1, 1), V4(0, 0, 0)),
   Ip(n1, V4(1, 1, 1), V4(1, 0, 1)),
   Ip(n1, V6(9, 1), V6(12, 0)),
   Ip(n2, V4(0, 0, 1), FirstBit), Ip(n2, V6(9, 2), V6(15, 8)),
   Ip(lo, V4(1, 1, 1), FirstBit),
   [name |-> n2, family |-> "other"],
   Adapter(n1, Mac, TRUE, <<Unit(V6(9, 1), 6), Unit(V4(1, 0, 1), 2),
                            Unit(V4(0, 1, 0), 1), Unit(V6(3, 1), 4)>>, {4}),
   Adapter(n1, ZeroMac, TRUE, <<Unit(V4(0, 1, 1), 1)>>, {6}),
   Adapter(n1, Mac, FALSE, <<Unit(V4(1, 0, 1), 1)>>, {4}),
   Adapter(n1, Mac, TRUE, <<Unit(V4(1, 0, 1), 0), Unit(V6(9, 1), 9)>>, {4}),
   Adapter(n2, Mac, TRUE, <<Unit(V4(0, 0, 1), 0), Unit(V6(9, 2), 5)>>, {4, 6}),
   Adapter(n2, Mac, TRUE, <<Unit(V4(1, 1, 0), 2)>>, {}),
   Adapter(n2, Mac, TRUE, <<Unit(V4(1, 1, 0), 1)>>, {4}),
   Adapter(n2, Mac, TRUE, <<>>, {4}),
   Adapter(lo, ZeroMac, TRUE, <<Unit(V4(1, 1, 1), 1)>>, {4})}

TheHosts == (Addresses(4) \ {V4(0, 1, 0)}) \cup {V6(9, 0), V6(9, 1)}

Any        == [kind |-> "any"]
Other      == [kind |-> "other"]
At(a)      == [kind |-> "address", address |-> a, plain |-> TRUE]
Short(a)   == [kind |-> "address", address |-> a, plain |-> FALSE]
Pattern(s) == [kind |-> "pattern", matches |-> s]

PatternRequests == {<<Pattern({V4(1, 0, 0), V4(1, 0, 1)})>>}

TheRequests ==
  {<<Any, At(V4(1, 0, 1)), Short(V6(9, 0)), At(V6(9, 1))>>,
   <<Other, At(V4(0, 1, 0)), Any>>} \cup PatternRequests
=============================================================================
