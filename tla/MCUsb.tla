------------------------------- MODULE MCUsb -------------------------------
(***************************************************************************)
(* Instances of UsbSearch and UsbDevice for TLC.  The search and the       *)
(* objects share nothing but the bus: one is at rest while the other       *)
(* moves.                                                                  *)
(***************************************************************************)
EXTENDS UsbSearch, UsbDevice

CONSTANTS
  s1, s2,           \* searchers
  o1, o2            \* objects

Tlc == INSTANCE TLC

OneSearcher  == {s1}
TwoSearchers == {s1, s2}
TwoObjects   == {o1, o2}
Exchange     == Tlc!Permutations(TwoObjects)

Describe(vendor, product, serial, port) ==
  [vendor |-> vendor, product |-> product, serial |-> serial, port |-> port]

Attach(device, bus) ==
  [vendor |-> device.vendor, product |-> device.product,
   serial |-> device.serial, port |-> device.port, bus |-> bus]

(* Two devices that share a serial number, the second with the product     *)
(* that is also the wildcard, and an FTDI device that shares a product     *)
(* number with the first.                                                  *)
Bus == {Attach(Describe("v1", "p1", "n1", "1"), "b1"),
        Attach(Describe("v1", Any, "n1", "2"), "b1"),
        Attach(Describe(Ftdi, "p1", "n2", "3"), "b1")}

(* Two devices of two vendors, and an FTDI device.                         *)
TwoVendors == {Attach(Describe("v1", "p1", "n1", "1"), "b1"),
               Attach(Describe("v2", "p2", "n1", "2"), "b1"),
               Attach(Describe(Ftdi, "p1", "n2", "3"), "b1")}

(* Two devices of one kind on the same port of two buses.                  *)
TwoBuses == {Attach(Describe("v1", "p1", "n1", "1"), "b1"),
             Attach(Describe("v1", "p1", "n1", "1"), "b2")}

Everything == Describe(Any, Any, Any, Any)
FirstKind  == Describe("v1", "p1", Any, Any)
WrongKind  == Describe("v1", "p2", Any, Any)
SecondWith == Describe("v2", Any, "n1", Any)
FirstPort  == Describe(Any, Any, "n1", "1")
OtherPort  == Describe(Any, "p1", "n1", "2")

(* s1 asks for any one of these or for a pair, s2 for one product.         *)
Asked ==
  [s \in TwoSearchers |->
     IF s = s1
     THEN {<<>>} \cup
          {<<id>> : id \in {Ethernet, Everything, FirstKind, WrongKind,
                           SecondWith, FirstPort, OtherPort}} \cup
          {<<FirstKind, SecondWith>>, <<Everything, FirstPort>>,
           <<WrongKind, OtherPort>>, <<Ethernet, FirstKind>>,
           <<OtherPort, SecondWith>>, <<SecondWith, WrongKind>>}
     ELSE {<<>>, <<Describe(Any, "p1", Any, Any)>>}]

-----------------------------------------------------------------------------
(* Searcher s has not searched yet.                                        *)
Fresh(s) ==
  /\ phase[s] = "returned"
  /\ asked[s] = <<>>
  /\ listed[s] = {}

UsbInit == Init /\ DeviceInit

UsbNext ==
  \/ /\ DeviceInit
     /\ Next
     /\ UNCHANGED deviceVars
  \/ /\ \A s \in Searchers : Fresh(s)
     /\ DeviceNext
     /\ UNCHANGED vars

UsbSpec == UsbInit /\ [][UsbNext]_<<vars, deviceVars>>

(* s2 searches beside s1 for two of the requests of s1 only.               *)
FewTogether ==
  \A s \in Searchers \ {s1} :
    Fresh(s) \/ asked[s1] \in {<<>>, <<FirstKind>>}
=============================================================================
