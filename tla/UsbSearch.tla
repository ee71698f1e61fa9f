----------------------------- MODULE UsbSearch -----------------------------
(***************************************************************************)
(* communication_libusb::devices(): the search for USB devices.            *)
(*                                                                         *)
(* A search takes a reference on libusb's default context, lists the       *)
(* devices of the bus, opens and closes those that pass the filter on      *)
(* vendor and product to read their strings, and reports those that pass   *)
(* the filter on serial number and port.  The blocking and the             *)
(* non-blocking devices() may search at the same time; they share the      *)
(* context.  Devices may be unplugged at any time, so that any call on     *)
(* them may fail.  The order of the list is libusb's and left open.        *)
(***************************************************************************)
EXTENDS UsbBus, Integers, Sequences, FiniteSets, Functions

CONSTANTS
  Searchers,        \* threads inside kommpot::devices()
  Requests,         \* what each search may be asked for: sequences of records
                    \* of a vendor, a product, a serial number and a port,
                    \* with Any where the application does not care, and of
                    \* Ethernet
  Ethernet          \* an identification that is not a USB one

ASSUME DevicesAssumption ==
  \A d \in Devices : {"vendor", "product"} \subseteq DOMAIN d
ASSUME RequestsAssumption ==
  \A s \in Searchers : \A request \in Requests[s] : Len(request) \in Nat

VARIABLES
  phase,            \* where each search is
  asked,            \* identifications, a sequence
  listed,           \* device_list
  left,             \* the part of it that the loop has not come to
  handle,           \* device_handle
  found,            \* devices, a sequence
  failed,           \* devices on which a call of libusb failed (history)
  context           \* references on the default context

search == <<phase, asked, listed, left, handle, found, failed>>
vars   == <<search, context>>

(* The std::get_if that tells USB identifications from the others.         *)
Usb(s) == {asked[s][i] : i \in 1..Len(asked[s])} \ {Ethernet}

RequiredVendor(s, d) ==
  \E id \in Usb(s) : id.vendor \in {Any, d.vendor}

(* Variant: no wildcard for the product.                                   *)
RequiredProductExact(s, d) ==
  \E id \in Usb(s) : id.product = d.product

RequiredProduct(s, d) ==
  \E id \in Usb(s) : id.product \in {Any, d.product}

(* Variant: one of the two fields is enough.                               *)
SelectedByEither(s, information) ==
  \E id \in Usb(s) : \/ id.serial \in {Any, information.serial}
                     \/ id.port \in {Any, information.port}

(* The filter on what could be read of an opened device.                   *)
Selected(s, information) ==
  \E id \in Usb(s) : /\ id.serial \in {Any, information.serial}
                     /\ id.port \in {Any, information.port}

Init ==
  /\ phase = [s \in Searchers |-> "returned"]
  /\ asked = [s \in Searchers |-> <<>>]
  /\ listed = [s \in Searchers |-> {}]
  /\ left = [s \in Searchers |-> {}]
  /\ handle = [s \in Searchers |-> NoDevice]
  /\ found = [s \in Searchers |-> <<>>]
  /\ failed = [s \in Searchers |-> {}]
  /\ context = 0

-----------------------------------------------------------------------------
(* devices() is called: libusb_init(nullptr).                              *)
Start(s) ==
  /\ phase[s] = "returned"
  /\ \E request \in Requests[s] : asked' = [asked EXCEPT ![s] = request]
  /\ listed' = [listed EXCEPT ![s] = {}]
  /\ found' = [found EXCEPT ![s] = <<>>]
  /\ failed' = [failed EXCEPT ![s] = {}]
  /\ context' = context + 1
  /\ phase' = [phase EXCEPT ![s] = "list"]
  /\ UNCHANGED <<left, handle>>

StartFails(s) ==
  /\ phase[s] = "returned"
  /\ asked' = [asked EXCEPT ![s] = <<>>]
  /\ listed' = [listed EXCEPT ![s] = {}]
  /\ found' = [found EXCEPT ![s] = <<>>]
  /\ failed' = [failed EXCEPT ![s] = {}]
  /\ UNCHANGED <<phase, left, handle, context>>

GetList(s) ==
  /\ phase[s] = "list"
  /\ \E present \in SUBSET Devices :
       /\ listed' = [listed EXCEPT ![s] = present]
       /\ left' = [left EXCEPT ![s] = present]
  /\ phase' = [phase EXCEPT ![s] = "loop"]
  /\ UNCHANGED <<asked, handle, found, failed, context>>

(* A negative count is converted to an unsigned one: the loop reads        *)
(* through a null pointer, and anything may happen.                        *)
GetListFails(s) ==
  /\ phase[s] = "list"
  /\ phase' = [phase EXCEPT ![s] = "undefined"]
  /\ UNCHANGED <<asked, listed, left, handle, found, failed, context>>

AtDevice(s, d) ==
  /\ phase[s] = "loop"
  /\ handle[s] = NoDevice
  /\ d \in left[s]
  /\ left' = [left EXCEPT ![s] = @ \ {d}]

(* libusb_get_device_descriptor() fails, or libusb_open() does.            *)
CallFails(s, d) ==
  /\ AtDevice(s, d)
  /\ failed' = [failed EXCEPT ![s] = @ \cup {d}]
  /\ UNCHANGED <<phase, asked, listed, handle, found, context>>

Skip(s, d) ==
  /\ AtDevice(s, d)
  /\ \/ d.vendor = Ftdi
     \/ ~RequiredVendor(s, d)
     \/ ~RequiredProduct(s, d)
  /\ UNCHANGED <<phase, asked, listed, handle, found, failed, context>>

Open(s, d) ==
  /\ AtDevice(s, d)
  /\ d.vendor # Ftdi
  /\ RequiredVendor(s, d)
  /\ RequiredProduct(s, d)
  /\ handle' = [handle EXCEPT ![s] = d]
  /\ UNCHANGED <<phase, asked, listed, found, failed, context>>

(* What may be read of a device: a string that cannot be read is empty.    *)
Read(d, serial, port) == [d EXCEPT !.serial = serial, !.port = port]

Readings(d) ==
  {Read(d, serial, port) :
     serial \in {d.serial, Unread}, port \in {d.port, Unread}}

(* Variant: the device is reported for every identification.               *)
InspectWithoutBreak(s) ==
  /\ phase[s] = "loop"
  /\ handle[s] # NoDevice
  /\ found' = [found EXCEPT
                 ![s] = @ \o [i \in 1..(IF Selected(s, handle[s])
                                        THEN Cardinality(Usb(s)) ELSE 0)
                                |-> handle[s]]]
  /\ handle' = [handle EXCEPT ![s] = NoDevice]
  /\ UNCHANGED <<phase, asked, listed, left, failed, context>>

(* The strings are read, the device is closed, and it is reported for the  *)
(* first identification that selects it.                                   *)
Inspect(s) ==
  /\ phase[s] = "loop"
  /\ handle[s] # NoDevice
  /\ \E information \in Readings(handle[s]) :
       /\ found' = IF Selected(s, information)
                   THEN [found EXCEPT ![s] = Append(@, information)]
                   ELSE found
       /\ failed' = IF information = handle[s] THEN failed
                    ELSE [failed EXCEPT ![s] = @ \cup {handle[s]}]
  /\ handle' = [handle EXCEPT ![s] = NoDevice]
  /\ UNCHANGED <<phase, asked, listed, left, context>>

FreeList(s) ==
  /\ phase[s] = "loop"
  /\ handle[s] = NoDevice
  /\ left[s] = {}
  /\ phase' = [phase EXCEPT ![s] = "exit"]
  /\ UNCHANGED <<asked, listed, left, handle, found, failed, context>>

(* Variant: the reference on the context is kept.                          *)
ReturnWithoutExit(s) ==
  /\ phase[s] = "exit"
  /\ phase' = [phase EXCEPT ![s] = "returned"]
  /\ UNCHANGED <<asked, listed, left, handle, found, failed, context>>

(* libusb_exit(nullptr), and the list is returned.                         *)
Return(s) ==
  /\ phase[s] = "exit"
  /\ context' = context - 1
  /\ phase' = [phase EXCEPT ![s] = "returned"]
  /\ UNCHANGED <<asked, listed, left, handle, found, failed>>

-----------------------------------------------------------------------------
Next ==
  \E s \in Searchers :
    \/ Start(s)
    \/ StartFails(s)
    \/ GetList(s)
    \/ GetListFails(s)
    \/ \E d \in Devices : CallFails(s, d) \/ Skip(s, d) \/ Open(s, d)
    \/ Inspect(s)
    \/ FreeList(s)
    \/ Return(s)

Spec == Init /\ [][Next]_vars

-----------------------------------------------------------------------------
Phases      == {"list", "loop", "exit", "returned", "undefined"}
Lists       == {<<>>} \cup UNION {Requests[s] : s \in Searchers}
Information == UNION {Readings(d) : d \in Devices}
Results     == Seq(Information)

(* Type invariant of the search.                                           *)
TypeOK ==
  /\ phase \in [Searchers -> Phases]
  /\ asked \in [Searchers -> Lists]
  /\ listed \in [Searchers -> SUBSET Devices]
  /\ left \in [Searchers -> SUBSET Devices]
  /\ handle \in [Searchers -> Devices \cup {NoDevice}]
  /\ found \in [Searchers -> Results]
  /\ failed \in [Searchers -> SUBSET Devices]
  /\ context \in Int

Matches(id, d) ==
  /\ id.vendor \in {Any, d.vendor}
  /\ id.product \in {Any, d.product}
  /\ id.serial \in {Any, d.serial}
  /\ id.port \in {Any, d.port}

Reported(s) == {found[s][i] : i \in 1..Len(found[s])}

(* A device that was listed, that answered, and that some identification   *)
(* describes in full is reported: the two filters, the first of which      *)
(* looks at vendor and product alone, lose nothing.                        *)
NothingIsMissed ==
  \A s \in Searchers :
    phase[s] = "returned" =>
      \A d \in listed[s] \ failed[s] :
        d.vendor # Ftdi /\ (\E id \in Usb(s) : Matches(id, d)) =>
          d \in Reported(s)

(* A request with one USB identification gets devices that satisfy every   *)
(* field of it, although the fields are tested in separate passes.         *)
OneIdentificationIsExact ==
  \A s \in Searchers :
    Cardinality(Usb(s)) = 1 =>
      \A information \in Reported(s), id \in Usb(s) : Matches(id, information)

(* The entries of the result were read of different devices of set S.      *)
ReadOfDifferent(s, S) ==
  \E device \in Injection(1..Len(found[s]), S) :
    \A i \in 1..Len(found[s]) : found[s][i] \in Readings(device[i])

(* No device is reported twice, however many identifications select it and *)
(* however many devices were skipped: each entry of the result belongs to  *)
(* another one of the devices that the loop has come to.                   *)
NoDeviceTwice ==
  \A s \in Searchers : ReadOfDifferent(s, listed[s] \ left[s])

(* The default context lives as long as one of the searches uses it, and   *)
(* goes away with the last: no failing path of a search, nor one that ends *)
(* while the other is in its loop, releases it too often or too seldom.    *)
ContextOutlivesUse ==
  context = Cardinality({s \in Searchers : phase[s] # "returned"})

(* The comment on devices(): every device reported is one that a specified *)
(* identification describes.                                               *)
ReportedAccordingToAsked ==
  \A s \in Searchers : \A information \in Reported(s) :
    \E id \in Usb(s) : Matches(id, information)

-----------------------------------------------------------------------------
(* The inductive invariant of the proofs.                                  *)
LoopInv(s) ==
  /\ left[s] \subseteq listed[s]
  /\ phase[s] # "loop" => left[s] = {} /\ handle[s] = NoDevice
  /\ phase[s] = "list" => found[s] = <<>>

(* A device that should be reported was, or will be looked at.             *)
MissInv(s) ==
  phase[s] \in {"loop", "exit", "returned"} =>
    \A d \in listed[s] \ failed[s] :
      d.vendor # Ftdi /\ (\E id \in Usb(s) : Matches(id, d)) =>
        d \in left[s] \cup {handle[s]} \cup Reported(s)

(* What was opened has passed the first filter, what was reported both.    *)
FilterInv(s) ==
  /\ handle[s] # NoDevice =>
       RequiredVendor(s, handle[s]) /\ RequiredProduct(s, handle[s])
  /\ \A information \in Reported(s) :
       /\ RequiredVendor(s, information)
       /\ RequiredProduct(s, information)
       /\ Selected(s, information)

(* What is in the result was read of other devices than the open one.      *)
OnceInv(s) ==
  /\ handle[s] # NoDevice => handle[s] \in listed[s] \ left[s]
  /\ ReadOfDifferent(s, (listed[s] \ left[s]) \ {handle[s]})

IInv ==
  /\ TypeOK
  /\ \A s \in Searchers : LoopInv(s) /\ MissInv(s) /\ FilterInv(s)
=============================================================================
