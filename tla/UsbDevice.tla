----------------------------- MODULE UsbDevice -----------------------------
(***************************************************************************)
(* The objects of class communication_libusb: open(), close(), transfers   *)
(* and destruction.                                                        *)
(*                                                                         *)
(* An object is what a search reported of a device: its vendor, product    *)
(* and port.  open() goes through the bus again and takes the first device *)
(* that fits.  Every object is used by one thread at a time; the objects   *)
(* share the static m_libusb_context, which the first open() creates.      *)
(* Any call of libusb may fail.  A libusb handle is a number that is used  *)
(* again once it is closed.                                                *)
(***************************************************************************)
EXTENDS UsbBus, FiniteSets

CONSTANT Objects

NULL    == 0
Handles == 1..MaxHandles

VARIABLES
  state,            \* where the object is: "absent", "ready" between two
                    \* calls, or inside open()
  source,           \* the device the object was reported for (history)
  m_identification, \* its vendor, product and port as they were read
  untried,          \* what the loop of open() has not come to
  device_handle,
  m_device_handle,
  answer,           \* what the last call returned
  excused,          \* objects whose source was not listed or on which a
                    \* call failed since open() was called (history)
  opened,           \* the device behind each handle; NoDevice if it is closed
  m_libusb_context, \* which context, 0 for nullptr
  contexts,         \* contexts created
  unfreed,          \* whether a list was left behind (history)
  careless          \* which of the two paths that lose something were
                    \* taken (history)

object == <<state, source, m_identification, untried, device_handle,
            m_device_handle, answer, excused>>
shared == <<opened, m_libusb_context, contexts, unfreed, careless>>
deviceVars   == <<object, shared>>

DeviceInit ==
  /\ state = [o \in Objects |-> "absent"]
  /\ source = [o \in Objects |-> NoDevice]
  /\ m_identification = [o \in Objects |-> NoDevice]
  /\ untried = [o \in Objects |-> {}]
  /\ device_handle = [o \in Objects |-> NULL]
  /\ m_device_handle = [o \in Objects |-> NULL]
  /\ answer = [o \in Objects |-> "none"]
  /\ excused = {}
  /\ opened = [h \in Handles |-> NoDevice]
  /\ m_libusb_context = NULL
  /\ contexts = 0
  /\ unfreed = FALSE
  /\ careless = {}

(* Undefined behaviour of one object ends what can be said of the process. *)
Defined == \A o \in Objects : state[o] # "undefined"

At(o, place) == Defined /\ state[o] = place

Goto(o, place) == state' = [state EXCEPT ![o] = place]

Answer(o, what) ==
  /\ Goto(o, "ready")
  /\ answer' = [answer EXCEPT ![o] = what]

-----------------------------------------------------------------------------
(* A search reports device d; its port may not have been readable.         *)
Report(o, d) ==
  /\ At(o, "absent")
  /\ d.vendor # Ftdi
  /\ \E port \in {d.port, Unread} :
       m_identification' = [m_identification EXCEPT ![o] =
         [vendor |-> d.vendor, product |-> d.product, port |-> port]]
  /\ source' = [source EXCEPT ![o] = d]
  /\ Answer(o, "none")
  /\ UNCHANGED <<untried, device_handle, m_device_handle, excused, shared>>

(* open() is called.  No one keeps the application from calling it again.  *)
OpenCalled(o) ==
  /\ At(o, "ready")
  /\ excused' = excused \ {o}
  /\ careless' = careless
       \cup (IF m_device_handle[o] # NULL THEN {"reopened"} ELSE {})
       \cup (IF m_identification[o].port = Unread THEN {"portless"} ELSE {})
  /\ Goto(o, IF m_libusb_context = NULL THEN "init" ELSE "list")
  /\ UNCHANGED <<source, m_identification, untried, device_handle,
                 m_device_handle, answer, opened, m_libusb_context,
                 contexts, unfreed>>

(* Variant: the context is not kept.                                       *)
InitContextLocal(o) ==
  /\ At(o, "init")
  /\ contexts' = contexts + 1
  /\ Goto(o, "list")
  /\ UNCHANGED <<source, m_identification, untried, device_handle,
                 m_device_handle, answer, excused, opened,
                 m_libusb_context, unfreed, careless>>

(* libusb_init(&m_libusb_context); another open() may have been here since *)
(* the test.  A failure to set an option is only logged.                   *)
InitContext(o) ==
  /\ At(o, "init")
  /\ contexts' = contexts + 1
  /\ m_libusb_context' = contexts'
  /\ Goto(o, "list")
  /\ UNCHANGED <<source, m_identification, untried, device_handle,
                 m_device_handle, answer, excused, opened, unfreed,
                 careless>>

InitFails(o) ==
  /\ At(o, "init")
  /\ excused' = excused \cup {o}
  /\ Answer(o, "refused")
  /\ UNCHANGED <<source, m_identification, untried, device_handle,
                 m_device_handle, shared>>

ListDevices(o) ==
  /\ At(o, "list")
  /\ \E present \in SUBSET Devices :
       /\ untried' = [untried EXCEPT ![o] = present]
       /\ excused' = IF source[o] \in present THEN excused
                     ELSE excused \cup {o}
  /\ Goto(o, "loop")
  /\ UNCHANGED <<source, m_identification, device_handle, m_device_handle,
                 answer, shared>>

(* A negative count makes the loop read through a null pointer.            *)
ListFails(o) ==
  /\ At(o, "list")
  /\ Goto(o, "undefined")
  /\ UNCHANGED <<source, m_identification, untried, device_handle,
                 m_device_handle, answer, excused, shared>>

-----------------------------------------------------------------------------
Trying(o, d) ==
  /\ At(o, "loop")
  /\ device_handle[o] = NULL
  /\ d \in untried[o]
  /\ untried' = [untried EXCEPT ![o] = @ \ {d}]

(* libusb_get_device_descriptor() fails, or libusb_open() does.            *)
TryFails(o, d) ==
  /\ Trying(o, d)
  /\ excused' = IF d = source[o] THEN excused \cup {o} ELSE excused
  /\ UNCHANGED <<state, source, m_identification, device_handle,
                 m_device_handle, answer, shared>>

IsRequired(id, d) ==
  /\ id.vendor \in {Any, d.vendor}
  /\ id.product \in {Any, d.product}

SkipDevice(o, d) ==
  /\ Trying(o, d)
  /\ \/ d.vendor = Ftdi
     \/ ~IsRequired(m_identification[o], d)
  /\ UNCHANGED <<state, source, m_identification, device_handle,
                 m_device_handle, answer, excused, shared>>

OpenDevice(o, d) ==
  /\ Trying(o, d)
  /\ d.vendor # Ftdi
  /\ IsRequired(m_identification[o], d)
  /\ \E h \in Handles :
       /\ opened[h] = NoDevice
       /\ \A i \in Handles : opened[i] = NoDevice => h <= i
       /\ opened' = [opened EXCEPT ![h] = d]
       /\ device_handle' = [device_handle EXCEPT ![o] = h]
  /\ UNCHANGED <<state, source, m_identification, m_device_handle, answer,
                 excused, m_libusb_context, contexts, unfreed, careless>>

(* Returns with the device open, and without freeing the list.             *)
NoPort(o) ==
  /\ At(o, "loop")
  /\ device_handle[o] # NULL
  /\ m_identification[o].port = Unread
  /\ device_handle' = [device_handle EXCEPT ![o] = NULL]
  /\ untried' = [untried EXCEPT ![o] = {}]
  /\ unfreed' = TRUE
  /\ Answer(o, "refused")
  /\ UNCHANGED <<source, m_identification, m_device_handle, excused,
                 opened, m_libusb_context, contexts, careless>>

(* Variant: the handle of a device at another port stays open.             *)
WrongPortStaysOpen(o) ==
  /\ At(o, "loop")
  /\ device_handle[o] # NULL
  /\ m_identification[o].port # Unread
  /\ m_identification[o].port # opened[device_handle[o]].port
  /\ device_handle' = [device_handle EXCEPT ![o] = NULL]
  /\ UNCHANGED <<state, source, m_identification, untried, m_device_handle,
                 answer, excused, shared>>

(* Variant: the first device at another port ends the search.              *)
WrongPortGivesUp(o) ==
  /\ At(o, "loop")
  /\ device_handle[o] # NULL
  /\ m_identification[o].port # Unread
  /\ m_identification[o].port # opened[device_handle[o]].port
  /\ opened' = [opened EXCEPT ![device_handle[o]] = NoDevice]
  /\ device_handle' = [device_handle EXCEPT ![o] = NULL]
  /\ untried' = [untried EXCEPT ![o] = {}]
  /\ Answer(o, "refused")
  /\ UNCHANGED <<source, m_identification, m_device_handle, excused,
                 m_libusb_context, contexts, unfreed, careless>>

(* get_port_path() gives another port, or fails.                           *)
WrongPort(o) ==
  /\ At(o, "loop")
  /\ device_handle[o] # NULL
  /\ m_identification[o].port # Unread
  /\ LET d == opened[device_handle[o]]
     IN  \/ d.port # m_identification[o].port /\ UNCHANGED excused
         \/ excused' = IF d = source[o] THEN excused \cup {o} ELSE excused
  /\ opened' = [opened EXCEPT ![device_handle[o]] = NoDevice]
  /\ device_handle' = [device_handle EXCEPT ![o] = NULL]
  /\ UNCHANGED <<state, source, m_identification, untried, m_device_handle,
                 answer, m_libusb_context, contexts, unfreed, careless>>

(* Variant: the port is not compared.                                      *)
MatchAnyPort(o) ==
  /\ At(o, "loop")
  /\ device_handle[o] # NULL
  /\ m_identification[o].port # Unread
  /\ m_device_handle' = [m_device_handle EXCEPT ![o] = device_handle[o]]
  /\ device_handle' = [device_handle EXCEPT ![o] = NULL]
  /\ untried' = [untried EXCEPT ![o] = {}]
  /\ Answer(o, "opened")
  /\ UNCHANGED <<source, m_identification, excused, shared>>

(* Replaces whatever m_device_handle held.                                 *)
Match(o) ==
  /\ At(o, "loop")
  /\ device_handle[o] # NULL
  /\ m_identification[o].port # Unread
  /\ m_identification[o].port = opened[device_handle[o]].port
  /\ m_device_handle' = [m_device_handle EXCEPT ![o] = device_handle[o]]
  /\ device_handle' = [device_handle EXCEPT ![o] = NULL]
  /\ untried' = [untried EXCEPT ![o] = {}]
  /\ Answer(o, "opened")
  /\ UNCHANGED <<source, m_identification, excused, shared>>

NoMatch(o) ==
  /\ At(o, "loop")
  /\ device_handle[o] = NULL
  /\ untried[o] = {}
  /\ Answer(o, "refused")
  /\ UNCHANGED <<source, m_identification, untried, device_handle,
                 m_device_handle, excused, shared>>

-----------------------------------------------------------------------------
(* Variant: m_device_handle keeps the handle.                              *)
CloseHandleOnly(o) ==
  /\ opened' = IF m_device_handle[o] = NULL THEN opened
               ELSE [opened EXCEPT ![m_device_handle[o]] = NoDevice]
  /\ UNCHANGED m_device_handle

CloseHandle(o) ==
  /\ opened' = IF m_device_handle[o] = NULL THEN opened
               ELSE [opened EXCEPT ![m_device_handle[o]] = NoDevice]
  /\ m_device_handle' = [m_device_handle EXCEPT ![o] = NULL]

Close(o) ==
  /\ At(o, "ready")
  /\ CloseHandle(o)
  /\ Answer(o, "none")
  /\ UNCHANGED <<source, m_identification, untried, device_handle, excused,
                 m_libusb_context, contexts, unfreed, careless>>

Destroy(o) ==
  /\ At(o, "ready")
  /\ CloseHandle(o)
  /\ Goto(o, "absent")
  /\ source' = [source EXCEPT ![o] = NoDevice]
  /\ m_identification' = [m_identification EXCEPT ![o] = NoDevice]
  /\ answer' = [answer EXCEPT ![o] = "none"]
  /\ excused' = excused \ {o}
  /\ UNCHANGED <<untried, device_handle, m_libusb_context, contexts, unfreed,
                 careless>>

(* read(), write() and endpoints() hand m_device_handle to libusb, which   *)
(* looks behind it without a test.  A transfer may fail, at the latest by  *)
(* its timeout; the device stays open.                                     *)
Use(o) ==
  /\ At(o, "ready")
  /\ Goto(o, IF m_device_handle[o] = NULL THEN "undefined" ELSE "ready")
  /\ UNCHANGED <<source, m_identification, untried, device_handle,
                 m_device_handle, answer, excused, shared>>

-----------------------------------------------------------------------------
DeviceNext ==
  \E o \in Objects :
    \/ \E d \in Devices :
         Report(o, d) \/ TryFails(o, d) \/ SkipDevice(o, d) \/ OpenDevice(o, d)
    \/ OpenCalled(o)
    \/ InitContext(o)
    \/ InitFails(o)
    \/ ListDevices(o)
    \/ ListFails(o)
    \/ NoPort(o)
    \/ WrongPort(o)
    \/ Match(o)
    \/ NoMatch(o)
    \/ Close(o)
    \/ Destroy(o)
    \/ Use(o)

DeviceSpec == DeviceInit /\ [][DeviceNext]_deviceVars

-----------------------------------------------------------------------------
Held(o) == {device_handle[o], m_device_handle[o]} \ {NULL}

(* No object believes in a handle that is closed, and none shares one with *)
(* another object, which would close it under its feet.                    *)
HandlesAreLive ==
  /\ \A o \in Objects : \A h \in Held(o) : opened[h] # NoDevice
  /\ \A o, p \in Objects : o # p => Held(o) \cap Held(p) = {}
  /\ \A o \in Objects :
       device_handle[o] # NULL => device_handle[o] # m_device_handle[o]

(* Every handle has an owner, and every list is freed, on every path       *)
(* through open() but two: an open object is opened again, or the port     *)
(* could not be read when the object was reported.                         *)
OnlyCarelessLeaks ==
  /\ (\E h \in Handles : /\ opened[h] # NoDevice
                         /\ \A o \in Objects : h \notin Held(o))
       => careless \cap {"reopened", "portless"} # {}
  /\ unfreed => "portless" \in careless

(* What was reported can be opened: open() refuses only if the device was  *)
(* not on the bus, a call on it failed, or its port was never read.        *)
ReportedCanBeOpened ==
  \A o \in Objects :
    answer[o] = "refused" /\ state[o] = "ready" =>
      o \in excused \/ m_identification[o].port = Unread

(* An open device is of the kind and at the port that was reported.        *)
OpenedFits ==
  \A o \in Objects :
    m_device_handle[o] # NULL =>
      LET d == opened[m_device_handle[o]]
      IN  /\ IsRequired(m_identification[o], d)
          /\ d.port = m_identification[o].port
          /\ d.vendor # Ftdi

(* The race for the context creates no more of them than there are         *)
(* threads, because none comes to it a second time; and none lists devices *)
(* before there is one.                                                    *)
ContextIsMade ==
  /\ contexts <= Cardinality(Objects)
  /\ \A o \in Objects :
       state[o] \in {"list", "loop"} => m_libusb_context # NULL

(* The comment on port, "reliable for unique detection": the device that   *)
(* is opened is the one that was reported.                                 *)
OpenedIsReported ==
  \A o \in Objects :
    m_device_handle[o] # NULL => opened[m_device_handle[o]] = source[o]
-----------------------------------------------------------------------------
(* The inductive invariant of the proofs.                                  *)
States == {"absent", "ready", "init", "list", "loop", "undefined"}

InOpen(o) == state[o] \in {"init", "list", "loop"}

Identifications ==
  UNION {{[vendor |-> d.vendor, product |-> d.product, port |-> port] :
            port \in {d.port, Unread}} : d \in Devices}

DeviceTypeOK ==
  /\ state \in [Objects -> States]
  /\ source \in [Objects -> Devices \cup {NoDevice}]
  /\ m_identification \in [Objects -> Identifications \cup {NoDevice}]
  /\ untried \in [Objects -> SUBSET Devices]
  /\ device_handle \in [Objects -> Handles \cup {NULL}]
  /\ m_device_handle \in [Objects -> Handles \cup {NULL}]
  /\ answer \in [Objects -> {"none", "refused", "opened"}]
  /\ excused \subseteq Objects
  /\ opened \in [Handles -> Devices \cup {NoDevice}]
  /\ m_libusb_context \in Nat
  /\ contexts \in Nat
  /\ unfreed \in BOOLEAN
  /\ careless \subseteq {"reopened", "portless"}

(* Handles are held only where the code has them in its variables.         *)
StateInv ==
  \A o \in Objects :
    /\ device_handle[o] # NULL => state[o] = "loop"
    /\ state[o] = "absent" => m_device_handle[o] = NULL

(* HandlesAreLive, handle by handle.                                       *)
LiveInv ==
  \A o \in Objects :
    /\ device_handle[o] # NULL =>
         /\ opened[device_handle[o]] # NoDevice
         /\ device_handle[o] # m_device_handle[o]
    /\ m_device_handle[o] # NULL => opened[m_device_handle[o]] # NoDevice
    /\ \A p \in Objects \ {o} :
         /\ device_handle[o] # NULL =>
              device_handle[o] \notin {device_handle[p], m_device_handle[p]}
         /\ m_device_handle[o] # NULL =>
              m_device_handle[o] # m_device_handle[p]

(* An object asks for the device it was reported for, and open() has only  *)
(* opened what it asks for.                                                *)
AskedInv ==
  \A o \in Objects :
    /\ state[o] # "absent" =>
         /\ source[o] \in Devices
         /\ source[o].vendor # Ftdi
         /\ m_identification[o].vendor = source[o].vendor
         /\ m_identification[o].product = source[o].product
         /\ m_identification[o].port \in {source[o].port, Unread}
    /\ device_handle[o] # NULL =>
         /\ IsRequired(m_identification[o], opened[device_handle[o]])
         /\ opened[device_handle[o]].vendor # Ftdi

(* The loop still has to come to the device, or is at it.                  *)
UntriedInv ==
  \A o \in Objects :
    state[o] = "loop" =>
      \/ o \in excused
      \/ source[o] \in untried[o]
      \/ device_handle[o] # NULL /\ opened[device_handle[o]] = source[o]

CarelessInv ==
  \A o \in Objects :
    InOpen(o) =>
      /\ m_device_handle[o] # NULL => "reopened" \in careless
      /\ m_identification[o].port = Unread => "portless" \in careless

(* Nobody creates a context once there is one, but those that are about to.*)
ContextInv ==
  /\ m_libusb_context = NULL => contexts = 0
  /\ contexts + Cardinality({o \in Objects : state[o] = "init"})
       <= Cardinality(Objects)
  /\ \A o \in Objects :
       state[o] \in {"list", "loop"} => m_libusb_context # NULL

DeviceInv ==
  /\ DeviceTypeOK /\ StateInv /\ LiveInv /\ AskedInv /\ OpenedFits
  /\ UntriedInv /\ ReportedCanBeOpened /\ CarelessInv /\ OnlyCarelessLeaks
=============================================================================
