--------------------------- MODULE EthernetSocket ---------------------------
(**************************************************************************  *)
(* ethernet_socket and the life cycle of communication_ethernet around it.   *)
(*                                                                           *)
(* Every device object owns one socket object; objects used by different     *)
(* threads share the descriptors of the process, which the kernel hands      *)
(* out again as soon as they are closed.  open() is a sequence of system     *)
(* calls, each of which may fail; what an object remembers (m_handle,        *)
(* m_is_connected) and what the kernel knows of the descriptor are           *)
(* separate pieces of state that the code keeps in step.                     *)
(* is_host_reachable() makes the same calls on an object of its own:         *)
(* it opens, closes and destroys it.  read() and write() transfer in         *)
(* parts until all is done or a part fails.                                  *)
(**************************************************************************  *)
EXTENDS Naturals, FiniteSets

CONSTANTS
  Sockets,              \* socket objects
  Descriptors,          \* the descriptors the process may have open
  Invalid,              \* ETH_INVALID_SOCKET; also: no object
  Reopened,             \* objects that are opened again while they are open
  MaxBytes              \* bound on the size of a transfer

ASSUME InvalidAssumption == Invalid \notin Descriptors \cup Sockets
ASSUME ReopenAssumption  == Reopened \subseteq Sockets
ASSUME BytesAssumption   == MaxBytes \in Nat

VARIABLES
  place,                \* where each object is: in a call, idle or destroyed
  handle,               \* m_handle
  connected,            \* m_is_connected
  left,                 \* bytes the transfer in progress still has to move
  owner,                \* the object each descriptor was created for
  link,                 \* what the kernel knows of each descriptor
  blocking,             \* whether O_NONBLOCK is off
  bounded,              \* whether SO_RCVTIMEO and SO_SNDTIMEO are set
  blamed,               \* descriptors on which setsockopt or close failed
  strayed               \* whether a close() failed and freed its descriptor

objects == <<place, handle, connected, left>>
kernel  == <<owner, link, blocking, bounded>>
history == <<blamed, strayed>>
socketVars == <<objects, kernel, history>>

Links == {"free", "fresh", "connecting", "refused", "established", "hungUp"}
Opening == {"setTimeout", "connect", "start", "select", "restore",
            "readHostname", "readMacAddress"}
Calls   == Opening \cup {"read", "write", "destructor"}

IsConnected(s) == handle[s] # Invalid /\ connected[s]

(* The kernel accepts calls on the descriptor.                               *)
IsValid(s) == link[handle[s]] # "free"

SocketInit ==
  /\ place = [s \in Sockets |-> "idle"]
  /\ handle = [s \in Sockets |-> Invalid]
  /\ connected = [s \in Sockets |-> FALSE]
  /\ left = [s \in Sockets |-> 0]
  /\ owner = [d \in Descriptors |-> Invalid]
  /\ link = [d \in Descriptors |-> "free"]
  /\ blocking = [d \in Descriptors |-> TRUE]
  /\ bounded = [d \in Descriptors |-> FALSE]
  /\ blamed = {}
  /\ strayed = FALSE

-----------------------------------------------------------------------------
(* close_socket() and the two outcomes of the system call.                   *)

Release(d) ==
  /\ owner' = [owner EXCEPT ![d] = Invalid]
  /\ link' = [link EXCEPT ![d] = "free"]
  /\ blocking' = [blocking EXCEPT ![d] = TRUE]
  /\ bounded' = [bounded EXCEPT ![d] = FALSE]

(* Variant: m_handle keeps its value.                                        *)
CloseForgetsHandle(s) ==
  /\ IsValid(s)
  /\ Release(handle[s])
  /\ connected' = [connected EXCEPT ![s] = FALSE]
  /\ blamed' = blamed \ {handle[s]}
  /\ UNCHANGED <<handle, left, strayed>>

CloseSucceeds(s) ==
  /\ IsValid(s)
  /\ Release(handle[s])
  /\ handle' = [handle EXCEPT ![s] = Invalid]
  /\ connected' = [connected EXCEPT ![s] = FALSE]
  /\ blamed' = blamed \ {handle[s]}
  /\ UNCHANGED <<left, strayed>>

(* After an error some systems have freed the descriptor and others keep     *)
(* it; m_handle and m_is_connected stay as they are.                         *)
CloseFails(s) ==
  /\ \/ UNCHANGED <<kernel, strayed>>
     \/ Release(handle[s]) /\ strayed' = TRUE
  /\ blamed' = blamed \cup {handle[s]}
  /\ UNCHANGED <<handle, connected, left>>

CloseSocket(s) == CloseSucceeds(s) \/ CloseFails(s)

(* Variant: a failing path that does not close.                              *)
GiveUpOpen(s) ==
  /\ place' = [place EXCEPT ![s] = "idle"]
  /\ UNCHANGED <<handle, connected, left, kernel, history>>

(* connect() gives up: the result of close_socket() is not looked at.        *)
GiveUp(s) ==
  /\ CloseSocket(s)
  /\ place' = [place EXCEPT ![s] = "idle"]

-----------------------------------------------------------------------------
(* open(): initialize(), set_timeout(), connect().  When the address does    *)
(* not parse or the ethernet context does not start it changes nothing.      *)

MayOpen(s) == place[s] = "idle" /\ (IsConnected(s) => s \in Reopened)

(* socket() fails, for want of a descriptor or otherwise; its result has     *)
(* replaced m_handle by then.                                                *)
NotCreated(s) ==
  /\ MayOpen(s)
  /\ handle' = [handle EXCEPT ![s] = Invalid]
  /\ UNCHANGED <<place, connected, left, kernel, history>>

Create(s, d) ==
  /\ MayOpen(s)
  /\ link[d] = "free"
  /\ handle' = [handle EXCEPT ![s] = d]
  /\ owner' = [owner EXCEPT ![d] = s]
  /\ link' = [link EXCEPT ![d] = "fresh"]
  /\ blamed' = blamed \ {d}
  /\ place' = [place EXCEPT ![s] = "setTimeout"]
  /\ UNCHANGED <<connected, left, blocking, bounded, strayed>>

(* Variant: the timeouts are remembered but not given to the socket.         *)
SetNoTimeout(s) ==
  /\ place[s] = "setTimeout"
  /\ IsValid(s)
  /\ place' = [place EXCEPT ![s] = "connect"]
  /\ UNCHANGED <<handle, connected, left, kernel, history>>

SetTimeout(s) ==
  /\ place[s] = "setTimeout"
  /\ IsValid(s)
  /\ bounded' = [bounded EXCEPT ![handle[s]] = TRUE]
  /\ place' = [place EXCEPT ![s] = "connect"]
  /\ UNCHANGED <<handle, connected, left, owner, link, blocking, history>>

(* open() returns with the descriptor still in m_handle.                     *)
SetTimeoutFails(s) ==
  /\ place[s] = "setTimeout"
  /\ blamed' = blamed \cup {handle[s]}
  /\ place' = [place EXCEPT ![s] = "idle"]
  /\ UNCHANGED <<handle, connected, left, kernel, strayed>>

(* connect() of an object whose m_is_connected is set.                       *)
AlreadyConnected(s) ==
  /\ place[s] = "connect"
  /\ IsConnected(s)
  /\ place' = [place EXCEPT ![s] = "idle"]
  /\ UNCHANGED <<handle, connected, left, kernel, history>>

(* set_blocking(false): both callers of connect() have set a timeout.        *)
SetNonBlocking(s) ==
  /\ place[s] = "connect"
  /\ ~IsConnected(s)
  /\ IsValid(s)
  /\ blocking' = [blocking EXCEPT ![handle[s]] = FALSE]
  /\ place' = [place EXCEPT ![s] = "start"]
  /\ UNCHANGED <<handle, connected, left, owner, link, bounded, history>>

SetNonBlockingFails(s) ==
  /\ place[s] = "connect"
  /\ ~IsConnected(s)
  /\ GiveUp(s)

(* ::connect() returns at once, in success or with an error ...              *)
ConnectAtOnce(s) ==
  /\ place[s] = "start"
  /\ link[handle[s]] = "fresh"
  /\ link' = [link EXCEPT ![handle[s]] = "established"]
  /\ place' = [place EXCEPT ![s] = "restore"]
  /\ UNCHANGED <<handle, connected, left, owner, blocking, bounded, history>>

ConnectFails(s) ==
  /\ place[s] = "start"
  /\ blocking[handle[s]] => link[handle[s]] # "connecting"
  /\ GiveUp(s)

(* ... or with EINPROGRESS, which only a non-blocking socket reports: a      *)
(* blocking one stays in the call for as long as the host is silent.         *)
ConnectInProgress(s) ==
  /\ place[s] = "start"
  /\ link[handle[s]] = "fresh"
  /\ link' = [link EXCEPT ![handle[s]] = "connecting"]
  /\ place' = IF blocking[handle[s]] THEN place
              ELSE [place EXCEPT ![s] = "select"]
  /\ UNCHANGED <<handle, connected, left, owner, blocking, bounded, history>>

(* select() sees the socket writable; SO_ERROR says how it ended.            *)
SelectReady(s) ==
  /\ place[s] = "select"
  /\ link[handle[s]] \in {"established", "hungUp"}
  /\ place' = [place EXCEPT ![s] = "restore"]
  /\ UNCHANGED <<handle, connected, left, kernel, history>>

SelectRefused(s) ==
  /\ place[s] = "select"
  /\ link[handle[s]] = "refused"
  /\ GiveUp(s)

SelectTimesOut(s) ==
  /\ place[s] = "select"
  /\ GiveUp(s)

(* Variant: the mode is not restored.                                        *)
RestoreNothing(s) ==
  /\ place[s] = "restore"
  /\ place' = [place EXCEPT ![s] = "readHostname"]
  /\ UNCHANGED <<handle, connected, left, kernel, history>>

RestoreBlocking(s) ==
  /\ place[s] = "restore"
  /\ IsValid(s)
  /\ blocking' = [blocking EXCEPT ![handle[s]] = TRUE]
  /\ place' = [place EXCEPT ![s] = "readHostname"]
  /\ UNCHANGED <<handle, connected, left, owner, link, bounded, history>>

RestoreBlockingFails(s) ==
  /\ place[s] = "restore"
  /\ GiveUp(s)

(* read_out_hostname(): getpeername() needs the connection; that             *)
(* getnameinfo() finds no name is not an error.                              *)
ReadHostname(s) ==
  /\ place[s] = "readHostname"
  /\ link[handle[s]] \in {"established", "hungUp"}
  /\ place' = [place EXCEPT ![s] = "readMacAddress"]
  /\ UNCHANGED <<handle, connected, left, kernel, history>>

ReadHostnameFails(s) ==
  /\ place[s] = "readHostname"
  /\ GiveUp(s)

(* read_out_mac_address() asks the system for the address it has resolved,   *)
(* which may be gone by then.                                                *)
ReadMacAddress(s) ==
  /\ place[s] = "readMacAddress"
  /\ connected' = [connected EXCEPT ![s] = TRUE]
  /\ place' = [place EXCEPT ![s] = "idle"]
  /\ UNCHANGED <<handle, left, kernel, history>>

ReadMacAddressFails(s) ==
  /\ place[s] = "readMacAddress"
  /\ GiveUp(s)

-----------------------------------------------------------------------------
(* read() and write(): both return at once, without effect, on a device      *)
(* that is not connected, a null pointer or a size of zero.                  *)

TransferCalled(s, call, size) ==
  /\ place[s] = "idle"
  /\ IsConnected(s)
  /\ place' = [place EXCEPT ![s] = call]
  /\ left' = [left EXCEPT ![s] = size]
  /\ UNCHANGED <<handle, connected, kernel, history>>

ReadCalled(s)  == \E n \in 1..MaxBytes : TransferCalled(s, "read", n)
WriteCalled(s) == \E n \in 1..MaxBytes : TransferCalled(s, "write", n)

(* recv() or send() moves some bytes; the call ends with the last one.       *)
MovePart(s) ==
  /\ IsValid(s)
  /\ \E n \in 1..left[s] : left' = [left EXCEPT ![s] = @ - n]
  /\ place' = IF left'[s] = 0 THEN [place EXCEPT ![s] = "idle"] ELSE place
  /\ UNCHANGED <<handle, connected, kernel, history>>

(* What a host sent before it hung up can still be received.                 *)
Recv(s) ==
  /\ place[s] = "read"
  /\ link[handle[s]] \in {"established", "hungUp"}
  /\ MovePart(s)

Send(s) ==
  /\ place[s] = "write"
  /\ link[handle[s]] \in {"established", "hungUp"}
  /\ MovePart(s)

(* A call on a descriptor that is blocking and has no timeout lasts for as   *)
(* long as the host neither sends, nor receives, nor hangs up.               *)
MayStall(s) ==
  link[handle[s]] = "established" /\ blocking[handle[s]] /\ ~bounded[handle[s]]

(* An error, the timeout or the end of the stream: what was moved is lost.   *)
TransferFails(s) ==
  /\ place[s] \in {"read", "write"}
  /\ ~MayStall(s)
  /\ place' = [place EXCEPT ![s] = "idle"]
  /\ left' = [left EXCEPT ![s] = 0]
  /\ UNCHANGED <<handle, connected, kernel, history>>

(* send() after the host closed the connection raises SIGPIPE, which no      *)
(* code handles: the process ends.                                           *)
SendKills(s) ==
  /\ place[s] = "write"
  /\ link[handle[s]] = "hungUp"
  /\ place' = [place EXCEPT ![s] = "killed"]
  /\ UNCHANGED <<handle, connected, left, kernel, history>>

-----------------------------------------------------------------------------
(* close() has no effect on a device that is not connected.                  *)
Close(s) ==
  /\ place[s] = "idle"
  /\ IsConnected(s)
  /\ CloseSocket(s)
  /\ UNCHANGED place

CloseIfConnected(s) ==
  IF IsConnected(s)
    THEN CloseSocket(s)
    ELSE UNCHANGED <<handle, connected, left, kernel, history>>

(* ~communication_ethernet() closes; ~ethernet_socket() closes again what    *)
(* is still connected.                                                       *)
Destroy(s) ==
  /\ place[s] = "idle"
  /\ place' = [place EXCEPT ![s] = "destructor"]
  /\ CloseIfConnected(s)

DestroySocket(s) ==
  /\ place[s] = "destructor"
  /\ place' = [place EXCEPT ![s] = "destroyed"]
  /\ CloseIfConnected(s)

(* A new object takes the place of a destroyed one.                          *)
Construct(s) ==
  /\ place[s] = "destroyed"
  /\ place' = [place EXCEPT ![s] = "idle"]
  /\ handle' = [handle EXCEPT ![s] = Invalid]
  /\ connected' = [connected EXCEPT ![s] = FALSE]
  /\ UNCHANGED <<left, kernel, history>>

-----------------------------------------------------------------------------
(* The network: a host answers a connection, refuses it, or drops it.        *)
HostActs(d) ==
  /\ \E l \in Links :
       /\ <<link[d], l>> \in {<<"connecting", "established">>,
                             <<"connecting", "refused">>,
                             <<"established", "hungUp">>}
       /\ link' = [link EXCEPT ![d] = l]
  /\ UNCHANGED <<objects, owner, blocking, bounded, history>>

-----------------------------------------------------------------------------
(* SIGPIPE ends all threads.                                                 *)
Running == \A s \in Sockets : place[s] # "killed"

(* The steps of open(), read() and write() that need no host: a system       *)
(* call returns, fails or runs into its timeout.  Not among them are an      *)
(* accepted connection, Recv and Send, which are the host's to allow.        *)
CallStep(s) ==
  \/ SetTimeout(s) \/ SetTimeoutFails(s)
  \/ AlreadyConnected(s)
  \/ SetNonBlocking(s) \/ SetNonBlockingFails(s)
  \/ ConnectFails(s) \/ ConnectInProgress(s)
  \/ SelectReady(s) \/ SelectRefused(s) \/ SelectTimesOut(s)
  \/ RestoreBlocking(s) \/ RestoreBlockingFails(s)
  \/ ReadHostname(s) \/ ReadHostnameFails(s)
  \/ ReadMacAddress(s) \/ ReadMacAddressFails(s)
  \/ TransferFails(s) \/ SendKills(s)

SocketNext ==
  \/ /\ Running
     /\ \/ \E s \in Sockets :
             \/ NotCreated(s)
             \/ \E d \in Descriptors : Create(s, d)
             \/ SetTimeout(s)
             \/ SetTimeoutFails(s)
             \/ AlreadyConnected(s)
             \/ SetNonBlocking(s)
             \/ SetNonBlockingFails(s)
             \/ ConnectAtOnce(s)
             \/ ConnectFails(s)
             \/ ConnectInProgress(s)
             \/ SelectReady(s)
             \/ SelectRefused(s)
             \/ SelectTimesOut(s)
             \/ RestoreBlocking(s)
             \/ RestoreBlockingFails(s)
             \/ ReadHostname(s)
             \/ ReadHostnameFails(s)
             \/ ReadMacAddress(s)
             \/ ReadMacAddressFails(s)
             \/ ReadCalled(s)
             \/ WriteCalled(s)
             \/ Recv(s)
             \/ Send(s)
             \/ TransferFails(s)
             \/ SendKills(s)
             \/ Close(s)
             \/ Destroy(s)
             \/ DestroySocket(s)
             \/ Construct(s)
        \/ \E d \in Descriptors : HostActs(d)
  \/ ~Running /\ UNCHANGED socketVars

(* System calls that can return on their own do so.  Nothing is assumed of   *)
(* hosts: one that is silent for ever is among the behaviours.               *)
SocketFairness == \A s \in Sockets : WF_socketVars(Running /\ CallStep(s))

SocketSafetySpec == SocketInit /\ [][SocketNext]_socketVars
SocketSpec == SocketSafetySpec /\ SocketFairness

-----------------------------------------------------------------------------
(* Type invariant of the objects and of the descriptors.                     *)
SocketTypeOK ==
  /\ place \in [Sockets -> Calls \cup {"idle", "destroyed", "killed"}]
  /\ handle \in [Sockets -> Descriptors \cup {Invalid}]
  /\ connected \in [Sockets -> BOOLEAN]
  /\ left \in [Sockets -> 0..MaxBytes]
  /\ owner \in [Descriptors -> Sockets \cup {Invalid}]
  /\ link \in [Descriptors -> Links]
  /\ blocking \in [Descriptors -> BOOLEAN]
  /\ bounded \in [Descriptors -> BOOLEAN]
  /\ blamed \subseteq Descriptors
  /\ strayed \in BOOLEAN

(* is_open() tells the truth of an object that is opened when it is          *)
(* closed, however system calls fail and whatever other objects do: the      *)
(* descriptor is its own, the host accepted the connection, and read() and   *)
(* write() will block for the timeout only.  The exception is a close()      *)
(* that frees and fails: its object may then close another's descriptor.     *)
Ready(s) ==
  /\ handle[s] # Invalid
  /\ owner[handle[s]] = s
  /\ link[handle[s]] \in {"established", "hungUp"}
  /\ blocking[handle[s]]
  /\ bounded[handle[s]]
IsOpenIsTrue ==
  ~strayed => \A s \in Sockets \ Reopened : IsConnected(s) => Ready(s)

(* An object never holds, and so never closes, the descriptor of another.    *)
DescriptorHasOneObject ==
  ~strayed => \A s, t \in Sockets :
    handle[s] # Invalid /\ handle[s] = handle[t]
      /\ place[s] # "destroyed" /\ place[t] # "destroyed" => s = t

(* The process loses a descriptor, so that no object refers to it any        *)
(* more, only when setsockopt() or close() failed on it or its object was    *)
(* opened again: every other failing path of open() closes what it opened.   *)
OnlyFailedCallsLeak ==
  \A d \in Descriptors :
    link[d] # "free" /\ d \notin blamed /\ owner[d] \notin Reopened =>
      \E s \in Sockets : handle[s] = d /\ place[s] # "destroyed"

(* The comment on open(): it says true only when the device was opened,      *)
(* so that it can be used.                                                   *)
Opens(s) == place[s] \in {"connect", "readMacAddress"} /\ place'[s] = "idle"
OpenedMeansConnected ==
  [][\A s \in Sockets : Opens(s) /\ IsConnected(s)' => Ready(s)']_socketVars

(* open(), read() and write() return although no host ever answers: the      *)
(* connect is non-blocking, select() is bounded by the timeout, and the      *)
(* socket that is_open() stands for is blocking again and has a timeout.     *)
(* (After a stray close an object may be left with the socket of another.)   *)
CallsReturn ==
  \A s \in Sockets :
    place[s] \in Opening \cup {"read", "write"} ~>
      place[s] = "idle" \/ strayed \/ ~Running
-----------------------------------------------------------------------------
(* The inductive invariant of the proofs.  While no close() has gone         *)
(* astray, what an object holds is its own, and nobody else changes what     *)
(* the kernel knows of it.                                                   *)

OwnInv ==
  ~strayed => \A s \in Sockets :
    handle[s] # Invalid => owner[handle[s]] = s /\ link[handle[s]] # "free"

HandleInv ==
  \A s \in Sockets :
    /\ place[s] \in Opening => handle[s] # Invalid
    /\ s \notin Reopened /\ place[s] \in Opening => ~connected[s]
    /\ s \notin Reopened /\ connected[s] => handle[s] # Invalid

(* How far open() has come with the descriptor.                              *)
StageInv ==
  ~strayed => \A s \in Sockets \ Reopened :
    LET d == handle[s]
    IN  /\ place[s] \in Opening \ {"setTimeout"} \/ connected[s] => bounded[d]
        /\ place[s] \in {"restore", "readHostname", "readMacAddress"}
              \/ connected[s] => link[d] \in {"established", "hungUp"}
        /\ place[s] \in {"readHostname", "readMacAddress"} \/ connected[s] =>
             blocking[d]

(* A descriptor that nobody has to answer for is in use by its object.       *)
LeakInv ==
  \A d \in Descriptors :
    link[d] # "free" =>
      /\ owner[d] # Invalid
      /\ d \notin blamed /\ owner[d] \notin Reopened =>
           /\ handle[owner[d]] = d
           /\ place[owner[d]] # "destroyed"
           /\ place[owner[d]] \in Opening \/ connected[owner[d]]

SocketInv == SocketTypeOK /\ OwnInv /\ HandleInv /\ StageInv /\ LeakInv
=============================================================================
