------------------------ MODULE EthernetSocketProofs ------------------------
(**************************************************************************  *)
(* Proofs about EthernetSocket, for any objects, descriptors and sizes of    *)
(* transfers: whatever system calls fail and however the objects'            *)
(* operations interleave, the descriptors and what the objects believe of    *)
(* them stay in step.                                                        *)
(*                                                                           *)
(* The inductive invariant is SocketInv.  The properties say something of    *)
(* descriptors at rest only; they are kept because at every stage of         *)
(* open() the descriptor is the object's own and has passed the system       *)
(* calls before that stage, which no step of another object undoes.          *)
(**************************************************************************  *)
EXTENDS EthernetSocket, TLAPS

(* The type invariant, but for place.                                        *)
RestOK ==
  /\ handle \in [Sockets -> Descriptors \cup {Invalid}]
  /\ connected \in [Sockets -> BOOLEAN]
  /\ left \in [Sockets -> 0..MaxBytes]
  /\ owner \in [Descriptors -> Sockets \cup {Invalid}]
  /\ link \in [Descriptors -> Links]
  /\ blocking \in [Descriptors -> BOOLEAN]
  /\ bounded \in [Descriptors -> BOOLEAN]
  /\ blamed \subseteq Descriptors
  /\ strayed \in BOOLEAN

(* close_socket() with a handle keeps the types, whether it succeeds,        *)
(* fails, or fails and frees the descriptor.                                 *)
LEMMA CloseTypes ==
  ASSUME SocketTypeOK, NEW s \in Sockets, handle[s] # Invalid, CloseSocket(s)
  PROVE  RestOK'
  <1>1. handle[s] \in Descriptors
    BY DEF SocketTypeOK
  <1>2. CASE CloseSucceeds(s)
    BY <1>1, <1>2 DEF SocketTypeOK, RestOK, CloseSucceeds, Release, Links
  <1>3. CASE CloseFails(s) /\ UNCHANGED <<kernel, strayed>>
    BY <1>1, <1>3 DEF SocketTypeOK, RestOK, CloseFails, kernel
  <1>4. CASE CloseFails(s) /\ Release(handle[s]) /\ strayed' = TRUE
    BY <1>1, <1>4 DEF SocketTypeOK, RestOK, CloseFails, Release, Links
  <1>. QED BY <1>2, <1>3, <1>4 DEF CloseSocket, CloseFails

(* So does open() when it gives up.                                          *)
LEMMA GiveUpTypes ==
  ASSUME SocketTypeOK, NEW s \in Sockets, handle[s] # Invalid, GiveUp(s)
  PROVE  SocketTypeOK'
  <1>1. RestOK'
    BY CloseTypes DEF GiveUp
  <1>2. place' \in [Sockets -> Calls \cup {"idle", "destroyed", "killed"}]
    BY DEF SocketTypeOK, GiveUp
  <1>. QED BY <1>1, <1>2 DEF SocketTypeOK, RestOK

(* Every step leaves an object in open() with a handle, and does not mark    *)
(* it connected before the end.                                              *)
LEMMA HandleStep ==
  ASSUME SocketTypeOK, HandleInv, [SocketNext]_socketVars
  PROVE  HandleInv'
  <1> USE InvalidAssumption DEF SocketTypeOK, HandleInv, Opening, IsConnected,
      objects, kernel, history
  <1>1. ASSUME NEW s \in Sockets,
                \/ SetTimeoutFails(s) \/ AlreadyConnected(s)
                \/ SelectReady(s) \/ ReadHostname(s) \/ ReadCalled(s)
                \/ WriteCalled(s) \/ Recv(s) \/ Send(s)
                \/ TransferFails(s) \/ SendKills(s)
       PROVE  HandleInv'
    BY <1>1 DEF SetTimeoutFails, AlreadyConnected, SelectReady,
      ReadHostname, ReadCalled, WriteCalled, Recv, Send, TransferFails,
      SendKills, TransferCalled, MovePart
  <1>2. ASSUME NEW s \in Sockets,
                \/ SetTimeout(s) \/ SetNonBlocking(s)
                \/ RestoreBlocking(s)
       PROVE  HandleInv'
    BY <1>2 DEF SetTimeout, SetNonBlocking, RestoreBlocking
  <1>3. ASSUME NEW s \in Sockets,
                \/ ConnectAtOnce(s) \/ ConnectInProgress(s)
       PROVE  HandleInv'
    BY <1>3 DEF ConnectAtOnce, ConnectInProgress
  <1>4. ASSUME NEW s \in Sockets,
                \/ SetNonBlockingFails(s) \/ ConnectFails(s)
                \/ SelectRefused(s) \/ SelectTimesOut(s)
                \/ RestoreBlockingFails(s) \/ ReadHostnameFails(s)
                \/ ReadMacAddressFails(s)
       PROVE  HandleInv'
    BY <1>4 DEF SetNonBlockingFails, ConnectFails, SelectRefused,
      SelectTimesOut, RestoreBlockingFails, ReadHostnameFails,
      ReadMacAddressFails, GiveUp, CloseSocket, CloseSucceeds, CloseFails,
      Release
  <1>5. ASSUME NEW s \in Sockets, ReadMacAddress(s) PROVE HandleInv'
    BY <1>5 DEF ReadMacAddress
  <1>6. ASSUME NEW s \in Sockets,
                \/ NotCreated(s) \/ Construct(s)
       PROVE  HandleInv'
    BY <1>6 DEF NotCreated, Construct, MayOpen
  <1>7. ASSUME NEW s \in Sockets,
                \/ Close(s) \/ Destroy(s) \/ DestroySocket(s)
       PROVE  HandleInv'
    BY <1>7 DEF Close, Destroy, DestroySocket, CloseIfConnected,
      CloseSocket, CloseSucceeds, CloseFails, Release
  <1>8. ASSUME NEW s \in Sockets, NEW d \in Descriptors, Create(s, d)
       PROVE  HandleInv'
    BY <1>8 DEF Create, MayOpen
  <1>9. ASSUME NEW d \in Descriptors, HostActs(d) PROVE HandleInv'
    BY <1>9 DEF HostActs
  <1>10. ASSUME UNCHANGED socketVars PROVE HandleInv'
    BY <1>10 DEF socketVars
  <1>. QED BY <1>1, <1>2, <1>3, <1>4, <1>5, <1>6, <1>7, <1>8, <1>9,
      <1>10 DEF SocketNext

(* Every step keeps the types.                                               *)
LEMMA TypeStep ==
  ASSUME SocketTypeOK, HandleInv, [SocketNext]_socketVars
  PROVE  SocketTypeOK'
  <1> USE InvalidAssumption DEF SocketTypeOK, HandleInv, Calls, Opening, Links,
      IsConnected, objects, kernel, history
  <1>0. \A s \in Sockets : place[s] \in Opening => handle[s] \in Descriptors
    BY DEF SocketTypeOK, HandleInv
  <1>1. ASSUME NEW s \in Sockets,
                \/ SetTimeoutFails(s) \/ AlreadyConnected(s)
                \/ SelectReady(s) \/ ReadHostname(s)
                \/ TransferFails(s) \/ SendKills(s)
       PROVE  SocketTypeOK'
    BY <1>0, <1>1, BytesAssumption DEF SetTimeoutFails, AlreadyConnected,
      SelectReady, ReadHostname, TransferFails, SendKills
  <1>11. ASSUME NEW s \in Sockets,
                \/ ReadCalled(s) \/ WriteCalled(s) \/ Recv(s) \/ Send(s)
       PROVE  SocketTypeOK'
    <2>1. left' \in [Sockets -> 0..MaxBytes]
      <3>1. PICK n \in 0..MaxBytes : left' = [left EXCEPT ![s] = n]
        <4>1. CASE ReadCalled(s) \/ WriteCalled(s)
          BY <4>1, BytesAssumption DEF ReadCalled, WriteCalled, TransferCalled
        <4>2. CASE Recv(s) \/ Send(s)
          <5>1. left[s] \in 0..MaxBytes
            OBVIOUS
          <5>2. PICK n \in 1..left[s] : left' = [left EXCEPT ![s] = @ - n]
            BY <4>2 DEF Recv, Send, MovePart
          <5>3. left[s] - n \in 0..MaxBytes
            BY <5>1, BytesAssumption
          <5>. QED BY <5>2, <5>3
        <4>. QED BY <1>11, <4>1, <4>2
      <3>. QED BY <3>1
    <2>. QED BY <1>11, <2>1 DEF ReadCalled, WriteCalled, TransferCalled,
           Recv, Send, MovePart
  <1>2. ASSUME NEW s \in Sockets,
                \/ SetTimeout(s) \/ SetNonBlocking(s)
                \/ RestoreBlocking(s)
       PROVE  SocketTypeOK'
    BY <1>2 DEF SetTimeout, SetNonBlocking, RestoreBlocking
  <1>3. ASSUME NEW s \in Sockets,
                \/ ConnectAtOnce(s) \/ ConnectInProgress(s)
       PROVE  SocketTypeOK'
    BY <1>3 DEF ConnectAtOnce, ConnectInProgress
  <1>4. ASSUME NEW s \in Sockets,
                \/ SetNonBlockingFails(s) \/ ConnectFails(s)
                \/ SelectRefused(s) \/ SelectTimesOut(s)
                \/ RestoreBlockingFails(s) \/ ReadHostnameFails(s)
                \/ ReadMacAddressFails(s)
       PROVE  SocketTypeOK'
    <2>1. handle[s] # Invalid /\ GiveUp(s)
      BY <1>0, <1>4 DEF SetNonBlockingFails, ConnectFails, SelectRefused,
        SelectTimesOut, RestoreBlockingFails, ReadHostnameFails,
        ReadMacAddressFails
    <2>. QED BY <2>1, GiveUpTypes
  <1>5. ASSUME NEW s \in Sockets, ReadMacAddress(s) PROVE SocketTypeOK'
    BY <1>5 DEF ReadMacAddress
  <1>6. ASSUME NEW s \in Sockets,
                \/ NotCreated(s) \/ Construct(s)
       PROVE  SocketTypeOK'
    BY <1>6 DEF NotCreated, Construct, MayOpen
  <1>7. ASSUME NEW s \in Sockets,
                \/ Close(s) \/ Destroy(s) \/ DestroySocket(s)
       PROVE  SocketTypeOK'
    <2>1. place' \in [Sockets -> Calls \cup {"idle", "destroyed", "killed"}]
      BY <1>7 DEF Close, Destroy, DestroySocket
    <2>2. CASE handle[s] # Invalid /\ CloseSocket(s)
      BY <2>1, <2>2, CloseTypes DEF RestOK
    <2>3. CASE UNCHANGED <<handle, connected, left, kernel, history>>
      BY <2>1, <2>3
    <2>. QED BY <1>7, <2>2, <2>3 DEF Close, Destroy, DestroySocket,
           CloseIfConnected
  <1>8. ASSUME NEW s \in Sockets, NEW d \in Descriptors, Create(s, d)
       PROVE  SocketTypeOK'
    BY <1>8 DEF Create, MayOpen
  <1>9. ASSUME NEW d \in Descriptors, HostActs(d) PROVE SocketTypeOK'
    BY <1>9 DEF HostActs
  <1>10. ASSUME UNCHANGED socketVars PROVE SocketTypeOK'
    BY <1>10 DEF socketVars
  <1>. QED BY <1>1, <1>2, <1>3, <1>4, <1>5, <1>6, <1>7, <1>8, <1>9,
      <1>10, <1>11 DEF SocketNext

(* Every step keeps what an object holds its own.                            *)
LEMMA OwnStep ==
  ASSUME SocketTypeOK, HandleInv, OwnInv, [SocketNext]_socketVars
  PROVE  OwnInv'
  <1> USE InvalidAssumption DEF SocketTypeOK, HandleInv, OwnInv, Opening,
      IsConnected, IsValid, objects, kernel, history
  <1>1. ASSUME NEW s \in Sockets,
                \/ SetTimeoutFails(s) \/ AlreadyConnected(s)
                \/ SelectReady(s) \/ ReadHostname(s) \/ ReadCalled(s)
                \/ WriteCalled(s) \/ Recv(s) \/ Send(s)
                \/ TransferFails(s) \/ SendKills(s)
       PROVE  OwnInv'
    BY <1>1 DEF SetTimeoutFails, AlreadyConnected, SelectReady,
      ReadHostname, ReadCalled, WriteCalled, Recv, Send, TransferFails,
      SendKills, TransferCalled, MovePart
  <1>2. ASSUME NEW s \in Sockets,
                \/ SetTimeout(s) \/ SetNonBlocking(s)
                \/ RestoreBlocking(s)
       PROVE  OwnInv'
    BY <1>2 DEF SetTimeout, SetNonBlocking, RestoreBlocking
  <1>3. ASSUME NEW s \in Sockets,
                \/ ConnectAtOnce(s) \/ ConnectInProgress(s)
       PROVE  OwnInv'
    BY <1>3 DEF ConnectAtOnce, ConnectInProgress
  <1>4. ASSUME NEW s \in Sockets,
                \/ SetNonBlockingFails(s) \/ ConnectFails(s)
                \/ SelectRefused(s) \/ SelectTimesOut(s)
                \/ RestoreBlockingFails(s) \/ ReadHostnameFails(s)
                \/ ReadMacAddressFails(s)
       PROVE  OwnInv'
    BY <1>4 DEF SetNonBlockingFails, ConnectFails, SelectRefused,
      SelectTimesOut, RestoreBlockingFails, ReadHostnameFails,
      ReadMacAddressFails, GiveUp, CloseSocket, CloseSucceeds, CloseFails,
      Release
  <1>5. ASSUME NEW s \in Sockets, ReadMacAddress(s) PROVE OwnInv'
    BY <1>5 DEF ReadMacAddress
  <1>6. ASSUME NEW s \in Sockets,
                \/ NotCreated(s) \/ Construct(s)
       PROVE  OwnInv'
    BY <1>6 DEF NotCreated, Construct, MayOpen
  <1>7. ASSUME NEW s \in Sockets,
                \/ Close(s) \/ Destroy(s) \/ DestroySocket(s)
       PROVE  OwnInv'
    BY <1>7 DEF Close, Destroy, DestroySocket, CloseIfConnected,
      CloseSocket, CloseSucceeds, CloseFails, Release
  <1>8. ASSUME NEW s \in Sockets, NEW d \in Descriptors, Create(s, d)
       PROVE  OwnInv'
    BY <1>8 DEF Create, MayOpen
  <1>9. ASSUME NEW d \in Descriptors, HostActs(d) PROVE OwnInv'
    BY <1>9 DEF HostActs
  <1>10. ASSUME UNCHANGED socketVars PROVE OwnInv'
    BY <1>10 DEF socketVars
  <1>. QED BY <1>1, <1>2, <1>3, <1>4, <1>5, <1>6, <1>7, <1>8, <1>9,
      <1>10 DEF SocketNext

(* Every step of open() leaves what the next one builds on, and no step of   *)
(* another object disturbs it.                                               *)
LEMMA StageStep ==
  ASSUME SocketTypeOK, HandleInv, OwnInv, StageInv, [SocketNext]_socketVars
  PROVE  StageInv'
  <1> USE InvalidAssumption DEF SocketTypeOK, HandleInv, OwnInv, StageInv,
      Opening, Links, IsConnected, objects, kernel, history
  <1>1. ASSUME NEW s \in Sockets,
                \/ SetTimeoutFails(s) \/ AlreadyConnected(s)
                \/ SelectReady(s) \/ ReadHostname(s) \/ ReadCalled(s)
                \/ WriteCalled(s) \/ Recv(s) \/ Send(s)
                \/ TransferFails(s) \/ SendKills(s)
       PROVE  StageInv'
    BY <1>1 DEF SetTimeoutFails, AlreadyConnected, SelectReady,
      ReadHostname, ReadCalled, WriteCalled, Recv, Send, TransferFails,
      SendKills, TransferCalled, MovePart
  <1>2. ASSUME NEW s \in Sockets,
                \/ SetTimeout(s) \/ SetNonBlocking(s)
                \/ RestoreBlocking(s)
       PROVE  StageInv'
    BY <1>2 DEF SetTimeout, SetNonBlocking, RestoreBlocking
  <1>3. ASSUME NEW s \in Sockets,
                \/ ConnectAtOnce(s) \/ ConnectInProgress(s)
       PROVE  StageInv'
    BY <1>3 DEF ConnectAtOnce, ConnectInProgress
  <1>4. ASSUME NEW s \in Sockets,
                \/ SetNonBlockingFails(s) \/ ConnectFails(s)
                \/ SelectRefused(s) \/ SelectTimesOut(s)
                \/ RestoreBlockingFails(s) \/ ReadHostnameFails(s)
                \/ ReadMacAddressFails(s)
       PROVE  StageInv'
    BY <1>4 DEF SetNonBlockingFails, ConnectFails, SelectRefused,
      SelectTimesOut, RestoreBlockingFails, ReadHostnameFails,
      ReadMacAddressFails, GiveUp, CloseSocket, CloseSucceeds, CloseFails,
      Release
  <1>5. ASSUME NEW s \in Sockets, ReadMacAddress(s) PROVE StageInv'
    BY <1>5 DEF ReadMacAddress
  <1>6. ASSUME NEW s \in Sockets,
                \/ NotCreated(s) \/ Construct(s)
       PROVE  StageInv'
    BY <1>6 DEF NotCreated, Construct, MayOpen
  <1>7. ASSUME NEW s \in Sockets,
                \/ Close(s) \/ Destroy(s) \/ DestroySocket(s)
       PROVE  StageInv'
    BY <1>7 DEF Close, Destroy, DestroySocket, CloseIfConnected,
      CloseSocket, CloseSucceeds, CloseFails, Release
  <1>8. ASSUME NEW s \in Sockets, NEW d \in Descriptors, Create(s, d)
       PROVE  StageInv'
    BY <1>8 DEF Create, MayOpen
  <1>9. ASSUME NEW d \in Descriptors, HostActs(d) PROVE StageInv'
    BY <1>9 DEF HostActs
  <1>10. ASSUME UNCHANGED socketVars PROVE StageInv'
    BY <1>10 DEF socketVars
  <1>. QED BY <1>1, <1>2, <1>3, <1>4, <1>5, <1>6, <1>7, <1>8, <1>9,
      <1>10 DEF SocketNext

(* Every step that drops a descriptor closes it or is to blame.              *)
LEMMA LeakStep ==
  ASSUME SocketTypeOK, HandleInv, LeakInv, [SocketNext]_socketVars
  PROVE  LeakInv'
  <1> USE InvalidAssumption DEF SocketTypeOK, HandleInv, LeakInv, Opening,
      IsConnected, IsValid, objects, kernel, history
  <1>1. ASSUME NEW s \in Sockets,
                \/ SetTimeoutFails(s) \/ AlreadyConnected(s)
                \/ SelectReady(s) \/ ReadHostname(s) \/ ReadCalled(s)
                \/ WriteCalled(s) \/ Recv(s) \/ Send(s)
                \/ TransferFails(s) \/ SendKills(s)
       PROVE  LeakInv'
    BY <1>1 DEF SetTimeoutFails, AlreadyConnected, SelectReady,
      ReadHostname, ReadCalled, WriteCalled, Recv, Send, TransferFails,
      SendKills, TransferCalled, MovePart
  <1>2. ASSUME NEW s \in Sockets,
                \/ SetTimeout(s) \/ SetNonBlocking(s)
                \/ RestoreBlocking(s)
       PROVE  LeakInv'
    BY <1>2 DEF SetTimeout, SetNonBlocking, RestoreBlocking
  <1>3. ASSUME NEW s \in Sockets,
                \/ ConnectAtOnce(s) \/ ConnectInProgress(s)
       PROVE  LeakInv'
    BY <1>3 DEF ConnectAtOnce, ConnectInProgress
  <1>4. ASSUME NEW s \in Sockets,
                \/ SetNonBlockingFails(s) \/ ConnectFails(s)
                \/ SelectRefused(s) \/ SelectTimesOut(s)
                \/ RestoreBlockingFails(s) \/ ReadHostnameFails(s)
                \/ ReadMacAddressFails(s)
       PROVE  LeakInv'
    BY <1>4 DEF SetNonBlockingFails, ConnectFails, SelectRefused,
      SelectTimesOut, RestoreBlockingFails, ReadHostnameFails,
      ReadMacAddressFails, GiveUp, CloseSocket, CloseSucceeds, CloseFails,
      Release
  <1>5. ASSUME NEW s \in Sockets, ReadMacAddress(s) PROVE LeakInv'
    BY <1>5 DEF ReadMacAddress
  <1>6. ASSUME NEW s \in Sockets,
                \/ NotCreated(s) \/ Construct(s)
       PROVE  LeakInv'
    BY <1>6 DEF NotCreated, Construct, MayOpen
  <1>7. ASSUME NEW s \in Sockets,
                \/ Close(s) \/ Destroy(s) \/ DestroySocket(s)
       PROVE  LeakInv'
    BY <1>7 DEF Close, Destroy, DestroySocket, CloseIfConnected,
      CloseSocket, CloseSucceeds, CloseFails, Release
  <1>8. ASSUME NEW s \in Sockets, NEW d \in Descriptors, Create(s, d)
       PROVE  LeakInv'
    BY <1>8 DEF Create, MayOpen
  <1>9. ASSUME NEW d \in Descriptors, HostActs(d) PROVE LeakInv'
    BY <1>9 DEF HostActs
  <1>10. ASSUME UNCHANGED socketVars PROVE LeakInv'
    BY <1>10 DEF socketVars
  <1>. QED BY <1>1, <1>2, <1>3, <1>4, <1>5, <1>6, <1>7, <1>8, <1>9,
      <1>10 DEF SocketNext

THEOREM Invariance == SocketSafetySpec => []SocketInv
  <1>1. SocketInit => SocketInv
    <2> SUFFICES ASSUME SocketInit PROVE SocketInv
      OBVIOUS
    <2>1. SocketTypeOK
      <3>1. 0 \in 0..MaxBytes
        BY BytesAssumption
      <3>. QED BY <3>1 DEF SocketInit, SocketTypeOK, Links
    <2>2. OwnInv /\ HandleInv /\ StageInv /\ LeakInv
      BY DEF SocketInit, OwnInv, HandleInv, StageInv, LeakInv, Opening
    <2>. QED BY <2>1, <2>2 DEF SocketInv
  <1>2. SocketInv /\ [SocketNext]_socketVars => SocketInv'
    BY HandleStep, TypeStep, OwnStep, StageStep, LeakStep DEF SocketInv
  <1>. QED BY <1>1, <1>2, PTL DEF SocketSafetySpec

(* The types of objects and descriptors hold in every reachable state.       *)
THEOREM TypeCorrect == SocketSafetySpec => []SocketTypeOK
  BY Invariance, PTL DEF SocketInv

(* is_open() is true only of an object whose own descriptor is connected,    *)
(* blocking and has a timeout, unless it was opened while open or a          *)
(* close() has failed and freed its descriptor.                              *)
THEOREM OpenObjectsAreReady == SocketSafetySpec => []IsOpenIsTrue
  <1>1. SocketInv => IsOpenIsTrue
    BY DEF SocketInv, OwnInv, StageInv, IsOpenIsTrue, IsConnected, Ready
  <1>. QED BY <1>1, Invariance, PTL

(* No two objects hold one descriptor: the one it was created for does.      *)
THEOREM DescriptorsAreNotShared == SocketSafetySpec => []DescriptorHasOneObject
  <1>1. SocketInv => DescriptorHasOneObject
    BY DEF SocketInv, OwnInv, DescriptorHasOneObject
  <1>. QED BY <1>1, Invariance, PTL

(* A descriptor nobody refers to is one on which setsockopt() or close()     *)
(* failed, or whose object was opened while it was open.                     *)
THEOREM DescriptorsAreNotLost == SocketSafetySpec => []OnlyFailedCallsLeak
  <1>1. SocketInv => OnlyFailedCallsLeak
    BY DEF SocketInv, SocketTypeOK, LeakInv, OnlyFailedCallsLeak
  <1>. QED BY <1>1, Invariance, PTL
=============================================================================
