----------------------------- MODULE UsbProofs -----------------------------
(***************************************************************************)
(* Proofs about UsbSearch, for any searches, requests and devices, and     *)
(* about UsbDevice, for any objects, devices and number of handles:        *)
(* whatever calls of libusb fail, whichever devices come and go, and       *)
(* however the searches or the operations of the objects interleave.       *)
(*                                                                         *)
(* The inductive invariant of the search is IInv.  The properties speak of *)
(* the end of a search; IInv says what the loop has done so far and what   *)
(* it has still to do: a device that should be reported is in the rest of  *)
(* the list, in the open handle or in the result.                          *)
(*                                                                         *)
(* The inductive invariant of the objects is DeviceInv.  Beside the        *)
(* properties it says that a handle is held by one object alone, which is  *)
(* why no object closes another's; that an object asks for what it was     *)
(* reported for, which is why the loop does not skip that device; and that *)
(* the loop is not past it unless a call on it failed.                     *)
(***************************************************************************)
EXTENDS UsbSearch, UsbDevice, FiniteSetTheorems, SequenceTheorems, TLAPS

(* What one search may do.                                                 *)
Moves(s) ==
  \/ Start(s) \/ StartFails(s) \/ GetList(s) \/ GetListFails(s)
  \/ \E d \in Devices : CallFails(s, d) \/ Skip(s, d) \/ Open(s, d)
  \/ Inspect(s) \/ FreeList(s) \/ Return(s)

(* A device that is read keeps its vendor and its product.                 *)
LEMMA ReadingsKeep ==
  ASSUME NEW d \in Devices, NEW information \in Readings(d)
  PROVE  information.vendor = d.vendor /\ information.product = d.product
  <1>1. PICK serial, port : information = Read(d, serial, port)
    BY DEF Readings
  <1>2. PICK half : half = [d EXCEPT !.serial = serial]
    OBVIOUS
  <1>3. information = [half EXCEPT !.port = port]
    BY <1>1, <1>2, Zenon DEF Read
  <1>. QED BY <1>2, <1>3, DevicesAssumption

(* An empty list reports nothing, and appending adds one device.           *)
LEMMA ReportedAppend ==
  ASSUME NEW s \in Searchers, found[s] \in Results
  PROVE  /\ found'[s] = found[s] => Reported(s)' = Reported(s)
         /\ found'[s] = <<>> => Reported(s)' = {} /\ Len(found'[s]) = 0
         /\ \A information \in Information :
              found'[s] = Append(found[s], information) =>
                /\ Reported(s)' = Reported(s) \cup {information}
                /\ Len(found'[s]) = Len(found[s]) + 1
  <1>1. found'[s] = found[s] => Reported(s)' = Reported(s)
    BY DEF Reported
  <1>2. found'[s] = <<>> => Reported(s)' = {} /\ Len(found'[s]) = 0
    <2> SUFFICES ASSUME found'[s] = <<>>
                 PROVE  Reported(s)' = {} /\ Len(found'[s]) = 0
      OBVIOUS
    <2>1. Len(found'[s]) = 0 /\ 1..0 = {}
      OBVIOUS
    <2>. QED BY <2>1, Zenon DEF Reported
  <1>3. ASSUME NEW information \in Information,
               found'[s] = Append(found[s], information)
        PROVE  /\ Reported(s)' = Reported(s) \cup {information}
               /\ Len(found'[s]) = Len(found[s]) + 1
    <2>1. /\ Len(found'[s]) = Len(found[s]) + 1 /\ Len(found[s]) \in Nat
          /\ \A i \in 1..Len(found[s]) : found'[s][i] = found[s][i]
          /\ found'[s][Len(found[s]) + 1] = information
      BY <1>3, SMTT(30) DEF Results
    <2>. QED BY <2>1, SMTT(30) DEF Reported
  <1>. QED BY <1>1, <1>2, <1>3

(* A search that is not asked anew is asked for the same.                  *)
LEMMA UsbSame ==
  ASSUME NEW s, asked'[s] = asked[s]
  PROVE  Usb(s)' = Usb(s)
  BY DEF Usb

(* What Inspect does to the result.                                        *)
LEMMA Inspected ==
  ASSUME TypeOK, NEW s \in Searchers, Inspect(s)
  PROVE  \E information \in Readings(handle[s]) :
           /\ information \in Information
           /\ \/ /\ Selected(s, information)
                 /\ found' = [found EXCEPT ![s] = Append(@, information)]
                 /\ found'[s] = Append(found[s], information)
              \/ ~Selected(s, information) /\ found' = found
           /\ information # handle[s] =>
                failed' = [failed EXCEPT ![s] = @ \cup {handle[s]}]
           /\ information = handle[s] => failed' = failed
  <1>1. PICK information \in Readings(handle[s]) :
          /\ found' = IF Selected(s, information)
                      THEN [found EXCEPT ![s] = Append(@, information)]
                      ELSE found
          /\ failed' = IF information = handle[s] THEN failed
                       ELSE [failed EXCEPT ![s] = @ \cup {handle[s]}]
    BY DEF Inspect
  <1>2. handle[s] \in Devices
    BY DEF Inspect, TypeOK
  <1>3. information \in Information
    BY <1>2 DEF Information
  <1>. QED BY <1>1, <1>3 DEF TypeOK

(* Every step keeps the types.                                             *)
LEMMA TypeStep ==
  ASSUME TypeOK, NEW s \in Searchers, Moves(s)
  PROVE  TypeOK'
  <1> USE DEF TypeOK, Phases
  <1>1. /\ <<>> \in Lists /\ <<>> \in Results
        /\ \A request \in Requests[s] : request \in Lists
        /\ \A result \in Results, information \in Information :
             Append(result, information) \in Results
    BY DEF Lists, Results
  <1>2. CASE Start(s) \/ StartFails(s)
    BY <1>1, <1>2 DEF Start, StartFails
  <1>3. CASE GetList(s) \/ GetListFails(s)
    BY <1>3 DEF GetList, GetListFails
  <1>4. ASSUME NEW d \in Devices, CallFails(s, d) \/ Skip(s, d) \/ Open(s, d)
        PROVE  TypeOK'
    <2>1. left' \in [Searchers -> SUBSET Devices]
      BY <1>4 DEF CallFails, Skip, Open, AtDevice
    <2>2. failed' \in [Searchers -> SUBSET Devices]
      BY <1>4 DEF CallFails, Skip, Open
    <2>. QED BY <1>4, <2>1, <2>2 DEF CallFails, Skip, Open
  <1>5. CASE Inspect(s)
    <2>1. handle[s] \in Devices
      BY <1>5 DEF Inspect
    <2>2. found' \in [Searchers -> Results]
      <3>1. PICK information \in Information :
              \/ found' = [found EXCEPT ![s] = Append(@, information)]
              \/ found' = found
        BY <1>5, Inspected
      <3>2. Append(found[s], information) \in Results
        BY <1>1
      <3>. QED BY <3>1, <3>2
    <2>3. failed' \in [Searchers -> SUBSET Devices]
      BY <1>5, <2>1, Inspected
    <2>. QED BY <1>5, <2>2, <2>3 DEF Inspect
  <1>6. CASE FreeList(s) \/ Return(s)
    BY <1>6 DEF FreeList, Return
  <1>. QED BY <1>2, <1>3, <1>4, <1>5, <1>6 DEF Moves

-----------------------------------------------------------------------------
(* A search that rests keeps what holds of it.                             *)
Rests(s) ==
  UNCHANGED <<phase[s], asked[s], listed[s], left[s], handle[s], found[s],
              failed[s]>>

LEMMA RestKeeps ==
  ASSUME NEW s \in Searchers, Rests(s)
  PROVE  /\ LoopInv(s) => LoopInv(s)'
         /\ MissInv(s) => MissInv(s)'
         /\ FilterInv(s) => FilterInv(s)'
         /\ OnceInv(s) => OnceInv(s)'
  <1>1. Usb(s)' = Usb(s) /\ Reported(s)' = Reported(s)
    BY DEF Rests, Usb, Reported
  <1>2. OnceInv(s) => OnceInv(s)'
    BY DEF Rests, OnceInv, ReadOfDifferent
  <1>. QED BY <1>1, <1>2 DEF Rests, LoopInv, MissInv, FilterInv, Matches,
         RequiredVendor, RequiredProduct, Selected

LEMMA OthersRest ==
  ASSUME TypeOK, NEW s \in Searchers, Moves(s),
         NEW t \in Searchers, t # s
  PROVE  Rests(t)
  <1> USE DEF TypeOK, Rests
  <1>1. CASE Inspect(s)
    <2>1. found'[t] = found[t]
      BY <1>1, Inspected
    <2>2. failed'[t] = failed[t]
      BY <1>1, Inspected
    <2>. QED BY <1>1, <2>1, <2>2 DEF Inspect
  <1>2. ASSUME NEW d \in Devices, CallFails(s, d) \/ Skip(s, d) \/ Open(s, d)
        PROVE  Rests(t)
    BY <1>2 DEF CallFails, Skip, Open, AtDevice
  <1>3. CASE \/ Start(s) \/ StartFails(s) \/ GetList(s) \/ GetListFails(s)
             \/ FreeList(s) \/ Return(s)
    BY <1>3 DEF Start, StartFails, GetList, GetListFails, FreeList, Return
  <1>. QED BY <1>1, <1>2, <1>3 DEF Moves

(* Every step keeps the variables of the loop in their place.              *)
LEMMA LoopStep ==
  ASSUME TypeOK, NEW s \in Searchers, LoopInv(s), Moves(s)
  PROVE  LoopInv(s)'
  <1> USE DEF TypeOK, LoopInv
  <1>1. CASE Start(s) \/ StartFails(s)
    BY <1>1 DEF Start, StartFails
  <1>2. CASE GetList(s) \/ GetListFails(s)
    BY <1>2 DEF GetList, GetListFails
  <1>3. ASSUME NEW d \in Devices, CallFails(s, d) \/ Skip(s, d) \/ Open(s, d)
        PROVE  LoopInv(s)'
    <2>1. left'[s] \subseteq listed[s]
      BY <1>3 DEF CallFails, Skip, Open, AtDevice
    <2>. QED BY <1>3, <2>1 DEF CallFails, Skip, Open, AtDevice
  <1>4. CASE Inspect(s)
    BY <1>4 DEF Inspect
  <1>5. CASE FreeList(s) \/ Return(s)
    BY <1>5 DEF FreeList, Return
  <1>. QED BY <1>1, <1>2, <1>3, <1>4, <1>5 DEF Moves

(* Every step that takes a device from the rest of the list opens it, or   *)
(* has a reason not to; every step that closes one reports it, or has a    *)
(* reason not to.                                                          *)
LEMMA MissStep ==
  ASSUME TypeOK, NEW s \in Searchers, LoopInv(s), MissInv(s), Moves(s)
  PROVE  MissInv(s)'
  <1> USE DEF TypeOK, LoopInv, MissInv
  <1>1. CASE Start(s) \/ StartFails(s)
    BY <1>1 DEF Start, StartFails
  <1>2. CASE GetList(s) \/ GetListFails(s)
    BY <1>2 DEF GetList, GetListFails
  <1>3. ASSUME NEW d \in Devices, CallFails(s, d)
        PROVE  MissInv(s)'
    <2>1. Usb(s)' = Usb(s) /\ Reported(s)' = Reported(s)
      BY <1>3, UsbSame, ReportedAppend DEF CallFails, AtDevice
    <2>. QED BY <1>3, <2>1 DEF CallFails, AtDevice, Matches
  <1>4. ASSUME NEW d \in Devices, Skip(s, d)
        PROVE  MissInv(s)'
    <2>1. Usb(s)' = Usb(s) /\ Reported(s)' = Reported(s)
      BY <1>4, UsbSame, ReportedAppend DEF Skip, AtDevice
    <2>2. d.vendor = Ftdi \/ ~\E id \in Usb(s) : Matches(id, d)
      BY <1>4 DEF Skip, RequiredVendor, RequiredProduct, Matches
    <2>. QED BY <1>4, <2>1, <2>2 DEF Skip, AtDevice
  <1>5. ASSUME NEW d \in Devices, Open(s, d)
        PROVE  MissInv(s)'
    <2>1. Usb(s)' = Usb(s) /\ Reported(s)' = Reported(s)
      BY <1>5, UsbSame, ReportedAppend DEF Open, AtDevice
    <2>2. \A e \in left[s] : e \in left'[s] \cup {handle'[s]}
      BY <1>5 DEF Open, AtDevice
    <2>3. handle[s] = NoDevice /\ NoDevice \notin listed[s]
      BY <1>5, NoDeviceAssumption DEF Open, AtDevice
    <2>4. UNCHANGED <<phase, listed, failed>>
      BY <1>5 DEF Open
    <2>. QED BY <2>1, <2>2, <2>3, <2>4
  <1>6. CASE Inspect(s)
    <2>1. Usb(s)' = Usb(s)
      BY <1>6, UsbSame DEF Inspect
    <2>2. PICK information \in Readings(handle[s]) :
            /\ information \in Information
            /\ \/ /\ Selected(s, information)
                  /\ found'[s] = Append(found[s], information)
               \/ ~Selected(s, information) /\ found' = found
            /\ information # handle[s] =>
                 failed' = [failed EXCEPT ![s] = @ \cup {handle[s]}]
            /\ information = handle[s] => failed' = failed
      BY <1>6, Inspected
    <2>3. \/ Reported(s)' = Reported(s) \cup {information}
          \/ Reported(s)' = Reported(s) /\ ~Selected(s, information)
      BY <2>2, ReportedAppend
    <2>4. /\ failed[s] \subseteq failed'[s]
          /\ handle[s] \notin failed'[s] => information = handle[s]
      BY <2>2
    <2>5. \A d : (\E id \in Usb(s) : Matches(id, d)) => Selected(s, d)
      BY DEF Matches, Selected
    <2>. QED BY <1>6, <2>1, <2>3, <2>4, <2>5 DEF Inspect
  <1>7. CASE FreeList(s) \/ Return(s)
    <2>1. Usb(s)' = Usb(s) /\ Reported(s)' = Reported(s)
      BY <1>7, UsbSame, ReportedAppend DEF FreeList, Return
    <2>. QED BY <1>7, <2>1 DEF FreeList, Return, Matches
  <1>. QED BY <1>1, <1>2, <1>3, <1>4, <1>5, <1>6, <1>7 DEF Moves

(* Every step opens and reports only what passes the filters.              *)
LEMMA FilterStep ==
  ASSUME TypeOK, NEW s \in Searchers, LoopInv(s), FilterInv(s), Moves(s)
  PROVE  FilterInv(s)'
  <1> USE DEF TypeOK, LoopInv, FilterInv, RequiredVendor, RequiredProduct,
              Selected
  <1>1. CASE Start(s) \/ StartFails(s)
    <2>1. Reported(s)' = {} /\ handle'[s] = NoDevice
      BY <1>1, ReportedAppend DEF Start, StartFails
    <2>. QED BY <2>1
  <1>2. ASSUME \/ GetList(s) \/ GetListFails(s) \/ FreeList(s) \/ Return(s)
               \/ \E d \in Devices : CallFails(s, d) \/ Skip(s, d)
        PROVE  FilterInv(s)'
    <2>1. UNCHANGED <<asked, found, handle>>
      BY <1>2 DEF GetList, GetListFails, FreeList, Return, CallFails, Skip
    <2>2. Usb(s)' = Usb(s) /\ Reported(s)' = Reported(s)
      BY <2>1, UsbSame, ReportedAppend
    <2>. QED BY <2>1, <2>2
  <1>3. ASSUME NEW d \in Devices, Open(s, d)
        PROVE  FilterInv(s)'
    <2>1. Usb(s)' = Usb(s) /\ Reported(s)' = Reported(s)
      BY <1>3, UsbSame, ReportedAppend DEF Open, AtDevice
    <2>. QED BY <1>3, <2>1 DEF Open, AtDevice
  <1>4. CASE Inspect(s)
    <2>1. Usb(s)' = Usb(s) /\ handle[s] \in Devices /\ handle'[s] = NoDevice
      BY <1>4, UsbSame DEF Inspect
    <2>2. PICK information \in Readings(handle[s]) :
            \/ /\ Selected(s, information)
               /\ Reported(s)' = Reported(s) \cup {information}
            \/ Reported(s)' = Reported(s)
      BY <1>4, Inspected, ReportedAppend
    <2>3. information.vendor = handle[s].vendor
          /\ information.product = handle[s].product
      BY <2>1, ReadingsKeep
    <2>4. handle[s] # NoDevice
      BY <1>4 DEF Inspect
    <2>. QED BY <2>1, <2>2, <2>3, <2>4
  <1>. QED BY <1>1, <1>2, <1>3, <1>4 DEF Moves

THEOREM Invariance == Spec => []IInv
  <1>1. Init => IInv
    <2> SUFFICES ASSUME Init PROVE IInv
      OBVIOUS
    <2>1. <<>> \in Lists /\ <<>> \in Results
      BY DEF Lists, Results
    <2>2. TypeOK
      BY <2>1 DEF Init, TypeOK, Phases
    <2>3. \A s \in Searchers : Reported(s) = {}
      <3>1. Len(<<>>) = 0 /\ 1..0 = {}
        OBVIOUS
      <3>. QED BY <3>1, Zenon DEF Init, Reported
    <2>. QED BY <2>2, <2>3 DEF Init, IInv, LoopInv, MissInv, FilterInv
  <1>2. ASSUME IInv, NEW s \in Searchers, Moves(s) PROVE IInv'
    <2>1. TypeOK'
      BY <1>2, TypeStep DEF IInv
    <2>2. ASSUME NEW t \in Searchers
          PROVE  LoopInv(t)' /\ MissInv(t)' /\ FilterInv(t)'
      <3>1. CASE t = s
        BY <1>2, <3>1, LoopStep, MissStep, FilterStep DEF IInv
      <3>2. CASE t # s
        BY <1>2, <3>2, OthersRest, RestKeeps DEF IInv
      <3>. QED BY <3>1, <3>2
    <2>. QED BY <2>1, <2>2 DEF IInv
  <1>3. ASSUME IInv, UNCHANGED vars PROVE IInv'
    <2>1. \A t \in Searchers : Rests(t)
      BY <1>3 DEF vars, search, Rests
    <2>2. TypeOK'
      BY <1>3 DEF IInv, TypeOK, vars, search
    <2>. QED BY <1>3, <2>1, <2>2, RestKeeps DEF IInv
  <1>4. IInv /\ [Next]_vars => IInv'
    BY <1>2, <1>3 DEF Next, Moves
  <1>. QED BY <1>1, <1>4, PTL DEF Spec

(* The types of the searches hold in every reachable state.                *)
THEOREM TypeCorrect == Spec => []TypeOK
  BY Invariance, PTL DEF IInv

(* A device that was listed, that answered and that an identification      *)
(* describes is reported.                                                  *)
THEOREM SearchIsComplete == Spec => []NothingIsMissed
  <1>1. IInv => NothingIsMissed
    <2> SUFFICES ASSUME IInv, NEW s \in Searchers, phase[s] = "returned",
                        NEW d \in listed[s] \ failed[s], d.vendor # Ftdi,
                        \E id \in Usb(s) : Matches(id, d)
                 PROVE  d \in Reported(s)
      BY DEF NothingIsMissed
    <2>1. left[s] = {} /\ handle[s] = NoDevice
      BY DEF IInv, LoopInv
    <2>2. d \in Devices
      BY DEF IInv, TypeOK
    <2>. QED BY <2>1, <2>2, NoDeviceAssumption DEF IInv, MissInv
  <1>. QED BY <1>1, Invariance, PTL

(* One identification is satisfied in every field.                         *)
THEOREM SearchIsExact == Spec => []OneIdentificationIsExact
  <1>1. IInv => OneIdentificationIsExact
    <2> SUFFICES ASSUME IInv, NEW s \in Searchers, Cardinality(Usb(s)) = 1,
                        NEW information \in Reported(s), NEW id \in Usb(s)
                 PROVE  Matches(id, information)
      BY DEF OneIdentificationIsExact
    <2>1. Len(asked[s]) \in Nat
      <3>1. asked[s] = <<>> \/ \E t \in Searchers : asked[s] \in Requests[t]
        BY DEF IInv, TypeOK, Lists
      <3>. QED BY <3>1, RequestsAssumption
    <2>2. IsFiniteSet({asked[s][i] : i \in 1..Len(asked[s])})
      <3>1. IsFiniteSet(1..Len(asked[s]))
        BY <2>1, FS_Interval
      <3>2. [i \in 1..Len(asked[s]) |-> asked[s][i]]
              \in Surjection(1..Len(asked[s]),
                             {asked[s][i] : i \in 1..Len(asked[s])})
        BY DEF Surjection
      <3>. QED BY <3>1, <3>2, FS_Surjection
    <2>3. IsFiniteSet(Usb(s))
      BY <2>2, FS_Difference DEF Usb
    <2>4. \A other \in Usb(s) : other = id
      BY <2>3, FS_Singleton
    <2>. QED BY <2>4 DEF IInv, FilterInv, RequiredVendor, RequiredProduct,
           Selected, Matches
  <1>. QED BY <1>1, Invariance, PTL

-----------------------------------------------------------------------------
Busy == {s \in Searchers : phase[s] # "returned"}

(* Every step takes or releases a reference when a search begins or ends.  *)
LEMMA ContextStep ==
  ASSUME IsFiniteSet(Searchers), TypeOK, ContextOutlivesUse, [Next]_vars
  PROVE  ContextOutlivesUse'
  <1>1. IsFiniteSet(Busy) /\ Cardinality(Busy) \in Nat
    BY FS_Subset, FS_CardinalityType DEF Busy
  <1>2. ContextOutlivesUse <=> context = Cardinality(Busy)
    BY DEF ContextOutlivesUse, Busy
  <1>3. ContextOutlivesUse' <=> context' = Cardinality(Busy')
    BY DEF ContextOutlivesUse, Busy
  <1>4. ASSUME NEW s \in Searchers, Start(s) PROVE ContextOutlivesUse'
    <2>1. Busy' = Busy \cup {s} /\ s \notin Busy /\ context' = context + 1
      BY <1>4 DEF Start, Busy, TypeOK
    <2>. QED BY <1>1, <1>2, <1>3, <2>1, FS_AddElement
  <1>5. ASSUME NEW s \in Searchers, Return(s) PROVE ContextOutlivesUse'
    <2>1. Busy' = Busy \ {s} /\ s \in Busy /\ context' = context - 1
      BY <1>5 DEF Return, Busy, TypeOK
    <2>. QED BY <1>1, <1>2, <1>3, <2>1, FS_RemoveElement
  <1>6. ASSUME NEW s \in Searchers,
               \/ StartFails(s) \/ GetList(s) \/ GetListFails(s)
               \/ \E d \in Devices :
                    CallFails(s, d) \/ Skip(s, d) \/ Open(s, d)
               \/ Inspect(s) \/ FreeList(s)
        PROVE  ContextOutlivesUse'
    <2>1. context' = context
      BY <1>6 DEF StartFails, GetList, GetListFails, CallFails, Skip, Open,
        Inspect, FreeList
    <2>2. \A t \in Searchers : phase'[t] = "returned" <=> phase[t] = "returned"
      BY <1>6 DEF StartFails, GetList, GetListFails, CallFails, Skip, Open,
        Inspect, FreeList, TypeOK
    <2>3. Busy' = Busy
      BY <2>2 DEF Busy
    <2>. QED BY <1>2, <1>3, <2>1, <2>3
  <1>7. ASSUME UNCHANGED vars PROVE ContextOutlivesUse'
    BY <1>7 DEF ContextOutlivesUse, vars, search
  <1>. QED BY <1>4, <1>5, <1>6, <1>7 DEF Next

(* The default context has one reference for each search that is under     *)
(* way.  The threads that search are finitely many.                        *)
THEOREM ContextIsCounted ==
  ASSUME IsFiniteSet(Searchers)
  PROVE  Spec => []ContextOutlivesUse
  <1>1. Init => ContextOutlivesUse
    <2> SUFFICES ASSUME Init PROVE ContextOutlivesUse
      OBVIOUS
    <2>1. {s \in Searchers : phase[s] # "returned"} = {}
      BY DEF Init
    <2>. QED BY <2>1, FS_EmptySet DEF Init, ContextOutlivesUse
  <1>2. IInv /\ ContextOutlivesUse /\ [Next]_vars => ContextOutlivesUse'
    BY ContextStep DEF IInv
  <1>. QED BY <1>1, <1>2, Invariance, PTL DEF Spec

-----------------------------------------------------------------------------
(* The result is read of other devices when there are more to choose from, *)
(* and trivially when it is empty.                                         *)
LEMMA OfMore ==
  ASSUME NEW s \in Searchers, NEW S, NEW T, S \subseteq T,
         ReadOfDifferent(s, S)
  PROVE  ReadOfDifferent(s, T)
  <1>1. PICK device \in Injection(1..Len(found[s]), S) :
          \A i \in 1..Len(found[s]) : found[s][i] \in Readings(device[i])
    BY DEF ReadOfDifferent
  <1>2. device \in Injection(1..Len(found[s]), T)
    BY DEF Injection, IsInjective
  <1>. QED BY <1>1, <1>2 DEF ReadOfDifferent

LEMMA OfNone ==
  ASSUME NEW s \in Searchers, NEW S
  PROVE  /\ found[s] = <<>> => ReadOfDifferent(s, S)
         /\ found'[s] = <<>> => ReadOfDifferent(s, S)'
  <1>1. PICK device : device = [i \in {} |-> i]
    OBVIOUS
  <1>2. device \in Injection({}, S)
    BY <1>1 DEF Injection, IsInjective
  <1>3. \A result : result = <<>> => 1..Len(result) = {}
    BY SMT
  <1>. QED BY <1>2, <1>3 DEF ReadOfDifferent

(* One more entry, read of one more device.                                *)
LEMMA OfOneMore ==
  ASSUME NEW s \in Searchers, found[s] \in Results, NEW S, NEW d, d \notin S,
         NEW information \in Information, information \in Readings(d),
         found'[s] = Append(found[s], information), ReadOfDifferent(s, S)
  PROVE  \E device \in Injection(1..Len(found'[s]), S \cup {d}) :
           \A i \in 1..Len(found'[s]) : found'[s][i] \in Readings(device[i])
  <1> DEFINE n == Len(found[s])
  <1>1. PICK device \in Injection(1..n, S) :
          \A i \in 1..n : found[s][i] \in Readings(device[i])
    BY DEF ReadOfDifferent
  <1>2. /\ n \in Nat /\ Len(found'[s]) = n + 1
        /\ \A i \in 1..n : found'[s][i] = found[s][i]
        /\ found'[s][n + 1] = information
    BY SMTT(30) DEF Results
  <1> HIDE DEF n
  <1> DEFINE more == [i \in 1..(n + 1) |-> IF i = n + 1 THEN d ELSE device[i]]
  <1>3. /\ device \in [1..n -> S]
        /\ \A i, j \in 1..n : device[i] = device[j] => i = j
    BY DEF Injection, IsInjective
  <1>4. more \in [1..(n + 1) -> S \cup {d}]
    BY <1>2, <1>3
  <1>5. \A i, j \in 1..(n + 1) : more[i] = more[j] => i = j
    BY <1>2, <1>3
  <1>6. \A i \in 1..(n + 1) : found'[s][i] \in Readings(more[i])
    BY <1>1, <1>2
  <1>7. more \in Injection(1..(n + 1), S \cup {d})
    BY <1>4, <1>5 DEF Injection, IsInjective
  <1>. QED BY <1>2, <1>6, <1>7

(* Every step that reports a device has taken it from the list.            *)
LEMMA OnceStep ==
  ASSUME TypeOK, NEW s \in Searchers, LoopInv(s), OnceInv(s), Moves(s)
  PROVE  OnceInv(s)'
  <1> DEFINE Taken == listed[s] \ left[s]
  <1> USE NoDeviceAssumption DEF TypeOK, LoopInv
  <1>1. CASE Start(s) \/ StartFails(s) \/ GetList(s)
    <2>1. found'[s] = <<>> /\ handle'[s] = NoDevice
      BY <1>1 DEF Start, StartFails, GetList
    <2>2. ReadOfDifferent(s, Taken \ {handle[s]})'
      <3>1. ASSUME NEW S PROVE ReadOfDifferent(s, S)'
        BY <2>1, OfNone
      <3>. QED BY <3>1
    <2>. QED BY <2>1, <2>2 DEF OnceInv
  <1>2. ASSUME NEW d \in Devices, CallFails(s, d) \/ Skip(s, d) \/ Open(s, d)
        PROVE  OnceInv(s)'
    <2>1. /\ Taken' = Taken \cup {d} /\ d \notin Taken
          /\ handle[s] = NoDevice /\ handle'[s] \in {NoDevice, d}
          /\ found'[s] = found[s]
      BY <1>2 DEF CallFails, Skip, Open, AtDevice
    <2>2. Taken \ {handle[s]} \subseteq (Taken \ {handle[s]})'
      BY <2>1
    <2>3. ReadOfDifferent(s, (Taken \ {handle[s]})')
      BY <2>2, OfMore DEF OnceInv
    <2>4. ReadOfDifferent(s, Taken \ {handle[s]})'
      BY <2>1, <2>3 DEF ReadOfDifferent
    <2>. QED BY <2>1, <2>4 DEF OnceInv
  <1>3. CASE Inspect(s)
    <2>1. /\ Taken' = Taken /\ handle[s] \in Taken
          /\ handle'[s] = NoDevice /\ NoDevice \notin Taken
      BY <1>3 DEF Inspect, OnceInv
    <2>2. PICK information \in Readings(handle[s]) :
            /\ information \in Information
            /\ \/ found'[s] = Append(found[s], information)
               \/ found' = found
      BY <1>3, Inspected
    <2>3. ReadOfDifferent(s, Taken \ {handle[s]})
      BY DEF OnceInv
    <2>4. CASE found'[s] = Append(found[s], information)
      <3> DEFINE S == Taken \ {handle[s]}
      <3>1. found[s] \in Results
        OBVIOUS
      <3>2. handle[s] \notin S /\ S \cup {handle[s]} = Taken'
        BY <2>1
      <3>3. ReadOfDifferent(s, Taken)'
        BY <2>2, <2>3, <2>4, <3>1, <3>2, OfOneMore DEF ReadOfDifferent
      <3>. QED BY <2>1, <3>3 DEF OnceInv
    <2>5. CASE found' = found
      <3>1. ReadOfDifferent(s, Taken)
        BY <2>3, OfMore
      <3>2. ReadOfDifferent(s, Taken)'
        BY <2>1, <2>5, <3>1 DEF ReadOfDifferent
      <3>. QED BY <2>1, <3>2 DEF OnceInv
    <2>. QED BY <2>2, <2>4, <2>5
  <1>4. CASE GetListFails(s) \/ FreeList(s) \/ Return(s)
    BY <1>4 DEF GetListFails, FreeList, Return, OnceInv, ReadOfDifferent
  <1>. QED BY <1>1, <1>2, <1>3, <1>4 DEF Moves

(* The entries of a result belong to different devices, all of which the   *)
(* loop has come to: none is reported twice, even when others were         *)
(* skipped.                                                                *)
THEOREM DevicesAreReportedOnce == Spec => []NoDeviceTwice
  <1> DEFINE Once == \A s \in Searchers : OnceInv(s)
  <1>1. Init => Once
    <2> SUFFICES ASSUME Init, NEW s \in Searchers PROVE OnceInv(s)
      OBVIOUS
    <2>1. handle[s] = NoDevice /\ found[s] = <<>>
      BY DEF Init
    <2>. QED BY <2>1, OfNone DEF OnceInv
  <1>2. IInv /\ Once /\ [Next]_vars => Once'
    <2>1. ASSUME IInv, Once, NEW s \in Searchers, Moves(s),
                 NEW t \in Searchers
          PROVE  OnceInv(t)'
      <3>1. CASE t = s
        BY <2>1, <3>1, OnceStep DEF IInv
      <3>2. CASE t # s
        BY <2>1, <3>2, OthersRest, RestKeeps DEF IInv
      <3>. QED BY <3>1, <3>2
    <2>2. ASSUME Once, UNCHANGED vars, NEW t \in Searchers
          PROVE  OnceInv(t)'
      <3>1. Rests(t)
        BY <2>2 DEF vars, search, Rests
      <3>. QED BY <2>2, <3>1, RestKeeps
    <2>. QED BY <2>1, <2>2 DEF Next, Moves
  <1>3. Once => NoDeviceTwice
    <2> SUFFICES ASSUME Once, NEW s \in Searchers
                 PROVE  ReadOfDifferent(s, listed[s] \ left[s])
      BY DEF NoDeviceTwice
    <2>. QED BY OfMore DEF OnceInv
  <1>. QED BY <1>1, <1>2, <1>3, Invariance, PTL DEF Spec

-----------------------------------------------------------------------------
(* The objects.                                                            *)
LEMMA NullIsNoHandle == NULL \notin Handles
  BY HandlesAssumption DEF NULL, Handles

(* Every step keeps the types.                                             *)
LEMMA DeviceTypeStep ==
  ASSUME DeviceTypeOK, StateInv,
         [DeviceNext]_deviceVars
  PROVE  DeviceTypeOK'
  <1> USE NoDeviceAssumption, NullIsNoHandle DEF DeviceTypeOK, StateInv,
      States, At, object, shared
  <1>0. \A o \in Objects : excused \cup {o} \subseteq Objects
    OBVIOUS
  <1>1. ASSUME NEW o \in Objects, NEW d \in Devices, Report(o, d)
        PROVE  DeviceTypeOK'
    <2>1. PICK port \in {d.port, Unread} :
            m_identification' = [m_identification EXCEPT ![o] =
              [vendor |-> d.vendor, product |-> d.product, port |-> port]]
      BY <1>1 DEF Report
    <2>2. [vendor |-> d.vendor, product |-> d.product, port |-> port]
            \in Identifications
      BY DEF Identifications
    <2>3. m_identification' \in [Objects -> Identifications \cup {NoDevice}]
      BY <2>1, <2>2
    <2>. QED BY <1>1, <2>3 DEF Report, Answer, Goto
  <1>2. ASSUME NEW o \in Objects, NEW d \in Devices, TryFails(o, d)
       PROVE  DeviceTypeOK'
    BY <1>0, <1>2 DEF TryFails, Trying, Goto
  <1>3. ASSUME NEW o \in Objects, NEW d \in Devices, SkipDevice(o, d)
        PROVE  DeviceTypeOK'
    BY <1>3 DEF SkipDevice, Trying, Goto
  <1>4. ASSUME NEW o \in Objects, NEW d \in Devices, OpenDevice(o, d)
       PROVE  DeviceTypeOK'
    BY <1>4 DEF OpenDevice, Trying, Goto
  <1>5. ASSUME NEW o \in Objects, OpenCalled(o) PROVE DeviceTypeOK'
    BY <1>5 DEF OpenCalled, Goto
  <1>6. ASSUME NEW o \in Objects, InitContext(o) PROVE DeviceTypeOK'
    BY <1>6 DEF InitContext, Goto
  <1>7. ASSUME NEW o \in Objects, InitFails(o) PROVE DeviceTypeOK'
    BY <1>0, <1>7 DEF InitFails, Answer, Goto
  <1>8. ASSUME NEW o \in Objects, ListDevices(o) PROVE DeviceTypeOK'
    BY <1>0, <1>8 DEF ListDevices, Goto
  <1>9. ASSUME NEW o \in Objects, ListFails(o) PROVE DeviceTypeOK'
    BY <1>9 DEF ListFails, Goto
  <1>10. ASSUME NEW o \in Objects, NoPort(o) \/ NoMatch(o) PROVE DeviceTypeOK'
    BY <1>10 DEF NoPort, NoMatch, Answer, Goto
  <1>11. ASSUME NEW o \in Objects, WrongPort(o) PROVE DeviceTypeOK'
    BY <1>11 DEF WrongPort, Goto
  <1>12. ASSUME NEW o \in Objects, Match(o) PROVE DeviceTypeOK'
    BY <1>12 DEF Match, Answer, Goto
  <1>13. ASSUME NEW o \in Objects, Close(o) \/ Destroy(o) PROVE DeviceTypeOK'
    BY <1>13 DEF Close, Destroy, CloseHandle, Answer, Goto
  <1>14. ASSUME NEW o \in Objects, Use(o) PROVE DeviceTypeOK'
    BY <1>14 DEF Use, Goto
  <1>15. ASSUME UNCHANGED deviceVars PROVE DeviceTypeOK'
    BY <1>15 DEF deviceVars
  <1>. QED BY <1>1, <1>2, <1>3, <1>4, <1>5, <1>6, <1>7, <1>8, <1>9, <1>10,
      <1>11, <1>12, <1>13, <1>14, <1>15 DEF DeviceNext

(* Every step leaves handles only where the code has them in its           *)
(* variables.                                                              *)
LEMMA StateStep ==
  ASSUME DeviceTypeOK, StateInv,
         [DeviceNext]_deviceVars
  PROVE  StateInv'
  <1> USE NoDeviceAssumption, NullIsNoHandle DEF DeviceTypeOK, StateInv,
      States, At, object, shared
  <1>1. ASSUME NEW o \in Objects, NEW d \in Devices, Report(o, d)
       PROVE  StateInv'
    BY <1>1 DEF Report, Answer, Goto
  <1>2. ASSUME NEW o \in Objects, NEW d \in Devices,
               TryFails(o, d) \/ SkipDevice(o, d)
       PROVE  StateInv'
    BY <1>2 DEF TryFails, SkipDevice, Trying, Goto
  <1>3. ASSUME NEW o \in Objects, NEW d \in Devices, OpenDevice(o, d)
       PROVE  StateInv'
    BY <1>3 DEF OpenDevice, Trying, Goto
  <1>4. ASSUME NEW o \in Objects, OpenCalled(o) PROVE StateInv'
    BY <1>4 DEF OpenCalled, Goto
  <1>5. ASSUME NEW o \in Objects, InitContext(o) \/ InitFails(o)
       PROVE  StateInv'
    BY <1>5 DEF InitContext, InitFails, Answer, Goto
  <1>6. ASSUME NEW o \in Objects, ListDevices(o) \/ ListFails(o)
        PROVE  StateInv'
    BY <1>6 DEF ListDevices, ListFails, Goto
  <1>7. ASSUME NEW o \in Objects, NoPort(o) \/ NoMatch(o) PROVE StateInv'
    BY <1>7 DEF NoPort, NoMatch, Answer, Goto
  <1>8. ASSUME NEW o \in Objects, WrongPort(o) PROVE StateInv'
    BY <1>8 DEF WrongPort, Goto
  <1>9. ASSUME NEW o \in Objects, Match(o) PROVE StateInv'
    BY <1>9 DEF Match, Answer, Goto
  <1>10. ASSUME NEW o \in Objects, Close(o) \/ Destroy(o) PROVE StateInv'
    BY <1>10 DEF Close, Destroy, CloseHandle, Answer, Goto
  <1>11. ASSUME NEW o \in Objects, Use(o) PROVE StateInv'
    BY <1>11 DEF Use, Goto
  <1>12. ASSUME UNCHANGED deviceVars PROVE StateInv'
    BY <1>12 DEF deviceVars
  <1>. QED BY <1>1, <1>2, <1>3, <1>4, <1>5, <1>6, <1>7, <1>8, <1>9, <1>10,
      <1>11, <1>12 DEF DeviceNext

(* Every step keeps the handles that are held open and apart: one that is  *)
(* opened was closed, so that nobody held it, and one that is closed was   *)
(* held by the object alone.                                               *)
LEMMA LiveStep ==
  ASSUME DeviceTypeOK, StateInv, LiveInv,
         [DeviceNext]_deviceVars
  PROVE  LiveInv'
  <1> USE NoDeviceAssumption, NullIsNoHandle DEF DeviceTypeOK, StateInv,
      LiveInv, At, object, shared
  <1>1. ASSUME NEW o \in Objects, NEW d \in Devices, Report(o, d)
       PROVE  LiveInv'
    BY <1>1 DEF Report, Answer, Goto
  <1>2. ASSUME NEW o \in Objects, NEW d \in Devices,
               TryFails(o, d) \/ SkipDevice(o, d)
       PROVE  LiveInv'
    BY <1>2 DEF TryFails, SkipDevice, Trying, Goto
  <1>3. ASSUME NEW o \in Objects, NEW d \in Devices, OpenDevice(o, d)
       PROVE  LiveInv'
    BY <1>3 DEF OpenDevice, Trying, Goto
  <1>4. ASSUME NEW o \in Objects, OpenCalled(o) PROVE LiveInv'
    BY <1>4 DEF OpenCalled, Goto
  <1>5. ASSUME NEW o \in Objects, InitContext(o) \/ InitFails(o) PROVE LiveInv'
    BY <1>5 DEF InitContext, InitFails, Answer, Goto
  <1>6. ASSUME NEW o \in Objects, ListDevices(o) \/ ListFails(o) PROVE LiveInv'
    BY <1>6 DEF ListDevices, ListFails, Goto
  <1>7. ASSUME NEW o \in Objects, NoPort(o) \/ NoMatch(o) PROVE LiveInv'
    BY <1>7 DEF NoPort, NoMatch, Answer, Goto
  <1>8. ASSUME NEW o \in Objects, WrongPort(o) PROVE LiveInv'
    BY <1>8 DEF WrongPort, Goto
  <1>9. ASSUME NEW o \in Objects, Match(o) PROVE LiveInv'
    BY <1>9 DEF Match, Answer, Goto
  <1>10. ASSUME NEW o \in Objects, Close(o) \/ Destroy(o) PROVE LiveInv'
    BY <1>10 DEF Close, Destroy, CloseHandle, Answer, Goto
  <1>11. ASSUME NEW o \in Objects, Use(o) PROVE LiveInv'
    BY <1>11 DEF Use, Goto
  <1>12. ASSUME UNCHANGED deviceVars PROVE LiveInv'
    BY <1>12 DEF deviceVars
  <1>. QED BY <1>1, <1>2, <1>3, <1>4, <1>5, <1>6, <1>7, <1>8, <1>9, <1>10,
      <1>11, <1>12 DEF DeviceNext

(* Every step keeps what an object asks for, and opens only that.          *)
LEMMA AskedStep ==
  ASSUME DeviceTypeOK, StateInv, LiveInv, AskedInv,
         [DeviceNext]_deviceVars
  PROVE  AskedInv'
  <1> USE NoDeviceAssumption, NullIsNoHandle DEF DeviceTypeOK, StateInv,
      LiveInv, AskedInv, IsRequired, At, object, shared
  <1>1. ASSUME NEW o \in Objects, NEW d \in Devices, Report(o, d)
       PROVE  AskedInv'
    BY <1>1 DEF Report, Answer, Goto
  <1>2. ASSUME NEW o \in Objects, NEW d \in Devices,
               TryFails(o, d) \/ SkipDevice(o, d)
       PROVE  AskedInv'
    BY <1>2 DEF TryFails, SkipDevice, Trying, Goto
  <1>3. ASSUME NEW o \in Objects, NEW d \in Devices, OpenDevice(o, d)
       PROVE  AskedInv'
    BY <1>3 DEF OpenDevice, Trying, Goto
  <1>4. ASSUME NEW o \in Objects, OpenCalled(o) PROVE AskedInv'
    BY <1>4 DEF OpenCalled, Goto
  <1>5. ASSUME NEW o \in Objects, InitContext(o) \/ InitFails(o)
       PROVE  AskedInv'
    BY <1>5 DEF InitContext, InitFails, Answer, Goto
  <1>6. ASSUME NEW o \in Objects, ListDevices(o) \/ ListFails(o)
        PROVE  AskedInv'
    BY <1>6 DEF ListDevices, ListFails, Goto
  <1>7. ASSUME NEW o \in Objects, NoPort(o) \/ NoMatch(o) PROVE AskedInv'
    BY <1>7 DEF NoPort, NoMatch, Answer, Goto
  <1>8. ASSUME NEW o \in Objects, WrongPort(o) PROVE AskedInv'
    BY <1>8 DEF WrongPort, Goto
  <1>9. ASSUME NEW o \in Objects, Match(o) PROVE AskedInv'
    BY <1>9 DEF Match, Answer, Goto
  <1>10. ASSUME NEW o \in Objects, Close(o) \/ Destroy(o) PROVE AskedInv'
    BY <1>10 DEF Close, Destroy, CloseHandle, Answer, Goto
  <1>11. ASSUME NEW o \in Objects, Use(o) PROVE AskedInv'
    BY <1>11 DEF Use, Goto
  <1>12. ASSUME UNCHANGED deviceVars PROVE AskedInv'
    BY <1>12 DEF deviceVars
  <1>. QED BY <1>1, <1>2, <1>3, <1>4, <1>5, <1>6, <1>7, <1>8, <1>9, <1>10,
      <1>11, <1>12 DEF DeviceNext

(* Every step keeps what is behind the handle of an open object.           *)
LEMMA FitsStep ==
  ASSUME DeviceTypeOK, StateInv, LiveInv, AskedInv, OpenedFits,
         [DeviceNext]_deviceVars
  PROVE  OpenedFits'
  <1> USE NoDeviceAssumption, NullIsNoHandle DEF DeviceTypeOK, StateInv,
      LiveInv, AskedInv, OpenedFits, IsRequired, At, object, shared
  <1>1. ASSUME NEW o \in Objects, NEW d \in Devices, Report(o, d)
       PROVE  OpenedFits'
    BY <1>1 DEF Report, Answer, Goto
  <1>2. ASSUME NEW o \in Objects, NEW d \in Devices,
               TryFails(o, d) \/ SkipDevice(o, d)
       PROVE  OpenedFits'
    BY <1>2 DEF TryFails, SkipDevice, Trying, Goto
  <1>3. ASSUME NEW o \in Objects, NEW d \in Devices, OpenDevice(o, d)
       PROVE  OpenedFits'
    BY <1>3 DEF OpenDevice, Trying, Goto
  <1>4. ASSUME NEW o \in Objects, OpenCalled(o) PROVE OpenedFits'
    BY <1>4 DEF OpenCalled, Goto
  <1>5. ASSUME NEW o \in Objects, InitContext(o) \/ InitFails(o)
       PROVE  OpenedFits'
    BY <1>5 DEF InitContext, InitFails, Answer, Goto
  <1>6. ASSUME NEW o \in Objects, ListDevices(o) \/ ListFails(o)
       PROVE  OpenedFits'
    BY <1>6 DEF ListDevices, ListFails, Goto
  <1>7. ASSUME NEW o \in Objects, NoPort(o) \/ NoMatch(o) PROVE OpenedFits'
    BY <1>7 DEF NoPort, NoMatch, Answer, Goto
  <1>8. ASSUME NEW o \in Objects, WrongPort(o) PROVE OpenedFits'
    BY <1>8 DEF WrongPort, Goto
  <1>9. ASSUME NEW o \in Objects, Match(o) PROVE OpenedFits'
    BY <1>9 DEF Match, Answer, Goto
  <1>10. ASSUME NEW o \in Objects, Close(o) \/ Destroy(o) PROVE OpenedFits'
    BY <1>10 DEF Close, Destroy, CloseHandle, Answer, Goto
  <1>11. ASSUME NEW o \in Objects, Use(o) PROVE OpenedFits'
    BY <1>11 DEF Use, Goto
  <1>12. ASSUME UNCHANGED deviceVars PROVE OpenedFits'
    BY <1>12 DEF deviceVars
  <1>. QED BY <1>1, <1>2, <1>3, <1>4, <1>5, <1>6, <1>7, <1>8, <1>9, <1>10,
      <1>11, <1>12 DEF DeviceNext

(* Every step of the loop passes the device the object was reported for by *)
(* only when a call on it fails.                                           *)
LEMMA DeviceLoopStep ==
  ASSUME DeviceTypeOK, StateInv, LiveInv, AskedInv, UntriedInv,
         [DeviceNext]_deviceVars
  PROVE  UntriedInv'
  <1> USE NoDeviceAssumption, NullIsNoHandle DEF DeviceTypeOK, StateInv,
      LiveInv, AskedInv, UntriedInv, IsRequired, At, object, shared
  <1>1. ASSUME NEW o \in Objects, NEW d \in Devices, Report(o, d)
       PROVE  UntriedInv'
    BY <1>1 DEF Report, Answer, Goto
  <1>2. ASSUME NEW o \in Objects, NEW d \in Devices,
               TryFails(o, d) \/ SkipDevice(o, d)
       PROVE  UntriedInv'
    BY <1>2 DEF TryFails, SkipDevice, Trying, Goto
  <1>3. ASSUME NEW o \in Objects, NEW d \in Devices, OpenDevice(o, d)
       PROVE  UntriedInv'
    BY <1>3 DEF OpenDevice, Trying, Goto
  <1>4. ASSUME NEW o \in Objects, OpenCalled(o) PROVE UntriedInv'
    BY <1>4 DEF OpenCalled, Goto
  <1>5. ASSUME NEW o \in Objects, InitContext(o) \/ InitFails(o)
        PROVE  UntriedInv'
    BY <1>5 DEF InitContext, InitFails, Answer, Goto
  <1>6. ASSUME NEW o \in Objects, ListDevices(o) \/ ListFails(o)
        PROVE  UntriedInv'
    BY <1>6 DEF ListDevices, ListFails, Goto
  <1>7. ASSUME NEW o \in Objects, NoPort(o) \/ NoMatch(o) PROVE UntriedInv'
    BY <1>7 DEF NoPort, NoMatch, Answer, Goto
  <1>8. ASSUME NEW o \in Objects, WrongPort(o) PROVE UntriedInv'
    BY <1>8 DEF WrongPort, Goto
  <1>9. ASSUME NEW o \in Objects, Match(o) PROVE UntriedInv'
    BY <1>9 DEF Match, Answer, Goto
  <1>10. ASSUME NEW o \in Objects, Close(o) \/ Destroy(o) PROVE UntriedInv'
    BY <1>10 DEF Close, Destroy, CloseHandle, Answer, Goto
  <1>11. ASSUME NEW o \in Objects, Use(o) PROVE UntriedInv'
    BY <1>11 DEF Use, Goto
  <1>12. ASSUME UNCHANGED deviceVars PROVE UntriedInv'
    BY <1>12 DEF deviceVars
  <1>. QED BY <1>1, <1>2, <1>3, <1>4, <1>5, <1>6, <1>7, <1>8, <1>9, <1>10,
      <1>11, <1>12 DEF DeviceNext

(* Every step that refuses has a reason.                                   *)
LEMMA RefusalStep ==
  ASSUME DeviceTypeOK, StateInv, UntriedInv, ReportedCanBeOpened,
         [DeviceNext]_deviceVars
  PROVE  ReportedCanBeOpened'
  <1> USE NoDeviceAssumption, NullIsNoHandle DEF DeviceTypeOK, StateInv,
      UntriedInv, ReportedCanBeOpened, At, object, shared
  <1>1. ASSUME NEW o \in Objects, NEW d \in Devices, Report(o, d)
       PROVE  ReportedCanBeOpened'
    BY <1>1 DEF Report, Answer, Goto
  <1>2. ASSUME NEW o \in Objects, NEW d \in Devices,
               TryFails(o, d) \/ SkipDevice(o, d)
       PROVE  ReportedCanBeOpened'
    BY <1>2 DEF TryFails, SkipDevice, Trying, Goto
  <1>3. ASSUME NEW o \in Objects, NEW d \in Devices, OpenDevice(o, d)
       PROVE  ReportedCanBeOpened'
    BY <1>3 DEF OpenDevice, Trying, Goto
  <1>4. ASSUME NEW o \in Objects, OpenCalled(o) PROVE ReportedCanBeOpened'
    BY <1>4 DEF OpenCalled, Goto
  <1>5. ASSUME NEW o \in Objects, InitContext(o) \/ InitFails(o)
       PROVE  ReportedCanBeOpened'
    BY <1>5 DEF InitContext, InitFails, Answer, Goto
  <1>6. ASSUME NEW o \in Objects, ListDevices(o) \/ ListFails(o)
       PROVE  ReportedCanBeOpened'
    BY <1>6 DEF ListDevices, ListFails, Goto
  <1>7. ASSUME NEW o \in Objects, NoPort(o) \/ NoMatch(o)
       PROVE  ReportedCanBeOpened'
    BY <1>7 DEF NoPort, NoMatch, Answer, Goto
  <1>8. ASSUME NEW o \in Objects, WrongPort(o) PROVE ReportedCanBeOpened'
    BY <1>8 DEF WrongPort, Goto
  <1>9. ASSUME NEW o \in Objects, Match(o) PROVE ReportedCanBeOpened'
    BY <1>9 DEF Match, Answer, Goto
  <1>10. ASSUME NEW o \in Objects, Close(o) \/ Destroy(o)
       PROVE  ReportedCanBeOpened'
    BY <1>10 DEF Close, Destroy, CloseHandle, Answer, Goto
  <1>11. ASSUME NEW o \in Objects, Use(o) PROVE ReportedCanBeOpened'
    BY <1>11 DEF Use, Goto
  <1>12. ASSUME UNCHANGED deviceVars PROVE ReportedCanBeOpened'
    BY <1>12 DEF deviceVars
  <1>. QED BY <1>1, <1>2, <1>3, <1>4, <1>5, <1>6, <1>7, <1>8, <1>9, <1>10,
      <1>11, <1>12 DEF DeviceNext

(* Every step into open() notes what the application did.                  *)
LEMMA CarelessStep ==
  ASSUME DeviceTypeOK, StateInv, CarelessInv,
         [DeviceNext]_deviceVars
  PROVE  CarelessInv'
  <1> USE NoDeviceAssumption, NullIsNoHandle DEF DeviceTypeOK, StateInv,
      CarelessInv, InOpen, At, object, shared
  <1>1. ASSUME NEW o \in Objects, NEW d \in Devices, Report(o, d)
       PROVE  CarelessInv'
    BY <1>1 DEF Report, Answer, Goto
  <1>2. ASSUME NEW o \in Objects, NEW d \in Devices,
               TryFails(o, d) \/ SkipDevice(o, d)
       PROVE  CarelessInv'
    BY <1>2 DEF TryFails, SkipDevice, Trying, Goto
  <1>3. ASSUME NEW o \in Objects, NEW d \in Devices, OpenDevice(o, d)
       PROVE  CarelessInv'
    BY <1>3 DEF OpenDevice, Trying, Goto
  <1>4. ASSUME NEW o \in Objects, OpenCalled(o) PROVE CarelessInv'
    BY <1>4 DEF OpenCalled, Goto
  <1>5. ASSUME NEW o \in Objects, InitContext(o) \/ InitFails(o)
       PROVE  CarelessInv'
    BY <1>5 DEF InitContext, InitFails, Answer, Goto
  <1>6. ASSUME NEW o \in Objects, ListDevices(o) \/ ListFails(o)
       PROVE  CarelessInv'
    BY <1>6 DEF ListDevices, ListFails, Goto
  <1>7. ASSUME NEW o \in Objects, NoPort(o) \/ NoMatch(o) PROVE CarelessInv'
    BY <1>7 DEF NoPort, NoMatch, Answer, Goto
  <1>8. ASSUME NEW o \in Objects, WrongPort(o) PROVE CarelessInv'
    BY <1>8 DEF WrongPort, Goto
  <1>9. ASSUME NEW o \in Objects, Match(o) PROVE CarelessInv'
    BY <1>9 DEF Match, Answer, Goto
  <1>10. ASSUME NEW o \in Objects, Close(o) \/ Destroy(o) PROVE CarelessInv'
    BY <1>10 DEF Close, Destroy, CloseHandle, Answer, Goto
  <1>11. ASSUME NEW o \in Objects, Use(o) PROVE CarelessInv'
    BY <1>11 DEF Use, Goto
  <1>12. ASSUME UNCHANGED deviceVars PROVE CarelessInv'
    BY <1>12 DEF deviceVars
  <1>. QED BY <1>1, <1>2, <1>3, <1>4, <1>5, <1>6, <1>7, <1>8, <1>9, <1>10,
      <1>11, <1>12 DEF DeviceNext

(* Every step that drops a handle or a list is of a careless application.  *)
LEMMA LeakStep ==
  ASSUME DeviceTypeOK, StateInv, LiveInv, CarelessInv, OnlyCarelessLeaks,
      [DeviceNext]_deviceVars
  PROVE  OnlyCarelessLeaks'
  <1> USE NoDeviceAssumption, NullIsNoHandle DEF DeviceTypeOK, StateInv,
      LiveInv, CarelessInv, OnlyCarelessLeaks, InOpen, Held, At, object, shared
  <1>1. ASSUME NEW o \in Objects, NEW d \in Devices, Report(o, d)
       PROVE  OnlyCarelessLeaks'
    BY <1>1 DEF Report, Answer, Goto
  <1>2. ASSUME NEW o \in Objects, NEW d \in Devices,
               TryFails(o, d) \/ SkipDevice(o, d)
       PROVE  OnlyCarelessLeaks'
    BY <1>2 DEF TryFails, SkipDevice, Trying, Goto
  <1>3. ASSUME NEW o \in Objects, NEW d \in Devices, OpenDevice(o, d)
       PROVE  OnlyCarelessLeaks'
    BY <1>3 DEF OpenDevice, Trying, Goto
  <1>4. ASSUME NEW o \in Objects, OpenCalled(o) PROVE OnlyCarelessLeaks'
    BY <1>4 DEF OpenCalled, Goto
  <1>5. ASSUME NEW o \in Objects, InitContext(o) \/ InitFails(o)
       PROVE  OnlyCarelessLeaks'
    BY <1>5 DEF InitContext, InitFails, Answer, Goto
  <1>6. ASSUME NEW o \in Objects, ListDevices(o) \/ ListFails(o)
       PROVE  OnlyCarelessLeaks'
    BY <1>6 DEF ListDevices, ListFails, Goto
  <1>7. ASSUME NEW o \in Objects, NoPort(o) \/ NoMatch(o)
       PROVE  OnlyCarelessLeaks'
    BY <1>7 DEF NoPort, NoMatch, Answer, Goto
  <1>8. ASSUME NEW o \in Objects, WrongPort(o) PROVE OnlyCarelessLeaks'
    BY <1>8 DEF WrongPort, Goto
  <1>9. ASSUME NEW o \in Objects, Match(o) PROVE OnlyCarelessLeaks'
    BY <1>9 DEF Match, Answer, Goto
  <1>10. ASSUME NEW o \in Objects, Close(o) \/ Destroy(o)
       PROVE  OnlyCarelessLeaks'
    BY <1>10 DEF Close, Destroy, CloseHandle, Answer, Goto
  <1>11. ASSUME NEW o \in Objects, Use(o) PROVE OnlyCarelessLeaks'
    BY <1>11 DEF Use, Goto
  <1>12. ASSUME UNCHANGED deviceVars PROVE OnlyCarelessLeaks'
    BY <1>12 DEF deviceVars
  <1>. QED BY <1>1, <1>2, <1>3, <1>4, <1>5, <1>6, <1>7, <1>8, <1>9, <1>10,
      <1>11, <1>12 DEF DeviceNext

THEOREM DeviceInvariance == DeviceSpec => []DeviceInv
  <1>1. DeviceInit => DeviceInv
    <2> SUFFICES ASSUME DeviceInit PROVE DeviceInv
      OBVIOUS
    <2>1. DeviceTypeOK
      BY DEF DeviceInit, DeviceTypeOK, States, NULL
    <2>2. StateInv /\ LiveInv /\ AskedInv /\ OpenedFits /\ UntriedInv
      BY DEF DeviceInit, StateInv, LiveInv, AskedInv, OpenedFits, UntriedInv
    <2>3. ReportedCanBeOpened /\ CarelessInv /\ OnlyCarelessLeaks
      BY DEF DeviceInit, ReportedCanBeOpened, CarelessInv, InOpen,
        OnlyCarelessLeaks
    <2>. QED BY <2>1, <2>2, <2>3 DEF DeviceInv
  <1>2. DeviceInv /\ [DeviceNext]_deviceVars => DeviceInv'
    BY DeviceTypeStep, StateStep, LiveStep, AskedStep, FitsStep,
      DeviceLoopStep, RefusalStep, CarelessStep, LeakStep DEF DeviceInv
  <1>. QED BY <1>1, <1>2, PTL DEF DeviceSpec

(* The types of the objects, the handles and the context hold in every     *)
(* reachable state.                                                        *)
THEOREM DeviceTypeCorrect == DeviceSpec => []DeviceTypeOK
  BY DeviceInvariance, PTL DEF DeviceInv

(* No object holds a handle that is closed, and no two hold one handle.    *)
THEOREM ObjectsOwnTheirHandles == DeviceSpec => []HandlesAreLive
  <1>1. DeviceInv => HandlesAreLive
    BY DEF DeviceInv, LiveInv, HandlesAreLive, Held
  <1>. QED BY <1>1, DeviceInvariance, PTL

(* An open object is open on a device of its vendor and product and at its *)
(* port, which is not an FTDI device.                                      *)
THEOREM OpenObjectsFit == DeviceSpec => []OpenedFits
  BY DeviceInvariance, PTL DEF DeviceInv

(* open() refuses only if the device was not listed, a call failed on it,  *)
(* or its port had not been read.                                          *)
THEOREM RefusalsHaveAReason == DeviceSpec => []ReportedCanBeOpened
  BY DeviceInvariance, PTL DEF DeviceInv

(* Handles and lists are lost only by an application that opens an open    *)
(* object, or one without a port.                                          *)
THEOREM CarefulApplicationsLoseNothing == DeviceSpec => []OnlyCarelessLeaks
  BY DeviceInvariance, PTL DEF DeviceInv

-----------------------------------------------------------------------------
(* The objects that are about to create a context.                         *)
Creators == {o \in Objects : state[o] = "init"}

(* Every step keeps the number of contexts, those that exist and those     *)
(* that are about to be created, within the number of objects: the first   *)
(* one lets no more in.                                                    *)
LEMMA DeviceContextStep ==
  ASSUME IsFiniteSet(Objects), DeviceTypeOK, ContextInv,
         [DeviceNext]_deviceVars
  PROVE  ContextInv'
  <1>1. /\ IsFiniteSet(Creators) /\ Cardinality(Creators) \in Nat
        /\ Cardinality(Objects) \in Nat
        /\ Cardinality(Creators') \in Nat
        /\ Cardinality(Creators') <= Cardinality(Objects)
    BY FS_Subset, FS_CardinalityType DEF Creators
  <1>2. \A o \in Creators :
          Cardinality(Creators \ {o}) = Cardinality(Creators) - 1
    BY <1>1, FS_RemoveElement
  <1>3. ContextInv <=>
          /\ m_libusb_context = NULL => contexts = 0
          /\ contexts + Cardinality(Creators) <= Cardinality(Objects)
          /\ \A o \in Objects :
               state[o] \in {"list", "loop"} => m_libusb_context # NULL
    BY DEF ContextInv, Creators
  <1>4. ASSUME NEW o \in Objects, OpenCalled(o), m_libusb_context = NULL
        PROVE  ContextInv'
    <2>1. contexts' = 0 /\ m_libusb_context' = NULL
      BY <1>3, <1>4 DEF OpenCalled
    <2>2. \A p \in Objects : state'[p] \notin {"list", "loop"}
      BY <1>3, <1>4 DEF OpenCalled, Goto, DeviceTypeOK
    <2>. QED BY <1>1, <2>1, <2>2 DEF ContextInv, Creators
  <1>5. ASSUME NEW o \in Objects, InitContext(o)
        PROVE  ContextInv'
    <2>1. Creators' = Creators \ {o} /\ o \in Creators
      BY <1>5 DEF InitContext, Creators, Goto, At, DeviceTypeOK
    <2>2. contexts' = contexts + 1 /\ m_libusb_context' # NULL
      BY <1>5 DEF InitContext, DeviceTypeOK, NULL
    <2>. QED BY <1>1, <1>2, <1>3, <2>1, <2>2 DEF ContextInv, Creators,
           DeviceTypeOK
  <1>6. ASSUME NEW o \in Objects, InitFails(o)
        PROVE  ContextInv'
    <2>1. Creators' = Creators \ {o} /\ o \in Creators
      BY <1>6 DEF InitFails, Creators, Answer, Goto, At, DeviceTypeOK
    <2>2. UNCHANGED <<contexts, m_libusb_context>>
      BY <1>6 DEF InitFails, shared
    <2>3. \A p \in Objects :
            state'[p] \in {"list", "loop"} => state[p] \in {"list", "loop"}
      BY <1>6 DEF InitFails, Answer, Goto, DeviceTypeOK
    <2>. QED BY <1>1, <1>2, <1>3, <2>1, <2>2, <2>3 DEF ContextInv,
           Creators, DeviceTypeOK
  <1>7. ASSUME Creators' = Creators,
               UNCHANGED <<contexts, m_libusb_context>>,
               \A p \in Objects :
                 state'[p] \in {"list", "loop"} =>
                   m_libusb_context # NULL
        PROVE  ContextInv'
    BY <1>3, <1>7 DEF ContextInv, Creators
  <1>8. ASSUME NEW o \in Objects, OpenCalled(o), m_libusb_context # NULL
        PROVE  ContextInv'
    BY <1>7, <1>8 DEF OpenCalled, Creators, Goto, At, DeviceTypeOK
  <1>9. ASSUME NEW o \in Objects,
               \/ \E d \in Devices : \/ Report(o, d) \/ TryFails(o, d)
                                     \/ SkipDevice(o, d) \/ OpenDevice(o, d)
               \/ NoPort(o) \/ WrongPort(o) \/ Match(o) \/ NoMatch(o)
               \/ Close(o) \/ Destroy(o) \/ Use(o)
               \/ ListDevices(o) \/ ListFails(o)
        PROVE  ContextInv'
    <2>1. UNCHANGED <<contexts, m_libusb_context>>
      BY <1>9 DEF Report, TryFails, SkipDevice, OpenDevice, NoPort, WrongPort,
        Match, NoMatch, Close, Destroy, Use, ListDevices, ListFails, shared
    <2>2. \A p \in Objects :
            /\ state[p] = "init" <=> state'[p] = "init"
            /\ state'[p] \in {"list", "loop"} =>
                 state[p] \in {"list", "loop"}
      BY <1>9 DEF Report, TryFails, SkipDevice, OpenDevice, Trying, NoPort,
        WrongPort, Match, NoMatch, Close, Destroy, Use, ListDevices,
        ListFails, Answer, Goto, At, DeviceTypeOK
    <2>3. Creators' = Creators
      BY <2>2 DEF Creators
    <2>. QED BY <1>3, <1>7, <2>1, <2>2, <2>3
  <1>10. ASSUME UNCHANGED deviceVars PROVE ContextInv'
    BY <1>10 DEF ContextInv, deviceVars, object, shared
  <1>. QED BY <1>4, <1>5, <1>6, <1>8, <1>9, <1>10 DEF DeviceNext

(* However many threads race for the static context, they create at most   *)
(* one each, and none lists devices before there is one.  The applications *)
(* have finitely many objects.                                             *)
THEOREM ContextsAreBounded ==
  ASSUME IsFiniteSet(Objects)
  PROVE  DeviceSpec => []ContextIsMade
  <1>1. DeviceInit => ContextInv
    <2> SUFFICES ASSUME DeviceInit PROVE ContextInv
      OBVIOUS
    <2>1. {o \in Objects : state[o] = "init"} = {}
      BY DEF DeviceInit
    <2>. QED BY <2>1, FS_EmptySet, FS_CardinalityType DEF DeviceInit,
       ContextInv
  <1>2. DeviceInv /\ ContextInv /\ [DeviceNext]_deviceVars => ContextInv'
    BY DeviceContextStep DEF DeviceInv
  <1>3. DeviceInv /\ ContextInv => ContextIsMade
    <2>1. Cardinality({o \in Objects : state[o] = "init"}) \in Nat
      BY FS_Subset, FS_CardinalityType
    <2>. QED BY <2>1, FS_CardinalityType DEF DeviceInv, DeviceTypeOK,
       ContextInv,
           ContextIsMade
  <1>. QED BY <1>1, <1>2, <1>3, DeviceInvariance, PTL DEF DeviceSpec
=============================================================================
