------------------------ MODULE EthernetSearchProofs ------------------------
(***************************************************************************)
(* What is proved of EthernetSearch for any entries, adapters, requests    *)
(* and hosts: an adapter is searched through exactly when it was complete; *)
(* the network of an interface belongs to its address; and each host is    *)
(* found as often as identifications and interfaces lead to it.            *)
(*                                                                         *)
(* The inductive invariant IInv says, for each place of the function, that *)
(* an interface has what the entries of its name gave it and nothing else, *)
(* and that no name has two interfaces, by which the interface that has    *)
(* the MAC address is the one that has the IP address.                     *)
(*                                                                         *)
(* FieldsInv says that each network is whole unless an entry failed, and   *)
(* SearchInv that the result counts the pairs the loops have passed.  The  *)
(* step of a scan needs both: the host indices of a whole network are its  *)
(* inner addresses, which rests on the theorems about addresses.           *)
(***************************************************************************)
EXTENDS EthernetSearch, AddressProofs, SequenceTheorems, TLAPS

(* A sequence is one of its own elements.                                  *)
LEMMA OwnElements ==
  ASSUME NEW T, NEW s \in Seq(T)
  PROVE  s \in Seq(Elements(s)) /\ Len(s) \in Nat /\ DOMAIN s = 1..Len(s)
<1>1. Len(s) \in Nat /\ DOMAIN s = 1..Len(s) /\ s \in [1..Len(s) -> T]
  BY LenProperties
<1>2. s \in [1..Len(s) -> Elements(s)]
  BY <1>1 DEF Elements
<1>3. QED
  BY <1>1, <1>2, SeqDef

(* A mask is an address, and neither a nullptr nor a refusal.              *)
LEMMA MaskIsNoRefusal ==
  ASSUME NEW v \in {4, 6}, NEW p \in 1..Width(v)
  PROVE  /\ Mask(v, p) \in Addresses(v)
         /\ Mask(v, p) \notin {Null, Refused}
<1>1. Mask(v, p) \in Addresses(v)
  BY MaskIs
<1>2. v = 4 \/ v = 6
  OBVIOUS
<1>3. QED
  BY <1>1, <1>2, RefusedAssumption, InputsAssumption

-----------------------------------------------------------------------------
(* find_or_create_interface() returns the one interface of a name, and     *)
(* adds at most this one.                                                  *)
LEMMA Creation ==
  ASSUME ListInv, NEW name \in Names,
         NEW list, list = FindOrCreate(name),
         NEW k, k = Found(list, name)
  PROVE  /\ list \in Seq(Elements(list))
         /\ Len(interfaces) \in Nat /\ Len(list) \in Nat
         /\ Len(interfaces) <= Len(list)
         /\ \A l \in 1..Len(interfaces) : list[l] = interfaces[l]
         /\ \A l \in 1..Len(list) :
              l \in 1..Len(interfaces) \/ list[l] = NewInterface(name)
         /\ \A l \in 1..Len(list) : list[l].name \in Names
         /\ \A l, m \in 1..Len(list) : list[l].name = list[m].name => l = m
         /\ k \in 1..Len(list) /\ list[k].name = name
<1> DEFINE n == Len(interfaces)
<1>1. interfaces \in Seq(Elements(interfaces)) /\ n \in Nat
  BY LenProperties DEF ListInv
<1>2. /\ \A l \in 1..n : interfaces[l].name \in Names
      /\ \A l, m \in 1..n : interfaces[l].name = interfaces[m].name => l = m
  BY DEF ListInv
<1>3. NewInterface(name).name = name
  BY DEF NewInterface
<1>4. ASSUME NEW l \in 1..Len(list), Len(list) \in Nat, list[l].name = name,
             \A m, o \in 1..Len(list) : list[m].name = list[o].name => m = o
      PROVE  k \in 1..Len(list) /\ list[k].name = name
  <2>1. \A m \in 1..(l - 1) : list[m].name # name
    <3>1. ASSUME NEW m \in 1..(l - 1) PROVE m \in 1..Len(list) /\ m # l
      BY <1>4
    <3>2. QED
      BY <1>4, <3>1
  <2>2. QED
    BY <1>4, <2>1 DEF Found
<1>5. CASE \E l \in 1..n : interfaces[l].name = name
  <2>1. list = interfaces
    BY <1>5 DEF FindOrCreate
  <2>2. k \in 1..n /\ list[k].name = name
    BY <1>1, <1>2, <1>4, <1>5, <2>1
  <2>3. QED
    BY <1>1, <1>2, <2>1, <2>2
<1>6. CASE ~ \E l \in 1..n : interfaces[l].name = name
  <2> DEFINE T == Elements(interfaces) \cup {NewInterface(name)}
  <2>1. list = Append(interfaces, NewInterface(name))
    BY <1>6 DEF FindOrCreate
  <2>2. interfaces \in Seq(T) /\ NewInterface(name) \in T
    <3>1. interfaces \in [1..n -> T]
      BY <1>1, LenProperties DEF Elements
    <3>2. QED
      BY <1>1, <3>1, SeqDef
  <2>3. /\ list \in Seq(T) /\ Len(list) = n + 1
        /\ \A l \in 1..n : list[l] = interfaces[l]
        /\ list[n + 1] = NewInterface(name)
    <3> HIDE DEF T
    <3>1. QED
      BY <2>1, <2>2, AppendProperties
  <2>4. list \in Seq(Elements(list))
    <3> HIDE DEF T
    <3>1. QED
      BY <2>3, OwnElements
  <2>5. \A l \in 1..Len(list) : l \in 1..n \/ l = n + 1
    BY <1>1, <2>3
  <2>6. \A l \in 1..Len(list) : list[l].name \in Names
    BY <1>2, <1>3, <2>3, <2>5
  <2>7. \A l, m \in 1..Len(list) : list[l].name = list[m].name => l = m
    BY <1>2, <1>3, <1>6, <2>3, <2>5
  <2>8. n + 1 \in 1..Len(list) /\ Len(list) \in Nat
    BY <1>1, <2>3
  <2>9. k \in 1..Len(list) /\ list[k].name = name
    BY <1>3, <1>4, <2>3, <2>7, <2>8
  <2>10. QED
    BY <1>1, <2>3, <2>4, <2>5, <2>6, <2>7, <2>8, <2>9
<1>7. QED
  BY <1>5, <1>6

(* An interface that has the name of the entry is found or created, and    *)
(* replaced; the others stay.                                              *)
LEMMA Update ==
  ASSUME ListInv, NEW name \in Names,
         NEW list, list = FindOrCreate(name),
         NEW k, k = Found(list, name),
         NEW interface, interface.name = name,
         interfaces' = [list EXCEPT ![k] = interface]
  PROVE  /\ ListInv'
         /\ k \in 1..Len(interfaces') /\ interfaces'[k] = interface
         /\ \/ list[k] = NewInterface(name)
            \/ k \in 1..Len(interfaces) /\ list[k] = interfaces[k]
         /\ \A l \in 1..Len(interfaces') :
              l # k => /\ l \in 1..Len(interfaces)
                       /\ interfaces'[l] = interfaces[l]
                       /\ interfaces[l].name # name
         /\ \A l \in 1..Len(interfaces) :
              /\ l \in 1..Len(interfaces')
              /\ l = k => list[k] = interfaces[k]
<1>1. /\ list \in Seq(Elements(list))
      /\ Len(interfaces) \in Nat /\ Len(list) \in Nat
      /\ Len(interfaces) <= Len(list)
      /\ \A l \in 1..Len(interfaces) : list[l] = interfaces[l]
      /\ \A l \in 1..Len(list) :
           l \in 1..Len(interfaces) \/ list[l] = NewInterface(name)
      /\ \A l \in 1..Len(list) : list[l].name \in Names
      /\ \A l, m \in 1..Len(list) : list[l].name = list[m].name => l = m
      /\ k \in 1..Len(list) /\ list[k].name = name
  BY Creation
<1>2. /\ interfaces' \in Seq(Elements(interfaces'))
      /\ Len(interfaces') = Len(list)
      /\ interfaces'[k] = interface
      /\ \A l \in 1..Len(list) : l # k => interfaces'[l] = list[l]
  <2> DEFINE T == Elements(list) \cup {interface}
  <2>1. list \in [1..Len(list) -> Elements(list)]
    BY <1>1, LenProperties
  <2>2. interfaces' \in [1..Len(list) -> T]
    BY <2>1
  <2>3. interfaces' \in Seq(T)
    BY <1>1, <2>2, SeqDef
  <2>4. DOMAIN interfaces' = 1..Len(list)
    BY <2>2
  <2> HIDE DEF T
  <2>5. Len(interfaces') = Len(list)
    BY <1>1, <2>3, <2>4, LenProperties
  <2>6. interfaces' \in Seq(Elements(interfaces'))
    BY <2>3, OwnElements
  <2>7. QED
    BY <1>1, <2>1, <2>5, <2>6
<1>3. \A l \in 1..Len(list) : interfaces'[l].name = list[l].name
  BY <1>1, <1>2
<1>4. ListInv'
  <2>1. \A l \in 1..Len(interfaces') : interfaces'[l].name \in Names
    BY <1>1, <1>2, <1>3
  <2>2. \A l, m \in 1..Len(interfaces') :
          interfaces'[l].name = interfaces'[m].name => l = m
    BY <1>1, <1>2, <1>3
  <2>3. Elements(interfaces)' = Elements(interfaces')
    BY DEF Elements
  <2>4. QED
    BY <1>2, <2>1, <2>2, <2>3 DEF ListInv
<1>5. ASSUME NEW l \in 1..Len(interfaces'), l # k
      PROVE  /\ l \in 1..Len(interfaces)
             /\ interfaces'[l] = interfaces[l]
             /\ interfaces[l].name # name
  <2>1. l \in 1..Len(list) /\ list[l].name # name
    BY <1>1, <1>2, <1>5
  <2>2. NewInterface(name).name = name
    BY DEF NewInterface
  <2>3. l \in 1..Len(interfaces)
    BY <1>1, <2>1, <2>2
  <2>4. QED
    BY <1>1, <1>2, <1>5, <2>1, <2>3
<1>6. \A l \in 1..Len(interfaces) : l \in 1..Len(interfaces')
  BY <1>1, <1>2
<1>7. QED
  BY <1>1, <1>2, <1>4, <1>5, <1>6

(* What an entry that is read adds to what was read.                       *)
LEMMA Remembered ==
  ASSUME NEW entry, seen' = seen \cup {entry}, NEW name
  PROVE  /\ HasMac(name)' <=>
              \/ HasMac(name)
              \/ entry.name = name /\ entry.family = "packet"
                   /\ entry.mac = Mac
         /\ (ZeroMac \in Macs(name))' <=>
              \/ ZeroMac \in Macs(name)
              \/ entry.name = name /\ entry.family = "packet"
                   /\ entry.mac = ZeroMac
         /\ HasAddress(name)' <=>
              \/ HasAddress(name)
              \/ entry.name = name /\ entry.family = "ip"
         /\ \A other : other \in Of(name, "adapter")' <=>
              \/ other \in Of(name, "adapter")
              \/ other = entry /\ entry.name = name
                   /\ entry.family = "adapter"
<1>1. ASSUME NEW other, NEW family
      PROVE  other \in Of(name, family)' <=>
               \/ other \in Of(name, family)
               \/ other = entry /\ entry.name = name /\ entry.family = family
  BY DEF Of
<1>2. ASSUME NEW mac
      PROVE  (mac \in Macs(name))' <=>
               \/ mac \in Macs(name)
               \/ entry.name = name /\ entry.family = "packet"
                    /\ entry.mac = mac
  <2>1. (mac \in Macs(name))' <=>
          \E other \in Of(name, "packet")' : other.mac = mac
    BY DEF Macs
  <2>2. mac \in Macs(name) <=>
          \E other \in Of(name, "packet") : other.mac = mac
    BY DEF Macs
  <2>3. QED
    BY <1>1, <2>1, <2>2
<1>3. HasAddress(name)' <=> \E other : other \in Of(name, "ip")'
  BY DEF HasAddress
<1>4. HasAddress(name) <=> \E other : other \in Of(name, "ip")
  BY DEF HasAddress
<1>5. HasAddress(name)' <=>
        \/ HasAddress(name)
        \/ entry.name = name /\ entry.family = "ip"
  BY <1>1, <1>3, <1>4
<1>6. QED
  BY <1>1, <1>2, <1>5 DEF HasMac

-----------------------------------------------------------------------------
(* An entry with a hardware address.                                       *)
LEMMA ReadMacKeeps ==
  ASSUME IInv, NEW entry \in Entries, ReadMac(entry)
  PROVE  ListInv' /\ PartsInv' /\ EntriesInv'
<1> DEFINE name == entry.name
           list == FindOrCreate(name)
           k    == Found(list, name)
           interface == IF entry.mac = NotMac THEN list[k]
                        ELSE WithMac(list[k], entry.mac)
<1>1. /\ pc = "listing" /\ pc' = "listing" /\ at' = at
      /\ name \in Names /\ entry.family = "packet"
      /\ seen' = seen \cup {entry}
      /\ entry.mac \in {Mac, ZeroMac, NotMac}
      /\ interfaces' = IF entry.mac = NotMac THEN list
                       ELSE [list EXCEPT ![k] = WithMac(list[k], entry.mac)]
  BY EntriesAssumption DEF ReadMac, Read, Take
<1>2. ListInv /\ PartsInv /\ EntriesInv
  BY DEF IInv
<1>3. k \in 1..Len(list) /\ list[k].name = name /\ list \in Seq(Elements(list))
  BY <1>1, <1>2, Creation
<1>4. /\ interface.name = name /\ interface.ipv4 = list[k].ipv4
      /\ interface.ipv6 = list[k].ipv6
      /\ interface.mac = IF entry.mac = NotMac THEN list[k].mac ELSE entry.mac
  BY <1>3 DEF WithMac
<1>5. interfaces' = [list EXCEPT ![k] = interface]
  <2>1. list = [list EXCEPT ![k] = list[k]]
    <3>1. list \in [1..Len(list) -> Elements(list)]
      BY <1>3, LenProperties
    <3>2. QED
      BY <1>3, <3>1
  <2>2. QED
    BY <1>1, <2>1
<1> HIDE DEF list, k, interface
<1>6. /\ ListInv'
      /\ k \in 1..Len(interfaces') /\ interfaces'[k] = interface
      /\ \/ list[k] = NewInterface(name)
         \/ k \in 1..Len(interfaces) /\ list[k] = interfaces[k]
      /\ \A l \in 1..Len(interfaces') :
           l # k => /\ l \in 1..Len(interfaces)
                    /\ interfaces'[l] = interfaces[l]
                    /\ interfaces[l].name # name
      /\ \A l \in 1..Len(interfaces) :
           /\ l \in 1..Len(interfaces')
           /\ l = k => list[k] = interfaces[k]
  <2>1. list = FindOrCreate(name) /\ k = Found(list, name)
    BY DEF list, k
  <2>2. QED
    BY <1>1, <1>2, <1>4, <1>5, <2>1, Update
<1>7. ~Addressed(NewInterface(name)) /\ NewInterface(name).mac = ZeroMac
  BY DEF Addressed, NewInterface, NoNetwork
<1>8. Addressed(interface) <=> Addressed(list[k])
  BY <1>4 DEF Addressed
<1>9. \A n : /\ HasAddress(n)' <=> HasAddress(n)
             /\ HasMac(n) => HasMac(n)'
             /\ n # name => (HasMac(n)' <=> HasMac(n))
             /\ ZeroMac \in Macs(n) => (ZeroMac \in Macs(n))'
  BY <1>1, Remembered
<1>10. (HasMac(name)' <=> HasMac(name) \/ entry.mac = Mac)
       /\ (entry.mac = ZeroMac => (ZeroMac \in Macs(name))')
  BY <1>1, Remembered
<1>11. PartsInv'
  <2>1. ASSUME NEW n \in Names, NEW l \in 1..Len(interfaces'),
               interfaces'[l].name = n
        PROVE  /\ interfaces'[l].mac # ZeroMac => HasMac(n)'
               /\ Addressed(interfaces'[l]) => HasAddress(n)'
    <3>1. CASE l # k
      <4>1. l \in 1..Len(interfaces) /\ interfaces'[l] = interfaces[l]
        BY <1>6, <3>1
      <4>2. /\ interfaces[l].mac # ZeroMac => HasMac(n)
            /\ Addressed(interfaces[l]) => HasAddress(n)
        BY <1>1, <1>2, <2>1, <4>1 DEF PartsInv
      <4>3. QED
        BY <1>9, <4>1, <4>2
    <3>2. CASE l = k
      <4>1. interfaces'[l] = interface /\ n = name
        BY <1>4, <1>6, <2>1, <3>2
      <4>2. Addressed(interface) => HasAddress(name)
        BY <1>1, <1>2, <1>3, <1>6, <1>7, <1>8 DEF PartsInv
      <4>3. list[k].mac # ZeroMac => HasMac(name)
        BY <1>1, <1>2, <1>3, <1>6, <1>7 DEF PartsInv
      <4>4. interface.mac # ZeroMac => HasMac(name)'
        BY <1>1, <1>4, <1>9, <1>10, <4>3
      <4>5. QED
        BY <1>9, <4>1, <4>2, <4>4
    <3>3. QED
      BY <3>1, <3>2
  <2>2. QED
    BY <2>1 DEF PartsInv, Addressed
<1>12. EntriesInv'
  <2>1. ASSUME NEW n \in Names, HasMac(n)', (ZeroMac \notin Macs(n))'
        PROVE  \E l \in 1..Len(interfaces') :
                 interfaces'[l].name = n /\ interfaces'[l].mac # ZeroMac
    <3>1. ZeroMac \notin Macs(n)
      BY <1>9, <2>1
    <3>2. CASE n = name /\ entry.mac = Mac
      BY <1>4, <1>6, <3>2, InputsAssumption
    <3>3. CASE n = name /\ entry.mac # Mac
      <4>1. HasMac(n) /\ entry.mac = NotMac
        BY <1>1, <1>10, <2>1, <3>3
      <4>2. PICK l \in 1..Len(interfaces) :
              interfaces[l].name = n /\ interfaces[l].mac # ZeroMac
        BY <1>1, <1>2, <3>1, <4>1 DEF EntriesInv
      <4>3. l = k
        BY <1>6, <3>3, <4>2
      <4>4. QED
        BY <1>4, <1>6, <3>3, <4>1, <4>2, <4>3
    <3>4. CASE n # name
      <4>1. HasMac(n)
        BY <1>9, <2>1, <3>4
      <4>2. PICK l \in 1..Len(interfaces) :
              interfaces[l].name = n /\ interfaces[l].mac # ZeroMac
        BY <1>1, <1>2, <3>1, <4>1 DEF EntriesInv
      <4>3. l # k
        BY <1>3, <1>6, <3>4, <4>2
      <4>4. QED
        BY <1>6, <4>2, <4>3
    <3>5. QED
      BY <3>2, <3>3, <3>4
  <2>2. ASSUME NEW n \in Names, HasAddress(n)'
        PROVE  \E l \in 1..Len(interfaces') :
                 interfaces'[l].name = n /\ Addressed(interfaces'[l])
    <3>1. PICK l \in 1..Len(interfaces) :
            interfaces[l].name = n /\ Addressed(interfaces[l])
      BY <1>1, <1>2, <1>9, <2>2 DEF EntriesInv
    <3>2. CASE l = k
      BY <1>3, <1>4, <1>6, <1>8, <3>1, <3>2
    <3>3. CASE l # k
      BY <1>6, <3>1, <3>3
    <3>4. QED
      BY <3>2, <3>3
  <2>3. at' = 1
    BY <1>1, <1>2 DEF EntriesInv
  <2>4. QED
    BY <2>1, <2>2, <2>3 DEF EntriesInv, Addressed
<1>13. QED
  BY <1>6, <1>11, <1>12

(* An entry with an IP address.                                            *)
LEMMA ReadAddressKeeps ==
  ASSUME IInv, NEW entry \in Entries, ReadAddress(entry)
  PROVE  ListInv' /\ PartsInv' /\ EntriesInv'
<1> DEFINE name == entry.name
           list == FindOrCreate(name)
           k    == Found(list, name)
           interface == WithAddress(list[k], entry.address, entry.mask)
<1>1. /\ pc = "listing" /\ pc' = "listing" /\ at' = at
      /\ name \in Names /\ entry.family = "ip"
      /\ seen' = seen \cup {entry}
      /\ entry.address \in Addresses(4) \cup Addresses(6)
      /\ interfaces' = [list EXCEPT ![k] = interface]
  BY EntriesAssumption DEF ReadAddress, Read, Take
<1>2. ListInv /\ PartsInv /\ EntriesInv
  BY DEF IInv
<1>3. k \in 1..Len(list) /\ list[k].name = name
  BY <1>1, <1>2, Creation
<1>4. /\ interface.name = name /\ interface.mac = list[k].mac
      /\ Addressed(interface)
  <2>1. entry.address # Null
    BY <1>1, InputsAssumption
  <2>2. ASSUME NEW network
        PROVE  Configured(network, entry.address, entry.mask).address # Null
    BY <2>1 DEF Configured
  <2>3. interface.name = name /\ interface.mac = list[k].mac
    BY <1>3 DEF WithAddress
  <2>4. interface.ipv4.address # Null \/ interface.ipv6.address # Null
    BY <2>2 DEF WithAddress
  <2>5. QED
    BY <2>3, <2>4 DEF Addressed
<1> HIDE DEF list, k, interface
<1>5. /\ ListInv'
      /\ k \in 1..Len(interfaces') /\ interfaces'[k] = interface
      /\ \/ list[k] = NewInterface(name)
         \/ k \in 1..Len(interfaces) /\ list[k] = interfaces[k]
      /\ \A l \in 1..Len(interfaces') :
           l # k => /\ l \in 1..Len(interfaces)
                    /\ interfaces'[l] = interfaces[l]
                    /\ interfaces[l].name # name
      /\ \A l \in 1..Len(interfaces) :
           /\ l \in 1..Len(interfaces')
           /\ l = k => list[k] = interfaces[k]
  <2>1. list = FindOrCreate(name) /\ k = Found(list, name)
    BY DEF list, k
  <2>2. QED
    BY <1>1, <1>2, <1>4, <2>1, Update
<1>6. NewInterface(name).mac = ZeroMac
  BY DEF NewInterface
<1>7. \A n : /\ HasAddress(n)' <=> HasAddress(n) \/ n = name
             /\ HasMac(n)' <=> HasMac(n)
             /\ (ZeroMac \in Macs(n))' <=> ZeroMac \in Macs(n)
  BY <1>1, Remembered
<1>8. PartsInv'
  <2>1. ASSUME NEW n \in Names, NEW l \in 1..Len(interfaces'),
               interfaces'[l].name = n
        PROVE  /\ interfaces'[l].mac # ZeroMac => HasMac(n)'
               /\ Addressed(interfaces'[l]) => HasAddress(n)'
    <3>1. CASE l # k
      <4>1. l \in 1..Len(interfaces) /\ interfaces'[l] = interfaces[l]
        BY <1>5, <3>1
      <4>2. /\ interfaces[l].mac # ZeroMac => HasMac(n)
            /\ Addressed(interfaces[l]) => HasAddress(n)
        BY <1>1, <1>2, <2>1, <4>1 DEF PartsInv
      <4>3. QED
        BY <1>7, <4>1, <4>2
    <3>2. CASE l = k
      <4>1. interfaces'[l] = interface /\ n = name
        BY <1>4, <1>5, <2>1, <3>2
      <4>2. list[k].mac # ZeroMac => HasMac(name)
        BY <1>1, <1>2, <1>3, <1>5, <1>6 DEF PartsInv
      <4>3. QED
        BY <1>4, <1>7, <4>1, <4>2
    <3>3. QED
      BY <3>1, <3>2
  <2>2. QED
    BY <2>1 DEF PartsInv, Addressed
<1>9. EntriesInv'
  <2>1. ASSUME NEW n \in Names, HasMac(n)', (ZeroMac \notin Macs(n))'
        PROVE  \E l \in 1..Len(interfaces') :
                 interfaces'[l].name = n /\ interfaces'[l].mac # ZeroMac
    <3>1. PICK l \in 1..Len(interfaces) :
            interfaces[l].name = n /\ interfaces[l].mac # ZeroMac
      BY <1>1, <1>2, <1>7, <2>1 DEF EntriesInv
    <3>2. CASE l = k
      BY <1>3, <1>4, <1>5, <3>1, <3>2
    <3>3. CASE l # k
      BY <1>5, <3>1, <3>3
    <3>4. QED
      BY <3>2, <3>3
  <2>2. ASSUME NEW n \in Names, HasAddress(n)'
        PROVE  \E l \in 1..Len(interfaces') :
                 interfaces'[l].name = n /\ Addressed(interfaces'[l])
    <3>1. CASE n = name
      BY <1>4, <1>5, <3>1
    <3>2. CASE n # name
      <4>1. PICK l \in 1..Len(interfaces) :
              interfaces[l].name = n /\ Addressed(interfaces[l])
        BY <1>1, <1>2, <1>7, <2>2, <3>2 DEF EntriesInv
      <4>2. l # k
        BY <1>3, <1>5, <3>2, <4>1
      <4>3. QED
        BY <1>5, <4>1, <4>2
    <3>3. QED
      BY <3>1, <3>2
  <2>3. at' = 1
    BY <1>1, <1>2 DEF EntriesInv
  <2>4. QED
    BY <2>1, <2>2, <2>3 DEF EntriesInv, Addressed
<1>10. QED
  BY <1>5, <1>8, <1>9

(* An entry of another adapter, or of another family.                      *)
LEMMA SkipKeeps ==
  ASSUME IInv, NEW entry \in Entries, Skip(entry)
  PROVE  ListInv' /\ PartsInv' /\ EntriesInv'
<1>1. /\ pc = "listing" /\ pc' = "listing" /\ at' = at
      /\ entry.name \notin Names \/ entry.family = "other"
      /\ seen' = seen \cup {entry} /\ interfaces' = interfaces
  BY DEF Skip, Read, Take
<1>2. ListInv /\ PartsInv /\ EntriesInv
  BY DEF IInv
<1>3. ASSUME NEW n \in Names
      PROVE  /\ HasAddress(n)' <=> HasAddress(n)
             /\ HasMac(n)' <=> HasMac(n)
             /\ (ZeroMac \in Macs(n))' <=> ZeroMac \in Macs(n)
  BY <1>1, Remembered
<1>4. ListInv'
  BY <1>1, <1>2 DEF ListInv, Elements
<1>5. PartsInv'
  BY <1>1, <1>2, <1>3 DEF PartsInv, Addressed
<1>6. EntriesInv'
  BY <1>1, <1>2, <1>3 DEF EntriesInv, Addressed
<1>7. QED
  BY <1>4, <1>5, <1>6

(* The end of the list: an adapter that was given a MAC address and an IP  *)
(* address was given both in its one interface.                            *)
LEMMA EndListKeeps ==
  ASSUME IInv, EndList
  PROVE  ListInv' /\ PartsInv' /\ RemovalInv'
<1>1. /\ pc = "listing" /\ pc' = "removing"
      /\ seen' = seen /\ interfaces' = interfaces /\ at' = at
  BY DEF EndList, listing
<1>2. ListInv /\ PartsInv /\ EntriesInv
  BY DEF IInv
<1>3. ASSUME NEW n
      PROVE  /\ HasAddress(n)' <=> HasAddress(n)
             /\ HasMac(n)' <=> HasMac(n)
             /\ (ZeroMac \in Macs(n))' <=> ZeroMac \in Macs(n)
  BY <1>1 DEF HasAddress, HasMac, Macs, Of
<1>4. ListInv'
  BY <1>1, <1>2 DEF ListInv, Elements
<1>5. PartsInv'
  BY <1>1, <1>2, <1>3 DEF PartsInv, Addressed
<1>6. ASSUME NEW n \in Names,
             HasMac(n), ZeroMac \notin Macs(n), HasAddress(n)
      PROVE  \E l \in 1..Len(interfaces) :
               interfaces[l].name = n /\ ~Incomplete(interfaces[l])
  <2>1. PICK l \in 1..Len(interfaces) :
          interfaces[l].name = n /\ interfaces[l].mac # ZeroMac
    BY <1>1, <1>2, <1>6 DEF EntriesInv
  <2>2. PICK m \in 1..Len(interfaces) :
          interfaces[m].name = n /\ Addressed(interfaces[m])
    BY <1>1, <1>2, <1>6 DEF EntriesInv
  <2>3. l = m
    BY <1>2, <2>1, <2>2 DEF ListInv
  <2>4. QED
    BY <2>1, <2>2, <2>3 DEF Incomplete, Addressed
<1>7. at = 1 /\ Len(interfaces) \in Nat
  BY <1>1, <1>2, LenProperties DEF EntriesInv, ListInv
<1>8. RemovalInv'
  BY <1>1, <1>3, <1>6, <1>7 DEF RemovalInv, Incomplete
<1>9. QED
  BY <1>4, <1>5, <1>8

-----------------------------------------------------------------------------
(* The first address of a version is one of the adapter's.                 *)
LEMMA UnicastIs ==
  ASSUME NEW adapter \in Entries, adapter.family = "adapter",
         NEW version \in {4, 6},
         NEW first, first = Unicast(adapter, version)
  PROVE  \/ first.address = Null /\ first.prefix = 0
         \/ /\ first.address \in Addresses(version)
            /\ first.address # Null /\ adapter.unicast # <<>>
<1> DEFINE A == [address : Addresses(4) \cup Addresses(6), prefix : Nat]
           unicast == adapter.unicast
           own == {k \in 1..Len(unicast) :
                     unicast[k].address.version = version}
<1>1. unicast \in Seq(A)
  BY EntriesAssumption
<1>2. unicast \in [1..Len(unicast) -> A] /\ Len(unicast) \in Nat
  <2> HIDE DEF A
  <2>1. QED
    BY <1>1, LenProperties
<1>3. CASE own = {}
  BY <1>3 DEF Unicast
<1>4. CASE own # {}
  <2> DEFINE k == CHOOSE n \in own : \A m \in own : n <= m
  <2>1. own \in SUBSET Nat
    BY <1>2
  <2>2. \E n \in own : \A m \in own : n <= m
    <3> HIDE DEF own
    <3>1. QED
      BY <1>4, <2>1, LeastNumber
  <2>3. k \in own
    <3> HIDE DEF own
    <3>1. QED
      BY <2>2
  <2>4. first = unicast[k]
    BY <1>4 DEF Unicast
  <2> HIDE DEF k
  <2>5. /\ k \in 1..Len(unicast) /\ first \in A
        /\ first.address.version = version
    BY <1>2, <2>3, <2>4
  <2>6. first.address \in Addresses(version) /\ first.address # Null
    <3>1. PICK v \in {4, 6} : first.address \in Addresses(v)
      BY <2>5
    <3>2. v = version
      BY <2>5, <3>1, AddressIs
    <3>3. QED
      BY <2>5, <3>1, <3>2, InputsAssumption
  <2>7. unicast # <<>>
    <3>1. 1..0 = {} /\ Len(<<>>) = 0
      OBVIOUS
    <3>2. QED
      BY <2>5, <3>1
  <2>8. QED
    BY <2>6, <2>7
<1>5. QED
  BY <1>3, <1>4

(* The function keeps an adapter of the right name exactly when the        *)
(* adapter is complete.                                                    *)
LEMMA UsableIsComplete ==
  ASSUME NEW adapter \in Entries, adapter.family = "adapter"
  PROVE  IsUsable(adapter) <=> adapter.name \in Names /\ Complete(adapter)
<1>1. ASSUME NEW version \in {4, 6},
             NEW first, first = Unicast(adapter, version)
      PROVE  /\ NetworkOf(adapter, version).mask # Null <=>
                  ValidPrefix(version, first.prefix)
             /\ ValidPrefix(version, first.prefix) => adapter.unicast # <<>>
  <2>1. CASE first.address = Null /\ first.prefix = 0
    <3>1. NetworkOf(adapter, version).mask = Null
      BY <1>1, <2>1 DEF NetworkOf
    <3>2. ~ValidPrefix(version, first.prefix)
      <4>1. 0 \notin 1..Width(version)
        OBVIOUS
      <4>2. QED
        BY <2>1, <4>1 DEF ValidPrefix
    <3>3. QED
      BY <3>1, <3>2
  <2>2. CASE first.address # Null /\ adapter.unicast # <<>>
    <3>1. CASE ValidPrefix(version, first.prefix)
      <4>1. Mask(version, first.prefix) \notin {Null, Refused}
        BY <3>1, MaskIsNoRefusal DEF ValidPrefix
      <4>2. NetworkOf(adapter, version).mask = Mask(version, first.prefix)
        BY <1>1, <2>2, <4>1 DEF NetworkOf
      <4>3. QED
        BY <2>2, <3>1, <4>1, <4>2
    <3>2. CASE ~ValidPrefix(version, first.prefix)
      <4>1. Mask(version, first.prefix) = Refused
        BY <3>2 DEF Mask
      <4>2. NetworkOf(adapter, version).mask = Null
        BY <1>1, <2>2, <4>1 DEF NetworkOf
      <4>3. QED
        BY <3>2, <4>2
    <3>3. QED
      BY <3>1, <3>2
  <2>3. QED
    BY <1>1, <2>1, <2>2, UnicastIs
<1>2. \A version \in {4, 6} :
        LET first == Unicast(adapter, version)
        IN  /\ NetworkOf(adapter, version).mask # Null <=>
                 ValidPrefix(version, first.prefix)
            /\ ValidPrefix(version, first.prefix) => adapter.unicast # <<>>
  BY <1>1
<1>3. QED
  BY <1>2 DEF IsUsable, Complete

(* An adapter of Windows.                                                  *)
LEMMA ReadAdapterKeeps ==
  ASSUME IInv, NEW adapter \in Entries, ReadAdapter(adapter)
  PROVE  /\ ListInv' /\ AdaptersInv'
         /\ \A k \in 1..Len(interfaces') :
              \/ k \in 1..Len(interfaces) /\ interfaces'[k] = interfaces[k]
              \/ interfaces'[k] = [name |-> adapter.name,
                                  mac |-> adapter.mac,
                                  ipv4 |-> NetworkOf(adapter, 4),
                                  ipv6 |-> NetworkOf(adapter, 6)]
<1> DEFINE name == adapter.name
           interface == [name |-> adapter.name, mac |-> adapter.mac,
                         ipv4 |-> NetworkOf(adapter, 4),
                         ipv6 |-> NetworkOf(adapter, 6)]
           n == Len(interfaces)
<1>1. /\ pc = "adapters" /\ pc' = "adapters"
      /\ adapter.family = "adapter"
      /\ \A other \in seen : other.name # name
      /\ seen' = seen \cup {adapter}
      /\ interfaces' = IF ~IsUsable(adapter) THEN interfaces
                       ELSE Append(interfaces, interface)
  BY DEF ReadAdapter, Take
<1>2. ListInv /\ AdaptersInv /\ interface.name = name
  BY DEF IInv
<1> HIDE DEF interface
<1>3. IsUsable(adapter) <=> name \in Names /\ Complete(adapter)
  BY <1>1, UsableIsComplete
<1>4. Of(name, "adapter") = {}
  BY <1>1 DEF Of
<1>5. /\ interfaces \in Seq(Elements(interfaces)) /\ n \in Nat
      /\ \A k \in 1..n : interfaces[k].name \in Names
      /\ \A k, l \in 1..n : interfaces[k].name = interfaces[l].name => k = l
  BY <1>2, LenProperties DEF ListInv
<1>6. \A k \in 1..n : interfaces[k].name # name
  BY <1>1, <1>2, <1>4, <1>5 DEF AdaptersInv, Kept
<1>7. CASE IsUsable(adapter)
  <2> DEFINE T == Elements(interfaces) \cup {interface}
  <2>1. interfaces \in Seq(T) /\ interface \in T
    <3>1. interfaces \in [1..n -> T]
      BY <1>5, LenProperties DEF Elements
    <3>2. QED
      BY <1>5, <3>1, SeqDef
  <2>2. /\ interfaces' \in Seq(T) /\ Len(interfaces') = n + 1
        /\ \A l \in 1..n : interfaces'[l] = interfaces[l]
        /\ interfaces'[n + 1] = interface
    <3> HIDE DEF T
    <3>1. QED
      BY <1>1, <1>7, <2>1, AppendProperties
  <2>3. interfaces' \in Seq(Elements(interfaces'))
    <3> HIDE DEF T
    <3>1. QED
      BY <2>2, OwnElements
  <2>4. \A l \in 1..Len(interfaces') : l \in 1..n \/ l = n + 1
    BY <1>5, <2>2
  <2>5. \A l \in 1..Len(interfaces') : interfaces'[l].name \in Names
    BY <1>2, <1>3, <1>5, <1>7, <2>2, <2>4
  <2>6. \A k, l \in 1..Len(interfaces') :
          interfaces'[k].name = interfaces'[l].name => k = l
    BY <1>2, <1>5, <1>6, <2>2, <2>4
  <2>7. ListInv'
    <3>1. Elements(interfaces)' = Elements(interfaces')
      BY DEF Elements
    <3>2. QED
      BY <2>3, <2>5, <2>6, <3>1 DEF ListInv
  <2>8. ASSUME NEW m PROVE Kept(m)' <=> Kept(m) \/ m = name
    <3>1. Kept(m)' <=>
            \E k \in 1..Len(interfaces') : interfaces'[k].name = m
      BY DEF Kept
    <3>2. Kept(m) <=> \E k \in 1..n : interfaces[k].name = m
      BY DEF Kept
    <3>3. n + 1 \in 1..Len(interfaces') /\ 1..n \subseteq 1..Len(interfaces')
      BY <1>5, <2>2
    <3>4. CASE m = name
      BY <1>2, <2>2, <3>1, <3>3, <3>4
    <3>5. CASE m # name
      BY <1>2, <2>2, <2>4, <3>1, <3>2, <3>3, <3>5
    <3>6. QED
      BY <3>4, <3>5
  <2>9. ASSUME NEW m \in Names
        PROVE  /\ Kept(m)' => Of(m, "adapter")' # {}
               /\ \A other \in Of(m, "adapter")' :
                    Kept(m)' <=> Complete(other)
    <3>1. \A other : other \in Of(m, "adapter")' <=>
                       \/ other \in Of(m, "adapter")
                       \/ other = adapter /\ name = m
      BY <1>1, Remembered
    <3>2. /\ Kept(m) => Of(m, "adapter") # {}
          /\ \A other \in Of(m, "adapter") : Kept(m) <=> Complete(other)
      BY <1>1, <1>2 DEF AdaptersInv
    <3>3. CASE m = name
      BY <1>3, <1>4, <1>7, <2>8, <3>1, <3>3
    <3>4. CASE m # name
      BY <2>8, <3>1, <3>2, <3>4
    <3>5. QED
      BY <3>3, <3>4
  <2>10. AdaptersInv'
    BY <2>9 DEF AdaptersInv
  <2>11. QED
    BY <2>2, <2>4, <2>7, <2>10 DEF interface
<1>8. CASE ~IsUsable(adapter)
  <2>1. interfaces' = interfaces
    BY <1>1, <1>8
  <2>2. ListInv'
    BY <1>2, <2>1 DEF ListInv, Elements
  <2>3. ASSUME NEW m \in Names
        PROVE  /\ Kept(m)' => Of(m, "adapter")' # {}
               /\ \A other \in Of(m, "adapter")' :
                    Kept(m)' <=> Complete(other)
    <3>1. \A other : other \in Of(m, "adapter")' <=>
                       \/ other \in Of(m, "adapter")
                       \/ other = adapter /\ name = m
      BY <1>1, Remembered
    <3>2. /\ Kept(m) => Of(m, "adapter") # {}
          /\ \A other \in Of(m, "adapter") : Kept(m) <=> Complete(other)
      BY <1>1, <1>2 DEF AdaptersInv
    <3>3. Kept(m)' <=> Kept(m)
      BY <2>1 DEF Kept
    <3>4. ~Kept(name)
      BY <1>6 DEF Kept
    <3>5. CASE m = name
      BY <1>3, <1>4, <1>8, <3>1, <3>3, <3>4, <3>5
    <3>6. CASE m # name
      BY <3>1, <3>2, <3>3, <3>6
    <3>7. QED
      BY <3>5, <3>6
  <2>4. AdaptersInv'
    BY <2>3 DEF AdaptersInv
  <2>5. QED
    BY <2>1, <2>2, <2>4
<1>9. QED
  BY <1>7, <1>8

-----------------------------------------------------------------------------
(* The removal goes on to the next interface.                              *)
LEMMA KeepKeeps ==
  ASSUME IInv, Keep
  PROVE  ListInv' /\ PartsInv' /\ RemovalInv'
<1>1. /\ pc = "removing" /\ pc' = "removing" /\ at' = at + 1
      /\ at <= Len(interfaces) /\ ~Incomplete(interfaces[at])
      /\ seen' = seen /\ interfaces' = interfaces
  BY DEF Keep
<1>2. ListInv /\ PartsInv /\ RemovalInv
  BY DEF IInv
<1>3. ASSUME NEW n
      PROVE  /\ HasAddress(n)' <=> HasAddress(n)
             /\ HasMac(n)' <=> HasMac(n)
             /\ (ZeroMac \in Macs(n))' <=> ZeroMac \in Macs(n)
  BY <1>1 DEF HasAddress, HasMac, Macs, Of
<1>4. ListInv'
  BY <1>1, <1>2 DEF ListInv, Elements
<1>5. PartsInv'
  BY <1>1, <1>2, <1>3 DEF PartsInv, Addressed
<1>6. /\ at \in 1..(Len(interfaces) + 1) /\ Len(interfaces) \in Nat
      /\ \A k \in 1..(at - 1) : ~Incomplete(interfaces[k])
  BY <1>1, <1>2, LenProperties DEF RemovalInv, ListInv
<1>7. at' \in 1..(Len(interfaces) + 1)
  BY <1>1, <1>6
<1>8. \A k \in 1..(at' - 1) : ~Incomplete(interfaces[k])
  BY <1>1, <1>6
<1>9. RemovalInv'
  BY <1>1, <1>2, <1>3, <1>7, <1>8 DEF RemovalInv, Incomplete
<1>10. QED
  BY <1>4, <1>5, <1>9

(* The interface is erased; the next one takes its place, where the        *)
(* iterator stays.                                                         *)
LEMMA RemoveKeeps ==
  ASSUME IInv, Remove
  PROVE  /\ ListInv' /\ PartsInv' /\ RemovalInv'
         /\ \A k \in 1..Len(interfaces') :
              \E l \in 1..Len(interfaces) : interfaces'[k] = interfaces[l]
<1> DEFINE n == Len(interfaces)
           T == Elements(interfaces)
<1>1. /\ pc = "removing" /\ pc' = "removing" /\ at' = at
      /\ at <= n /\ Incomplete(interfaces[at])
      /\ seen' = seen
      /\ interfaces' =
           SubSeq(interfaces, 1, at - 1) \o SubSeq(interfaces, at + 1, n)
  BY DEF Remove, SequencesExt!RemoveAt
<1>2. ListInv /\ PartsInv /\ RemovalInv
  BY DEF IInv
<1>3. ASSUME NEW m
      PROVE  /\ HasAddress(m)' <=> HasAddress(m)
             /\ HasMac(m)' <=> HasMac(m)
             /\ (ZeroMac \in Macs(m))' <=> ZeroMac \in Macs(m)
  BY <1>1 DEF HasAddress, HasMac, Macs, Of
<1>4. /\ interfaces \in Seq(T) /\ n \in Nat
      /\ at \in 1..n
      /\ \A k \in 1..(at - 1) : ~Incomplete(interfaces[k])
  BY <1>1, <1>2, LenProperties DEF RemovalInv, ListInv
<1>5. /\ interfaces' \in Seq(T) /\ Len(interfaces') = n - 1
      /\ \A k \in 1..(n - 1) :
           interfaces'[k] = IF k < at THEN interfaces[k]
                            ELSE interfaces[k + 1]
  <2> HIDE DEF T
  <2> DEFINE before == SubSeq(interfaces, 1, at - 1)
             after  == SubSeq(interfaces, at + 1, n)
  <2>1. \A k \in 1..n : interfaces[k] \in T
    BY <1>4
  <2>2. /\ before \in Seq(T) /\ Len(before) = at - 1
        /\ \A k \in 1..(at - 1) : before[k] = interfaces[k]
    <3>1. /\ 1 \in Int /\ at - 1 \in Int /\ (at - 1) - 1 + 1 = at - 1
          /\ \A k \in 1..(at - 1) : interfaces[k] \in T /\ 1 + k - 1 = k
      BY <1>4, <2>1
    <3>2. QED
      BY <1>4, <3>1, SubSeqProperties
  <2>3. /\ after \in Seq(T) /\ Len(after) = n - at
        /\ \A k \in 1..(n - at) : after[k] = interfaces[at + k]
    <3>1. /\ at + 1 \in Int /\ n \in Int /\ n - (at + 1) + 1 = n - at
          /\ \A k \in (at + 1)..n : interfaces[k] \in T
          /\ \A k \in 1..(n - at) : (at + 1) + k - 1 = at + k
      BY <1>4, <2>1
    <3>2. /\ after \in Seq(T)
          /\ Len(after) = IF at + 1 <= n THEN n - (at + 1) + 1 ELSE 0
          /\ \A k \in 1..(n - (at + 1) + 1) :
               after[k] = interfaces[(at + 1) + k - 1]
      BY ONLY <3>1, SubSeqProperties
    <3>3. Len(after) = n - at
      BY <1>4, <3>2
    <3>4. QED
      BY <3>1, <3>2, <3>3
  <2> HIDE DEF before, after
  <2>4. interfaces' = before \o after
    BY <1>1 DEF before, after
  <2>5. /\ interfaces' \in Seq(T)
        /\ Len(interfaces') = Len(before) + Len(after)
        /\ \A k \in 1..(Len(before) + Len(after)) :
             interfaces'[k] = IF k <= Len(before) THEN before[k]
                              ELSE after[k - Len(before)]
    BY <2>2, <2>3, <2>4, ConcatProperties
  <2>6. ASSUME NEW k \in 1..(n - 1)
        PROVE  interfaces'[k] = IF k < at THEN interfaces[k]
                                ELSE interfaces[k + 1]
    <3>1. CASE k < at
      <4>1. /\ k \in 1..(at - 1) /\ k <= at - 1
            /\ k \in 1..((at - 1) + (n - at))
        BY <1>4, <3>1
      <4>2. QED
        BY <2>2, <2>3, <2>5, <3>1, <4>1
    <3>2. CASE ~(k < at)
      <4>1. /\ k - (at - 1) \in 1..(n - at)
            /\ at + (k - (at - 1)) = k + 1
            /\ ~(k <= at - 1) /\ k \in 1..((at - 1) + (n - at))
        BY <1>4, <3>2
      <4>2. after[k - (at - 1)] = interfaces[k + 1]
        BY <2>3, <4>1
      <4>3. QED
        BY <2>2, <2>3, <2>5, <3>2, <4>1, <4>2
    <3>3. QED
      BY <3>1, <3>2
  <2>7. Len(interfaces') = n - 1
    <3>1. (at - 1) + (n - at) = n - 1
      BY <1>4
    <3>2. QED
      BY <2>2, <2>3, <2>5, <3>1
  <2>8. QED
    BY <2>5, <2>6, <2>7
<1> DEFINE old(k) == IF k < at THEN k ELSE k + 1
<1>6. \A k \in 1..Len(interfaces') :
        /\ old(k) \in 1..n /\ old(k) # at
        /\ interfaces'[k] = interfaces[old(k)]
  BY <1>4, <1>5
<1>7. \A k, l \in 1..Len(interfaces') : old(k) = old(l) => k = l
  BY <1>4, <1>5
<1>8. ASSUME NEW o \in 1..n, o # at
      PROVE  \E k \in 1..Len(interfaces') : interfaces'[k] = interfaces[o]
  <2>1. CASE o < at
    <3>1. o \in 1..(n - 1)
      BY <1>4, <2>1
    <3>2. QED
      BY <1>5, <2>1, <3>1
  <2>2. CASE o > at
    <3>1. o - 1 \in 1..(n - 1) /\ ~(o - 1 < at) /\ (o - 1) + 1 = o
      BY <1>4, <2>2
    <3>2. QED
      BY <1>5, <3>1
  <2>3. QED
    BY <1>4, <1>8, <2>1, <2>2
<1> HIDE DEF old
<1>9. ListInv'
  <2>1. interfaces' \in Seq(Elements(interfaces'))
    <3> HIDE DEF T
    <3>1. QED
      BY <1>5, OwnElements
  <2>2. \A k \in 1..Len(interfaces') : interfaces'[k].name \in Names
    BY <1>2, <1>6 DEF ListInv
  <2>3. \A k, l \in 1..Len(interfaces') :
          interfaces'[k].name = interfaces'[l].name => k = l
    BY <1>2, <1>6, <1>7 DEF ListInv
  <2>4. Elements(interfaces)' = Elements(interfaces')
    BY DEF Elements
  <2>5. QED
    BY <2>1, <2>2, <2>3, <2>4 DEF ListInv
<1>10. PartsInv'
  <2>1. ASSUME NEW m \in Names, NEW k \in 1..Len(interfaces'),
               interfaces'[k].name = m
        PROVE  /\ interfaces'[k].mac # ZeroMac => HasMac(m)'
               /\ Addressed(interfaces'[k]) => HasAddress(m)'
    <3>1. old(k) \in 1..n /\ interfaces'[k] = interfaces[old(k)]
      BY <1>6
    <3>2. /\ interfaces[old(k)].mac # ZeroMac => HasMac(m)
          /\ Addressed(interfaces[old(k)]) => HasAddress(m)
      BY <1>1, <1>2, <2>1, <3>1 DEF PartsInv
    <3>3. QED
      BY <1>3, <3>1, <3>2
  <2>2. QED
    BY <2>1 DEF PartsInv, Addressed
<1>11. RemovalInv'
  <2>1. at \in 1..(Len(interfaces') + 1)
    BY <1>4, <1>5
  <2>2. ASSUME NEW k \in 1..(at - 1) PROVE ~Incomplete(interfaces'[k])
    <3>1. k \in 1..(n - 1) /\ k < at
      BY <1>4
    <3>2. QED
      BY <1>4, <1>5, <3>1
  <2>3. ASSUME NEW m \in Names,
               HasMac(m), ZeroMac \notin Macs(m), HasAddress(m)
        PROVE  \E k \in 1..Len(interfaces') :
                 interfaces'[k].name = m /\ ~Incomplete(interfaces'[k])
    <3>1. PICK o \in 1..n :
            interfaces[o].name = m /\ ~Incomplete(interfaces[o])
      BY <1>1, <1>2, <2>3 DEF RemovalInv
    <3>2. o # at
      BY <1>1, <3>1
    <3>3. QED
      BY <1>8, <3>1, <3>2
  <2>4. QED
    BY <1>1, <1>3, <2>1, <2>2, <2>3 DEF RemovalInv, Incomplete
<1>12. QED
  BY <1>6, <1>9, <1>10, <1>11

(* The end of the removal: the iterator has passed every interface.        *)
LEMMA EndRemovalKeeps ==
  ASSUME IInv, EndRemoval
  PROVE  ListInv' /\ KeptAreComplete'
<1>1. /\ pc = "removing" /\ at > Len(interfaces)
      /\ seen' = seen /\ interfaces' = interfaces
  BY DEF EndRemoval, listing
<1>2. ListInv /\ SeenInv /\ PartsInv /\ RemovalInv
  BY DEF IInv
<1>3. ASSUME NEW n
      PROVE  /\ HasAddress(n)' <=> HasAddress(n)
             /\ HasMac(n)' <=> HasMac(n)
             /\ (ZeroMac \in Macs(n))' <=> ZeroMac \in Macs(n)
             /\ Kept(n)' <=> Kept(n)
             /\ Of(n, "adapter")' = Of(n, "adapter")
  BY <1>1 DEF HasAddress, HasMac, Macs, Of, Kept
<1>4. ListInv'
  BY <1>1, <1>2 DEF ListInv, Elements
<1>5. \A k \in 1..Len(interfaces) : ~Incomplete(interfaces[k])
  <2>1. /\ at \in 1..(Len(interfaces) + 1) /\ Len(interfaces) \in Nat
        /\ \A k \in 1..(at - 1) : ~Incomplete(interfaces[k])
    BY <1>1, <1>2, LenProperties DEF RemovalInv, ListInv
  <2>2. QED
    BY <1>1, <2>1
<1>6. ASSUME NEW name \in Names
      PROVE  /\ HasMac(name) /\ ZeroMac \notin Macs(name)
                  /\ HasAddress(name) => Kept(name)
             /\ Kept(name) => HasMac(name) /\ HasAddress(name)
             /\ Of(name, "adapter") = {}
  <2>1. HasMac(name) /\ ZeroMac \notin Macs(name) /\ HasAddress(name) =>
          Kept(name)
    BY <1>1, <1>2 DEF RemovalInv, Kept
  <2>2. Kept(name) => HasMac(name) /\ HasAddress(name)
    <3>1. SUFFICES ASSUME NEW k \in 1..Len(interfaces),
                          interfaces[k].name = name
                   PROVE  HasMac(name) /\ HasAddress(name)
      BY DEF Kept
    <3>2. interfaces[k].mac # ZeroMac /\ Addressed(interfaces[k])
      BY <1>5 DEF Incomplete, Addressed
    <3>3. QED
      BY <1>1, <1>2, <3>1, <3>2 DEF PartsInv
  <2>3. Of(name, "adapter") = {}
    BY <1>1, <1>2 DEF SeenInv, Of
  <2>4. QED
    BY <2>1, <2>2, <2>3
<1>7. KeptAreComplete'
  BY <1>3, <1>6 DEF KeptAreComplete
<1>8. QED
  BY <1>4, <1>7

(* The end of the adapters.                                                *)
LEMMA EndAdaptersKeeps ==
  ASSUME IInv, EndAdapters
  PROVE  ListInv' /\ KeptAreComplete'
<1>1. pc = "adapters" /\ seen' = seen /\ interfaces' = interfaces
  BY DEF EndAdapters, listing
<1>2. ListInv /\ SeenInv /\ AdaptersInv
  BY DEF IInv
<1>3. ASSUME NEW n
      PROVE  /\ HasAddress(n)' <=> HasAddress(n)
             /\ HasMac(n)' <=> HasMac(n)
             /\ (ZeroMac \in Macs(n))' <=> ZeroMac \in Macs(n)
             /\ Kept(n)' <=> Kept(n)
             /\ Of(n, "adapter")' = Of(n, "adapter")
  BY <1>1 DEF HasAddress, HasMac, Macs, Of, Kept
<1>4. ListInv'
  BY <1>1, <1>2 DEF ListInv, Elements
<1>5. ASSUME NEW name PROVE ~HasMac(name)
  BY <1>1, <1>2 DEF SeenInv, HasMac, Macs, Of
<1>6. ASSUME NEW name \in Names
      PROVE  /\ Kept(name) => Of(name, "adapter") # {}
             /\ \A adapter \in Of(name, "adapter") :
                  Kept(name) <=> Complete(adapter)
  BY <1>1, <1>2 DEF AdaptersInv
<1>7. KeptAreComplete'
  BY <1>3, <1>5, <1>6 DEF KeptAreComplete
<1>8. QED
  BY <1>4, <1>7

(* The search itself leaves the interfaces as they are.                    *)
LEMMA UnchangedKeeps ==
  ASSUME IInv, UNCHANGED listing, pc' \in {pc, "returned"}
  PROVE  IInv'
<1>1. /\ seen' = seen /\ interfaces' = interfaces /\ at' = at
      /\ pc' = pc \/ pc' = "returned"
  BY DEF listing
<1>2. ASSUME NEW n
      PROVE  /\ HasAddress(n)' <=> HasAddress(n)
             /\ HasMac(n)' <=> HasMac(n)
             /\ (ZeroMac \in Macs(n))' <=> ZeroMac \in Macs(n)
             /\ Kept(n)' <=> Kept(n)
             /\ Of(n, "adapter")' = Of(n, "adapter")
  BY <1>1 DEF HasAddress, HasMac, Macs, Of, Kept
<1>3. ListInv' /\ SeenInv'
  BY <1>1 DEF IInv, ListInv, SeenInv, Elements
<1>4. PartsInv' /\ EntriesInv'
  BY <1>1, <1>2 DEF IInv, PartsInv, EntriesInv, Addressed
<1>5. RemovalInv'
  BY <1>1, <1>2 DEF IInv, RemovalInv, Incomplete
<1>6. AdaptersInv' /\ KeptAreComplete'
  BY <1>1, <1>2 DEF IInv, AdaptersInv, KeptAreComplete
<1>7. QED
  BY <1>3, <1>4, <1>5, <1>6 DEF IInv

-----------------------------------------------------------------------------
(* Initially nothing is listed.                                            *)
LEMMA InvariantInit == Init => IInv
<1> SUFFICES ASSUME Init PROVE IInv
  OBVIOUS
<1>1. /\ pc = "called" /\ seen = {} /\ interfaces = <<>> /\ at = 1
      /\ Len(interfaces) = 0 /\ 1..0 = {}
  BY DEF Init
<1>2. ListInv
  BY <1>1, EmptySeq DEF ListInv
<1>3. QED
  BY <1>1, <1>2
  DEF IInv, SeenInv, PartsInv, EntriesInv, RemovalInv, AdaptersInv,
      KeptAreComplete

(* Every step keeps the invariant.                                         *)
LEMMA InvariantStep == IInv /\ [Next]_vars => IInv'
<1> SUFFICES ASSUME IInv, [Next]_vars PROVE IInv'
  OBVIOUS
<1>1. CASE NothingListed \/ Return
  <2>1. pc' = "returned" /\ UNCHANGED listing
    BY <1>1 DEF NothingListed, Return
  <2>2. QED
    BY <2>1, UnchangedKeeps
<1>2. CASE UNCHANGED vars \/ SkipIdentification \/ Scan \/ Probe
             \/ ProbeFails \/ NoAddress
  <2>1. pc' = pc /\ UNCHANGED listing
    BY <1>2 DEF vars, SkipIdentification, Scan, Probe, ProbeFails, NoAddress,
                Searching
  <2>2. QED
    BY <2>1, UnchangedKeeps
<1>3. CASE Listed
  <2>1. /\ pc = "called" /\ pc' \in {"listing", "adapters"}
        /\ seen' = seen /\ interfaces' = interfaces /\ at' = at
    BY <1>3 DEF Listed, listing
  <2>2. seen' = {} /\ interfaces' = <<>> /\ Len(interfaces') = 0 /\ 1..0 = {}
    BY <2>1 DEF IInv, SeenInv
  <2>3. ListInv' /\ SeenInv'
    BY <2>1, <2>2 DEF IInv, ListInv, SeenInv, Elements
  <2>4. at' = 1
    BY <1>3, <2>1 DEF IInv, SeenInv
  <2>5. \A name : /\ Of(name, "adapter")' = {} /\ ~HasMac(name)'
                  /\ ~HasAddress(name)' /\ ~Kept(name)'
    BY <2>2 DEF Of, HasMac, Macs, HasAddress, Kept
  <2>6. PartsInv' /\ EntriesInv' /\ RemovalInv' /\ AdaptersInv'
          /\ KeptAreComplete'
    BY <2>1, <2>2, <2>4, <2>5
    DEF PartsInv, EntriesInv, RemovalInv, AdaptersInv, KeptAreComplete
  <2>7. QED
    BY <2>3, <2>6 DEF IInv
<1>4. ASSUME NEW entry \in Entries,
             Skip(entry) \/ ReadMac(entry) \/ ReadAddress(entry)
      PROVE  IInv'
  <2>1. /\ pc = "listing" /\ pc' = "listing"
        /\ entry.family # "adapter" /\ seen' = seen \cup {entry}
    BY <1>4 DEF Skip, ReadMac, ReadAddress, Read, Take
  <2>2. ListInv' /\ PartsInv' /\ EntriesInv'
    BY <1>4, SkipKeeps, ReadMacKeeps, ReadAddressKeeps
  <2>3. SeenInv'
    BY <2>1 DEF IInv, SeenInv
  <2>4. RemovalInv' /\ AdaptersInv' /\ KeptAreComplete'
    BY <2>1 DEF RemovalInv, AdaptersInv, KeptAreComplete
  <2>5. QED
    BY <2>2, <2>3, <2>4 DEF IInv
<1>5. ASSUME NEW adapter \in Entries, ReadAdapter(adapter) PROVE IInv'
  <2>1. /\ pc = "adapters" /\ pc' = "adapters"
        /\ adapter.family = "adapter" /\ seen' = seen \cup {adapter}
        /\ \A other \in seen : other.name # adapter.name
    BY <1>5 DEF ReadAdapter, Take
  <2>2. ListInv' /\ AdaptersInv'
    BY <1>5, ReadAdapterKeeps
  <2>3. SeenInv'
    BY <2>1 DEF IInv, SeenInv
  <2>4. PartsInv' /\ EntriesInv' /\ RemovalInv' /\ KeptAreComplete'
    BY <2>1 DEF PartsInv, EntriesInv, RemovalInv, KeptAreComplete
  <2>5. QED
    BY <2>2, <2>3, <2>4 DEF IInv
<1>6. CASE EndList
  <2>1. pc = "listing" /\ pc' = "removing" /\ seen' = seen
    BY <1>6 DEF EndList, listing
  <2>2. ListInv' /\ PartsInv' /\ RemovalInv'
    BY <1>6, EndListKeeps
  <2>3. SeenInv' /\ EntriesInv' /\ AdaptersInv' /\ KeptAreComplete'
    BY <2>1 DEF IInv, SeenInv, EntriesInv, AdaptersInv, KeptAreComplete
  <2>4. QED
    BY <2>2, <2>3 DEF IInv
<1>7. CASE EndAdapters \/ EndRemoval
  <2>1. /\ pc \in {"adapters", "removing"} /\ seen' = seen
        /\ pc' \in {"returned", "searching"}
    BY <1>7 DEF EndAdapters, EndRemoval, listing
  <2>2. ListInv' /\ KeptAreComplete'
    BY <1>7, EndAdaptersKeeps, EndRemovalKeeps
  <2>3. SeenInv'
    BY <2>1 DEF IInv, SeenInv
  <2>4. PartsInv' /\ EntriesInv' /\ RemovalInv' /\ AdaptersInv'
    BY <2>1 DEF PartsInv, EntriesInv, RemovalInv, AdaptersInv
  <2>5. QED
    BY <2>2, <2>3, <2>4 DEF IInv
<1>8. CASE Keep \/ Remove
  <2>1. pc = "removing" /\ pc' = "removing" /\ seen' = seen
    BY <1>8 DEF Keep, Remove
  <2>2. ListInv' /\ PartsInv' /\ RemovalInv'
    BY <1>8, KeepKeeps, RemoveKeeps
  <2>3. SeenInv' /\ EntriesInv' /\ AdaptersInv' /\ KeptAreComplete'
    BY <2>1 DEF IInv, SeenInv, EntriesInv, AdaptersInv, KeptAreComplete
  <2>4. QED
    BY <2>2, <2>3 DEF IInv
<1>9. QED
  BY <1>1, <1>2, <1>3, <1>4, <1>5, <1>6, <1>7, <1>8 DEF Next

(* The invariant holds in every state.                                     *)
LEMMA Invariance == Spec => []IInv
<1>1. QED
  BY InvariantInit, InvariantStep, PTL DEF Spec

(* For any list of entries or adapters, when the search begins an adapter  *)
(* of the computer has an interface exactly when it was complete: the      *)
(* removal from the vector that is walked over forgets no incomplete       *)
(* interface and takes no other one with it.                               *)
THEOREM CompleteInterfacesAreKept == Spec => []KeptAreComplete
<1>1. IInv => KeptAreComplete
  BY DEF IInv
<1>2. QED
  BY Invariance, <1>1, PTL

-----------------------------------------------------------------------------
(* An address whose mask has a prefix makes a whole network.               *)
LEMMA ConfiguredFits ==
  ASSUME NEW v \in {4, 6}, NEW address \in Addresses(v),
         NEW mask \in Addresses(v) \cup {Null}, mask # Null,
         MaskPrefix(mask) \notin {Refused, 0}, NEW network
  PROVE  Fits(Configured(network, address, mask), v)
<1> DEFINE c == Configured(network, address, mask)
<1>1. /\ MaskPrefix(mask) \in 1..Width(v)
      /\ Mask(v, MaskPrefix(mask)) = mask
  BY MaskOfPrefix
<1>2. address.version = v
  BY AddressIs
<1>3. /\ c.address = address /\ c.mask = mask
      /\ c.base = BaseAddress(address, mask)
      /\ c.prefix = MaskPrefix(mask)
      /\ c.hosts = AddressCount(v, MaskPrefix(mask))
  BY <1>2 DEF Configured
<1> HIDE DEF c
<1>4. QED
  BY <1>1, <1>3 DEF Fits, ValidPrefix, c

(* What an adapter of Windows makes of a version.                          *)
LEMMA NetworkOfIsSound ==
  ASSUME NEW adapter \in Entries, adapter.family = "adapter",
         ~Fails(adapter), NEW v \in {4, 6}
  PROVE  Sound(NetworkOf(adapter, v), v)
<1> DEFINE first == Unicast(adapter, v)
           network == NetworkOf(adapter, v)
<1>1. first.address # Null => ValidPrefix(v, first.prefix)
  BY DEF Fails
<1>2. \/ first.address = Null
      \/ first.address \in Addresses(v) /\ first.address # Null
  BY UnicastIs
<1>3. CASE first.address = Null
  <2>1. network.address = Null /\ network.hosts = 0
    BY <1>3 DEF NetworkOf
  <2>2. QED
    BY <2>1 DEF Sound
<1>4. CASE first.address \in Addresses(v) /\ first.address # Null
  <2>1. Mask(v, first.prefix) # Refused
    BY <1>1, <1>4, MaskIsNoRefusal DEF ValidPrefix
  <2>2. /\ network.address = first.address
        /\ network.prefix = first.prefix
        /\ network.mask = Mask(v, first.prefix)
        /\ network.base = BaseAddress(first.address, Mask(v, first.prefix))
        /\ network.hosts = AddressCount(v, first.prefix)
    BY <1>4, <2>1 DEF NetworkOf
  <2> HIDE DEF first, network
  <2>3. Fits(network, v)
    BY <1>1, <1>4, <2>2 DEF Fits
  <2>4. QED
    BY <2>3 DEF Sound, network
<1>5. QED
  BY <1>2, <1>3, <1>4

(* An interface without addresses.                                         *)
LEMMA NoNetworkIsSound == \A v : Sound(NoNetwork, v)
BY DEF NoNetwork, Sound

(* FieldsInv of the next state, without its primed definitions.            *)
LEMMA FieldsNext ==
  ASSUME \A k \in 1..Len(interfaces') :
           (\A entry \in seen' :
              entry.name = interfaces'[k].name => ~Fails(entry)) =>
             /\ Sound(interfaces'[k].ipv4, 4)
             /\ Sound(interfaces'[k].ipv6, 6)
  PROVE  FieldsInv'
BY DEF FieldsInv, CleanFor

(* An interface that keeps its name and networks stays sound.              *)
LEMMA Inherited ==
  ASSUME FieldsInv, seen \subseteq seen',
         NEW interface, NEW l \in 1..Len(interfaces),
         interface.name = interfaces[l].name,
         interface.ipv4 = interfaces[l].ipv4,
         interface.ipv6 = interfaces[l].ipv6,
         \A entry \in seen' : entry.name = interface.name => ~Fails(entry)
  PROVE  Sound(interface.ipv4, 4) /\ Sound(interface.ipv6, 6)
<1>1. CleanFor(interfaces[l].name)
  BY DEF CleanFor
<1>2. QED
  BY <1>1 DEF FieldsInv

(* The entry that is read belongs to an interface with sound networks.     *)
LEMMA FoundIsSound ==
  ASSUME IInv, FieldsInv, seen \subseteq seen', NEW name \in Names,
         NEW list, list = FindOrCreate(name),
         NEW k, k = Found(list, name),
         \A entry \in seen' : entry.name = name => ~Fails(entry)
  PROVE  Sound(list[k].ipv4, 4) /\ Sound(list[k].ipv6, 6)
<1>1. ListInv
  BY DEF IInv
<1>2. /\ k \in 1..Len(list) /\ list[k].name = name
      /\ k \in 1..Len(interfaces) \/ list[k] = NewInterface(name)
      /\ \A l \in 1..Len(interfaces) : list[l] = interfaces[l]
  BY <1>1, Creation
<1>3. CASE list[k] = NewInterface(name)
  <2>1. list[k].ipv4 = NoNetwork /\ list[k].ipv6 = NoNetwork
    BY <1>3 DEF NewInterface
  <2>2. QED
    BY <2>1, NoNetworkIsSound
<1>4. CASE k \in 1..Len(interfaces)
  <2>1. list[k] = interfaces[k]
    BY <1>2, <1>4
  <2>2. QED
    BY <1>2, <1>4, <2>1, Inherited
<1>5. QED
  BY <1>2, <1>3, <1>4

(* A MAC address leaves the networks of an interface as they are.          *)
LEMMA ReadMacFields ==
  ASSUME IInv, FieldsInv, NEW entry \in Entries, ReadMac(entry)
  PROVE  FieldsInv'
<1> DEFINE name == entry.name
           list == FindOrCreate(name)
           k    == Found(list, name)
           interface == IF entry.mac = NotMac THEN list[k]
                        ELSE WithMac(list[k], entry.mac)
<1>1. /\ name \in Names /\ seen' = seen \cup {entry}
      /\ interfaces' = IF entry.mac = NotMac THEN list
                       ELSE [list EXCEPT ![k] = WithMac(list[k], entry.mac)]
  BY DEF ReadMac, Read, Take
<1>2. ListInv
  BY DEF IInv
<1>3. k \in 1..Len(list) /\ list[k].name = name /\ list \in Seq(Elements(list))
  BY <1>1, <1>2, Creation
<1>4. /\ interface.name = name /\ interface.ipv4 = list[k].ipv4
      /\ interface.ipv6 = list[k].ipv6
  BY <1>3 DEF WithMac
<1>5. interfaces' = [list EXCEPT ![k] = interface]
  <2>1. CASE entry.mac = NotMac
    <3>1. list = [list EXCEPT ![k] = list[k]]
      <4>1. list \in [1..Len(list) -> Elements(list)]
        BY <1>3, LenProperties
      <4> HIDE DEF list, k
      <4>2. QED
        BY <1>3, <4>1
    <3>2. QED
      BY <1>1, <2>1, <3>1
  <2>2. CASE entry.mac # NotMac
    BY <1>1, <2>2
  <2>3. QED
    BY <2>1, <2>2
<1>6. list = FindOrCreate(name) /\ k = Found(list, name)
  OBVIOUS
<1> HIDE DEF list, k, interface
<1>7. /\ interfaces'[k] = interface
      /\ \A l \in 1..Len(interfaces') :
           l # k => /\ l \in 1..Len(interfaces)
                    /\ interfaces'[l] = interfaces[l]
  BY <1>1, <1>2, <1>4, <1>5, <1>6, Update
<1>8. ASSUME NEW l \in 1..Len(interfaces'),
             \A other \in seen' :
               other.name = interfaces'[l].name => ~Fails(other)
      PROVE  Sound(interfaces'[l].ipv4, 4) /\ Sound(interfaces'[l].ipv6, 6)
  <2>1. seen \subseteq seen'
    BY <1>1
  <2>2. CASE l # k
    BY <1>7, <1>8, <2>1, <2>2, Inherited
  <2>3. CASE l = k
    <3>1. \A other \in seen' : other.name = name => ~Fails(other)
      BY <1>4, <1>7, <1>8, <2>3
    <3>2. Sound(list[k].ipv4, 4) /\ Sound(list[k].ipv6, 6)
      BY <1>1, <1>6, <2>1, <3>1, FoundIsSound
    <3>3. QED
      BY <1>4, <1>7, <2>3, <3>2
  <2>4. QED
    BY <2>2, <2>3
<1>9. QED
  BY <1>8, FieldsNext

(* An IP address overwrites every field of the network of its version.     *)
LEMMA ReadAddressFields ==
  ASSUME IInv, FieldsInv, NEW entry \in Entries, ReadAddress(entry)
  PROVE  FieldsInv'
<1> DEFINE name == entry.name
           list == FindOrCreate(name)
           k    == Found(list, name)
           interface == WithAddress(list[k], entry.address, entry.mask)
<1>1. /\ name \in Names /\ seen' = seen \cup {entry} /\ entry.family = "ip"
      /\ interfaces' = [list EXCEPT ![k] = interface]
  BY DEF ReadAddress, Read, Take
<1>2. PICK v \in {4, 6} : /\ entry.address \in Addresses(v)
                          /\ entry.mask \in Addresses(v) \cup {Null}
  BY <1>1, EntriesAssumption
<1>3. ListInv
  BY DEF IInv
<1>4. /\ k \in 1..Len(list) /\ list[k].name = name
      /\ list = FindOrCreate(name) /\ k = Found(list, name)
  BY <1>1, <1>3, Creation
<1>5. /\ interface.name = name
      /\ interface.ipv4 = IF v = 4
                          THEN Configured(list[k].ipv4, entry.address,
                                          entry.mask)
                          ELSE list[k].ipv4
      /\ interface.ipv6 = IF v = 4 THEN list[k].ipv6
                          ELSE Configured(list[k].ipv6, entry.address,
                                          entry.mask)
  <2>1. entry.address.version = v
    BY <1>2, AddressIs
  <2>2. QED
    BY <1>4, <2>1 DEF WithAddress
<1> HIDE DEF list, k, interface
<1>6. /\ interfaces'[k] = interface
      /\ \A l \in 1..Len(interfaces') :
           l # k => /\ l \in 1..Len(interfaces)
                    /\ interfaces'[l] = interfaces[l]
  BY <1>1, <1>3, <1>4, <1>5, Update
<1>7. ASSUME NEW l \in 1..Len(interfaces'),
             \A other \in seen' :
               other.name = interfaces'[l].name => ~Fails(other)
      PROVE  Sound(interfaces'[l].ipv4, 4) /\ Sound(interfaces'[l].ipv6, 6)
  <2>1. seen \subseteq seen' /\ entry \in seen'
    BY <1>1
  <2>2. CASE l # k
    BY <1>6, <1>7, <2>1, <2>2, Inherited
  <2>3. CASE l = k
    <3>1. \A other \in seen' : other.name = name => ~Fails(other)
      BY <1>5, <1>6, <1>7, <2>3
    <3>2. Sound(list[k].ipv4, 4) /\ Sound(list[k].ipv6, 6)
      BY <1>1, <1>4, <2>1, <3>1, FoundIsSound
    <3>3. entry.mask # Null /\ MaskPrefix(entry.mask) \notin {Refused, 0}
      BY <1>1, <2>1, <3>1 DEF Fails
    <3>4. \A network :
            Fits(Configured(network, entry.address, entry.mask), v)
      BY <1>2, <3>3, ConfiguredFits
    <3>5. QED
      BY <1>2, <1>5, <1>6, <2>3, <3>2, <3>4 DEF Sound
  <2>4. QED
    BY <2>2, <2>3
<1>8. QED
  BY <1>7, FieldsNext

(* Every step leaves the fields of each network together.                  *)
LEMMA FieldsStep ==
  ASSUME IInv, FieldsInv, [Next]_vars
  PROVE  FieldsInv'
<1>1. ASSUME seen' = seen,
             \A k \in 1..Len(interfaces') :
               \E l \in 1..Len(interfaces) : interfaces'[k] = interfaces[l]
      PROVE  FieldsInv'
  <2>1. ASSUME NEW k \in 1..Len(interfaces'),
               \A entry \in seen' :
                 entry.name = interfaces'[k].name => ~Fails(entry)
        PROVE  /\ Sound(interfaces'[k].ipv4, 4)
               /\ Sound(interfaces'[k].ipv6, 6)
    <3>1. PICK l \in 1..Len(interfaces) : interfaces'[k] = interfaces[l]
      BY <1>1
    <3>2. QED
      BY <1>1, <2>1, <3>1, Inherited
  <2>2. QED
    BY <2>1, FieldsNext
<1>2. CASE UNCHANGED <<seen, interfaces>>
  BY <1>1, <1>2
<1>3. ASSUME NEW entry \in Entries, Skip(entry) PROVE FieldsInv'
  <2>1. seen \subseteq seen' /\ interfaces' = interfaces
    BY <1>3 DEF Skip, Read, Take
  <2>2. ASSUME NEW k \in 1..Len(interfaces'),
               \A other \in seen' :
                 other.name = interfaces'[k].name => ~Fails(other)
        PROVE  /\ Sound(interfaces'[k].ipv4, 4)
               /\ Sound(interfaces'[k].ipv6, 6)
    BY <2>1, <2>2, Inherited
  <2>3. QED
    BY <2>2, FieldsNext
<1>4. ASSUME NEW adapter \in Entries, ReadAdapter(adapter) PROVE FieldsInv'
  <2>1. seen' = seen \cup {adapter} /\ adapter.family = "adapter"
    BY <1>4 DEF ReadAdapter, Take
  <2>2. ASSUME NEW k \in 1..Len(interfaces'),
               \A entry \in seen' :
                 entry.name = interfaces'[k].name => ~Fails(entry)
        PROVE  /\ Sound(interfaces'[k].ipv4, 4)
               /\ Sound(interfaces'[k].ipv6, 6)
    <3>1. CASE k \in 1..Len(interfaces) /\ interfaces'[k] = interfaces[k]
      BY <2>1, <2>2, <3>1, Inherited
    <3>2. CASE interfaces'[k] = [name |-> adapter.name, mac |-> adapter.mac,
                                 ipv4 |-> NetworkOf(adapter, 4),
                                 ipv6 |-> NetworkOf(adapter, 6)]
      <4>1. /\ interfaces'[k].name = adapter.name
            /\ interfaces'[k].ipv4 = NetworkOf(adapter, 4)
            /\ interfaces'[k].ipv6 = NetworkOf(adapter, 6)
        BY <3>2
      <4>2. ~Fails(adapter)
        BY <2>1, <2>2, <4>1
      <4>3. QED
        BY <2>1, <4>1, <4>2, NetworkOfIsSound
    <3>3. QED
      BY <1>4, <3>1, <3>2, ReadAdapterKeeps
  <2>3. QED
    BY <2>2, FieldsNext
<1>5. CASE Remove
  <2>1. seen' = seen
    BY <1>5 DEF Remove
  <2>2. QED
    BY <1>1, <1>5, <2>1, RemoveKeeps
<1>6. CASE \/ NothingListed \/ Listed \/ EndList \/ EndAdapters \/ Keep
           \/ EndRemoval \/ SkipIdentification \/ Scan \/ Probe
           \/ ProbeFails \/ NoAddress \/ Return \/ UNCHANGED vars
  <2>1. UNCHANGED <<seen, interfaces>>
    BY <1>6
    DEF NothingListed, Listed, EndList, EndAdapters, Keep, EndRemoval,
        SkipIdentification, Scan, Probe, ProbeFails, NoAddress, Return,
        Searching, listing, vars
  <2>2. QED
    BY <1>2, <2>1
<1>7. QED
  BY <1>3, <1>4, <1>5, <1>6, ReadMacFields, ReadAddressFields DEF Next

(* The fields are together in every state.                                 *)
LEMMA FieldsInvariance == Spec => []FieldsInv
<1>1. Init => FieldsInv
  <2>1. ASSUME Init PROVE FieldsInv
    <3>1. interfaces = <<>> /\ Len(interfaces) = 0 /\ 1..0 = {}
      BY <2>1 DEF Init
    <3>2. QED
      BY <3>1 DEF FieldsInv
  <2>2. QED
    BY <2>1
<1>2. IInv /\ FieldsInv /\ [Next]_vars => FieldsInv'
  BY FieldsStep
<1>3. QED
  BY <1>1, <1>2, Invariance, PTL DEF Spec

(* For any list of entries or adapters, the fields of a network describe   *)
(* one network, although they are stored one by one and again for every    *)
(* address of the adapter: unless a conversion failed the last address     *)
(* has overwritten all of them.                                            *)
THEOREM NetworksAreWhole == Spec => []FieldsBelongTogether
<1>1. FieldsInv => FieldsBelongTogether
  <2> SUFFICES ASSUME FieldsInv, NEW k \in 1..Len(interfaces),
                      CleanFor(interfaces[k].name),
                      NEW network \in {interfaces[k].ipv4,
                                       interfaces[k].ipv6},
                      network.address # Null
               PROVE  /\ network.base
                           = BaseAddress(network.address, network.mask)
                      /\ network.mask = Mask(network.address.version,
                                             network.prefix)
                      /\ network.hosts
                           = AddressCount(network.address.version,
                                          network.prefix)
    BY DEF FieldsBelongTogether, CleanFor
  <2>1. PICK v \in {4, 6} : Sound(network, v)
    BY DEF FieldsInv
  <2>2. Fits(network, v)
    BY <2>1 DEF Sound
  <2>3. network.address.version = v
    BY <2>2, AddressIs DEF Fits
  <2>4. QED
    BY <2>2, <2>3 DEF Fits
<1>2. QED
  BY <1>1, FieldsInvariance, PTL

-----------------------------------------------------------------------------
(* The indices that are scanned lead to the hosts between the first and    *)
(* the last address of the network, and to no other.                       *)
LEMMA ScannedIsInner ==
  ASSUME NEW network, Sound(network, 4), NEW a \in Hosts
  PROVE  a \in Scanned(network) <=> Inner(a, network)
<1> DEFINE base == network.base
           hosts == network.hosts
<1>1. CASE network.address = Null /\ network.hosts = 0
  <2>1. HostIndices(network) = {}
    BY <1>1 DEF HostIndices
  <2>2. a \notin Scanned(network)
    BY <2>1 DEF Scanned
  <2>3. ~Inner(a, network)
    BY <1>1 DEF Inner, InNetwork
  <2>4. QED
    BY <2>2, <2>3
<1>2. CASE Fits(network, 4)
  <2> DEFINE p == network.prefix
             u == Pow2[Width(4) - p]
             c == network.mask
  <2>1. /\ 4 \in {4, 6} /\ 4 # 6
        /\ network.address \in Addresses(4) /\ p \in 1..Width(4)
        /\ c = Mask(4, p) /\ base = BaseAddress(network.address, c)
        /\ hosts = AddressCount(4, p) /\ network.address.version = 4
    <3>1. 4 \in {4, 6}
      OBVIOUS
    <3>2. QED
      BY <1>2, <3>1, AddressIs DEF Fits, ValidPrefix
  <2>2. hosts = u /\ u \in Nat \ {0}
    <3>1. Width(4) - p \in Nat
      BY <2>1, Sizes
    <3>2. hosts = u
      BY <2>1 DEF AddressCount, ValidPrefix
    <3>3. QED
      BY <3>1, <3>2, Powers
  <2>3. base \in Addresses(4)
    BY <2>1, BaseAddressIs
  <2>4. Number(base) \in Nat /\ ToUint32(base) = Number(base)
    BY <2>1, <2>3, AddressIs, ToUint32IsNumber
  <2> HIDE DEF u
  <2>5. ASSUME NEW k \in HostIndices(network)
        PROVE  /\ NewAddress(base, k) \in Addresses(4)
               /\ BaseAddress(NewAddress(base, k), c) = base
               /\ Number(NewAddress(base, k)) = Number(base) + k
    <3> DEFINE new == NewAddress(base, k)
    <3>1. /\ k \in Nat /\ k < u /\ k \in 0..(Pow2[IndexBits] - 1)
          /\ Number(base) + k < Pow2[IndexBits]
      <4>1. k \in Nat /\ k < u
        BY <2>2 DEF HostIndices
      <4>2. u <= Pow2[Width(4)] /\ Pow2[Width(4)] \in Nat
        BY <2>1, <2>2, PrefixSplits DEF u
      <4>3. Number(base) < Pow2[Width(4)]
        BY <2>1, <2>3, AddressIs
      <4> HIDE DEF new
      <4>4. QED
        BY <2>4, <4>1, <4>2, <4>3, IndexIsWider, <2>2
    <3>2. new \in Addresses(4) /\ BaseAddress(new, c) = base
      BY <2>1, <3>1, InsideNetwork DEF u
    <3>3. IF Number(base) + k < Pow2[Width(4)]
          THEN Number(new) = Number(base) + k ELSE new = Refused
      BY <2>1, <2>3, <3>1, NewAddressSum
    <3> HIDE DEF new
    <3>4. new # Refused
      BY <3>2, RefusedAssumption
    <3>5. QED
      BY <3>2, <3>3, <3>4 DEF new
  <2>6. ASSUME a \in Scanned(network) PROVE Inner(a, network)
    <3>1. PICK k \in HostIndices(network) : a = NewAddress(base, k)
      BY <2>6 DEF Scanned
    <3>2. /\ a \in Addresses(4) /\ BaseAddress(a, c) = base
          /\ Number(a) = Number(base) + k
      BY <2>5, <3>1
    <3>3. a.version = 4 /\ ToUint32(a) = Number(a)
      BY <2>1, <3>2, AddressIs, ToUint32IsNumber
    <3>4. k \in Nat /\ k # 0 /\ k < u - 1
      BY <2>2 DEF HostIndices
    <3>5. a # base
      BY <2>4, <3>2, <3>4
    <3>6. ToUint32(a) # ToUint32(base) + hosts - 1
      BY <2>2, <2>4, <3>2, <3>3, <3>4
    <3>7. InNetwork(a, network)
      BY <2>1, <2>2, <3>2, <3>3 DEF InNetwork
    <3>8. QED
      BY <3>5, <3>6, <3>7 DEF Inner
  <2>7. ASSUME Inner(a, network) PROVE a \in Scanned(network)
    <3>1. /\ a.version = 4 /\ BaseAddress(a, c) = base
          /\ a # base /\ ToUint32(a) # ToUint32(base) + hosts - 1
      BY <2>1, <2>7 DEF Inner, InNetwork
    <3>2. a \in Addresses(4)
      <4>1. PICK v \in {4, 6} : a \in Addresses(v)
        BY InputsAssumption
      <4>2. v = 4
        BY <3>1, <4>1, AddressIs
      <4>3. QED
        BY <4>1, <4>2
    <3> DEFINE x == Number(a)
               z == x \div u
               k == x % u
    <3>3. x \in Nat /\ ToUint32(a) = x
      BY <2>1, <3>2, AddressIs, ToUint32IsNumber
    <3>4. Number(base) = z * u
      BY <2>1, <3>1, <3>2, BaseAddressIs DEF u
    <3>5. Number(base) # x
      BY <2>1, <2>3, <3>1, <3>2, SameNumber
    <3> HIDE DEF x
    <3>6. z \in Nat /\ k \in 0..(u - 1) /\ x = z * u + k
      BY ONLY <2>2, <3>3, Division
    <3> HIDE DEF z, k
    <3>7. x = Number(base) + k
      BY <3>4, <3>6
    <3>8. k \in HostIndices(network)
      BY <2>2, <2>4, <3>1, <3>3, <3>5, <3>6, <3>7 DEF HostIndices
    <3>9. /\ NewAddress(base, k) \in Addresses(4)
          /\ Number(NewAddress(base, k)) = Number(a)
      BY <2>5, <3>7, <3>8 DEF x
    <3>10. NewAddress(base, k) = a
      BY <2>1, <3>2, <3>9, SameNumber
    <3>11. QED
      BY <3>8, <3>10 DEF Scanned
  <2>8. QED
    BY <2>6, <2>7
<1>3. QED
  BY <1>1, <1>2 DEF Sound

(* The pairs that count are finitely many.                                 *)
LEMMA BeforeIsFinite ==
  ASSUME Len(asked) \in Nat, Len(interfaces) \in Nat, NEW a
  PROVE  IsFiniteSet(Before(a)) /\ Cardinality(Before(a)) \in Nat
<1>1. IsFiniteSet(1..Len(asked)) /\ IsFiniteSet(1..Len(interfaces))
  BY FS_Interval
<1>2. IsFiniteSet(Pairs)
  BY <1>1, FS_Product DEF Pairs
<1>3. Before(a) \subseteq Pairs
  BY DEF Before
<1>4. IsFiniteSet(Before(a))
  BY <1>2, <1>3, FS_Subset
<1>5. QED
  BY <1>4, FS_CardinalityType

(* The lengths, which no step of the search changes.                       *)
LEMMA Lengths ==
  ASSUME IInv, SearchInv
  PROVE  /\ Len(asked) \in Nat /\ Len(interfaces) \in Nat
         /\ interfaces # <<>> => Len(interfaces) # 0
<1>1. interfaces \in Seq(Elements(interfaces)) /\ asked \in Requests
  BY DEF IInv, ListInv, SearchInv
<1>2. Len(interfaces) \in Nat /\ Len(asked) \in Nat
  BY <1>1, LenProperties, RequestsAssumption
<1>3. Len(interfaces) = 0 => interfaces = <<>>
  BY <1>1, EmptySeq
<1>4. QED
  BY <1>2, <1>3

(* After a pair, one more pair counts if it found the host.                *)
LEMMA NextPairCounts ==
  ASSUME Len(asked) \in Nat, Len(interfaces) \in Nat,
         asked' = asked, interfaces' = interfaces,
         i \in 1..Len(asked), j \in 1..Len(interfaces), NextInterface, NEW a
  PROVE  Cardinality(Before(a)')
           = Cardinality(Before(a)) + IF Hit(a, <<i, j>>) THEN 1 ELSE 0
<1>1. \A pair : Hit(a, pair)' <=> Hit(a, pair)
  BY DEF Hit, Inner, InNetwork
<1>2. Pairs' = Pairs
  BY DEF Pairs
<1>3. ASSUME NEW pair \in Pairs
      PROVE  Earlier(pair)' <=> Earlier(pair) \/ pair = <<i, j>>
  <2>1. /\ pair[1] \in 1..Len(asked) /\ pair[2] \in 1..Len(interfaces)
        /\ pair = <<i, j>> <=> pair[1] = i /\ pair[2] = j
    BY DEF Pairs
  <2>2. CASE j < Len(interfaces)
    <3>1. i' = i /\ j' = j + 1
      BY <2>2 DEF NextInterface
    <3>2. QED
      BY <2>1, <3>1 DEF Earlier
  <2>3. CASE ~(j < Len(interfaces))
    <3>1. i' = i + 1 /\ j' = 1
      BY <2>3 DEF NextInterface
    <3>2. QED
      BY <2>1, <2>3, <3>1 DEF Earlier
  <2>4. QED
    BY <2>2, <2>3
<1>4. ~Earlier(<<i, j>>) /\ <<i, j>> \in Pairs
  BY DEF Earlier, Pairs
<1>5. \A pair : pair \in Before(a)' <=>
                  \/ pair \in Before(a)
                  \/ pair = <<i, j>> /\ Hit(a, <<i, j>>)
  BY <1>1, <1>2, <1>3, <1>4 DEF Before
<1>6. <<i, j>> \notin Before(a)
  BY <1>4 DEF Before
<1>7. IsFiniteSet(Before(a)) /\ Cardinality(Before(a)) \in Nat
  BY BeforeIsFinite
<1>8. CASE Hit(a, <<i, j>>)
  <2>1. Before(a)' = Before(a) \cup {<<i, j>>}
    BY <1>5, <1>8
  <2>2. Cardinality(Before(a) \cup {<<i, j>>}) = Cardinality(Before(a)) + 1
    BY <1>6, <1>7, FS_AddElement
  <2>3. QED
    BY <1>8, <2>1, <2>2
<1>9. CASE ~Hit(a, <<i, j>>)
  <2>1. Before(a)' = Before(a)
    BY <1>5, <1>9
  <2>2. QED
    BY <1>7, <1>9, <2>1
<1>10. QED
  BY <1>8, <1>9

(* A step of the search that counts right keeps its invariant.             *)
LEMMA CountingKeeps ==
  ASSUME IInv, SearchInv, Searching, NextInterface,
         asked[i].kind # "other", found' \in [Hosts -> Nat],
         Clean => \A a \in Hosts :
           found'[a] = found[a] + IF Hit(a, <<i, j>>) THEN 1 ELSE 0
  PROVE  SearchInv'
<1>1. /\ pc = "searching" /\ pc' = "searching" /\ i <= Len(asked)
      /\ asked' = asked /\ interfaces' = interfaces /\ seen' = seen
  BY DEF Searching, listing
<1>2. Len(asked) \in Nat /\ Len(interfaces) \in Nat
  BY Lengths
<1>3. /\ i \in 1..Len(asked) /\ j \in 1..Len(interfaces) /\ Counted
      /\ asked \in Requests
  BY <1>1, <1>2 DEF SearchInv
<1>4. /\ i' \in 1..(Len(asked) + 1) /\ j' \in 1..Len(interfaces)
      /\ i' = i \/ j' = 1
  BY <1>2, <1>3 DEF NextInterface
<1>5. Counted'
  <2>1. Clean' <=> Clean
    BY <1>1 DEF Clean
  <2>2. ASSUME Clean, NEW a \in Hosts
        PROVE  found'[a] = Cardinality(Before(a)')
    <3>1. found[a] = Cardinality(Before(a))
      BY <1>3, <2>2 DEF Counted
    <3>2. Cardinality(Before(a)')
            = Cardinality(Before(a)) + IF Hit(a, <<i, j>>) THEN 1 ELSE 0
      BY <1>1, <1>2, <1>3, NextPairCounts
    <3>3. QED
      BY <2>2, <3>1, <3>2
  <2>3. QED
    BY <2>1, <2>2 DEF Counted
<1>6. i' \in 1..Len(asked) => (asked[i'].kind = "other" => j' = 1)
  BY <1>4
<1>7. QED
  BY <1>1, <1>3, <1>4, <1>5, <1>6 DEF SearchInv

(* scan_network_for_hosts() counts the hosts of the interface.             *)
LEMMA ScanKeeps ==
  ASSUME IInv, FieldsInv, SearchInv, Scan
  PROVE  SearchInv'
<1> DEFINE network == interfaces[j].ipv4
<1>1. /\ Searching /\ NextInterface /\ asked[i].kind = "any"
      /\ found' = [a \in Hosts |->
                     found[a] + (IF a \in Scanned(network) THEN 1 ELSE 0)]
  BY DEF Scan
<1>2. j \in 1..Len(interfaces) /\ found \in [Hosts -> Nat]
  BY <1>1 DEF Searching, SearchInv
<1>3. ASSUME Clean, NEW a \in Hosts
      PROVE  Hit(a, <<i, j>>) <=> a \in Scanned(network)
  <2>1. CleanFor(interfaces[j].name)
    BY <1>3 DEF Clean, CleanFor
  <2>2. Sound(network, 4)
    BY <1>2, <2>1 DEF FieldsInv
  <2>3. Hit(a, <<i, j>>) <=> Inner(a, network)
    BY <1>1 DEF Hit
  <2> HIDE DEF network
  <2>4. QED
    BY <2>2, <2>3, ScannedIsInner
<1> HIDE DEF network
<1>4. found' \in [Hosts -> Nat]
  <2>1. \A a \in Hosts :
          found[a] + (IF a \in Scanned(network) THEN 1 ELSE 0) \in Nat
    BY <1>2
  <2>2. QED
    BY <1>1, <2>1
<1>5. Clean => \A a \in Hosts :
        found'[a] = found[a] + IF Hit(a, <<i, j>>) THEN 1 ELSE 0
  BY <1>1, <1>3
<1>6. QED
  BY <1>1, <1>4, <1>5, CountingKeeps

(* An identification that is an address counts that one host, or none.     *)
LEMMA ProbeKeeps ==
  ASSUME IInv, SearchInv, Probe \/ ProbeFails \/ NoAddress
  PROVE  SearchInv'
<1>1. /\ Searching /\ NextInterface /\ found \in [Hosts -> Nat]
      /\ asked[i].kind \in {"address", "pattern"}
  BY DEF Probe, ProbeFails, NoAddress, SearchInv
<1>2. CASE Probe
  <2> DEFINE b == asked[i].address
  <2>1. /\ asked[i].kind = "address" /\ b \in Hosts /\ asked[i].plain
        /\ found' = [found EXCEPT ![b] = @ + 1]
    BY <1>2 DEF Probe, Suits
  <2>2. \A a : Hit(a, <<i, j>>) <=> a = b
    BY <2>1 DEF Hit
  <2> HIDE DEF b
  <2>3. found' \in [Hosts -> Nat]
    BY <1>1, <2>1
  <2>4. \A a \in Hosts :
          found'[a] = found[a] + IF Hit(a, <<i, j>>) THEN 1 ELSE 0
    BY <1>1, <2>1, <2>2
  <2>5. QED
    BY <1>1, <2>3, <2>4, CountingKeeps
<1>3. CASE ProbeFails \/ NoAddress
  <2>1. \A a \in Hosts : ~Hit(a, <<i, j>>)
    BY <1>1, <1>3 DEF Hit, ProbeFails, NoAddress, Suits
  <2>2. found' = found
    BY <1>3 DEF ProbeFails, NoAddress
  <2>3. \A a \in Hosts :
          found'[a] = found[a] + IF Hit(a, <<i, j>>) THEN 1 ELSE 0
    BY <1>1, <2>1, <2>2
  <2>4. QED
    BY <1>1, <2>2, <2>3, CountingKeeps
<1>4. QED
  BY <1>2, <1>3

(* An identification of another kind is passed with all its pairs.         *)
LEMMA SkipIdentificationKeeps ==
  ASSUME IInv, SearchInv, SkipIdentification
  PROVE  SearchInv'
<1>1. /\ pc = "searching" /\ pc' = "searching" /\ i <= Len(asked)
      /\ asked' = asked /\ interfaces' = interfaces /\ seen' = seen
      /\ asked[i].kind = "other" /\ i' = i + 1 /\ j' = j /\ found' = found
  BY DEF SkipIdentification, Searching, listing
<1>2. Len(asked) \in Nat /\ Len(interfaces) \in Nat
  BY Lengths
<1>3. /\ i \in 1..Len(asked) /\ j = 1 /\ j \in 1..Len(interfaces)
      /\ Counted /\ asked \in Requests /\ found \in [Hosts -> Nat]
  BY <1>1, <1>2 DEF SearchInv
<1>4. ASSUME NEW a PROVE Before(a)' = Before(a)
  <2>1. \A pair : Hit(a, pair)' <=> Hit(a, pair)
    BY <1>1 DEF Hit, Inner, InNetwork
  <2>2. Pairs' = Pairs
    BY <1>1 DEF Pairs
  <2>3. ASSUME NEW pair \in Pairs
        PROVE  Earlier(pair)' <=> Earlier(pair) \/ pair[1] = i
    <3>1. pair[1] \in 1..Len(asked) /\ pair[2] \in 1..Len(interfaces)
      BY DEF Pairs
    <3>2. QED
      BY <1>1, <1>3, <3>1 DEF Earlier
  <2>4. \A pair : pair[1] = i => ~Hit(a, pair)
    BY <1>1 DEF Hit
  <2>5. \A pair : pair \in Before(a)' <=> pair \in Before(a)
    BY <2>1, <2>2, <2>3, <2>4 DEF Before
  <2>6. QED
    BY <2>5
<1>5. Counted'
  <2>1. Clean' <=> Clean
    BY <1>1 DEF Clean
  <2>2. QED
    BY <1>1, <1>3, <1>4, <2>1 DEF Counted
<1>6. i' \in 1..(Len(asked) + 1) /\ j' = 1
  BY <1>1, <1>2, <1>3
<1>7. QED
  BY <1>1, <1>3, <1>5, <1>6 DEF SearchInv

(* The search begins with no pair behind it.                               *)
LEMMA SearchBegins ==
  ASSUME IInv, SearchInv, EndAdapters \/ EndRemoval
  PROVE  SearchInv'
<1>1. /\ pc \notin {"searching", "returned"}
      /\ pc' = IF interfaces = <<>> THEN "returned" ELSE "searching"
      /\ asked' = asked /\ interfaces' = interfaces /\ seen' = seen
      /\ i' = i /\ j' = j /\ found' = found
  BY DEF EndAdapters, EndRemoval, listing, searching
<1>2. /\ Len(asked) \in Nat /\ Len(interfaces) \in Nat
      /\ interfaces # <<>> => Len(interfaces) # 0
  BY Lengths
<1>3. /\ asked \in Requests /\ found \in [Hosts -> Nat]
      /\ i = 1 /\ j = 1 /\ \A a \in Hosts : found[a] = 0
  BY <1>1 DEF SearchInv
<1>4. ASSUME NEW a PROVE Before(a)' = {}
  <2>1. \A pair \in Pairs : pair[1] \in Nat \ {0} /\ pair[2] \in Nat \ {0}
    BY <1>2 DEF Pairs
  <2>2. \A pair \in Pairs : ~Earlier(pair)'
    BY <1>1, <1>3, <2>1 DEF Earlier
  <2>3. Pairs' = Pairs
    BY <1>1 DEF Pairs
  <2>4. QED
    BY <2>2, <2>3 DEF Before
<1>5. Counted'
  <2>1. Cardinality({}) = 0
    BY FS_EmptySet
  <2>2. QED
    BY <1>1, <1>3, <1>4, <2>1 DEF Counted
<1>6. CASE interfaces = <<>>
  BY <1>1, <1>3, <1>6 DEF SearchInv
<1>7. CASE interfaces # <<>>
  <2>1. j' \in 1..Len(interfaces') /\ i' \in 1..(Len(asked') + 1)
    BY <1>1, <1>2, <1>3, <1>7
  <2>2. QED
    BY <1>1, <1>3, <1>5, <1>7, <2>1 DEF SearchInv
<1>8. QED
  BY <1>6, <1>7

(* Every step counts right.                                                *)
LEMMA SearchStep ==
  ASSUME IInv, FieldsInv, SearchInv, [Next]_vars
  PROVE  SearchInv'
<1>1. CASE \/ Listed \/ EndList \/ Keep \/ Remove
           \/ \E entry \in Entries : \/ Skip(entry) \/ ReadMac(entry)
                                     \/ ReadAddress(entry)
                                     \/ ReadAdapter(entry)
  <2>1. /\ pc \notin {"searching", "returned"}
        /\ pc' \notin {"searching", "returned"}
        /\ asked' = asked /\ i' = i /\ j' = j /\ found' = found
    BY <1>1
    DEF Listed, EndList, Keep, Remove, Skip, ReadMac, ReadAddress, Read,
        ReadAdapter, Take, searching
  <2>2. QED
    BY <2>1 DEF SearchInv
<1>2. CASE NothingListed
  <2>1. /\ pc = "called" /\ pc' = "returned" /\ asked' = asked
        /\ found' = found /\ interfaces' = interfaces
    BY <1>2 DEF NothingListed, listing, searching
  <2>2. interfaces = <<>>
    BY <2>1 DEF IInv, SeenInv
  <2>3. QED
    BY <2>1, <2>2 DEF SearchInv
<1>3. CASE Return \/ UNCHANGED vars
  <2>1. /\ asked' = asked /\ found' = found /\ interfaces' = interfaces
        /\ i' = i /\ j' = j /\ seen' = seen
        /\ \/ pc' = pc
           \/ pc = "searching" /\ pc' = "returned" /\ i > Len(asked)
    BY <1>3 DEF Return, listing, searching, vars
  <2>2. Counted' <=> Counted
    BY <2>1
    DEF Counted, Clean, Before, Pairs, Earlier, Hit, Inner, InNetwork
  <2>3. Len(asked) \in Nat
    BY Lengths
  <2>4. QED
    BY <2>1, <2>2, <2>3 DEF SearchInv
<1>4. QED
  BY <1>1, <1>2, <1>3, SearchBegins, SkipIdentificationKeeps, ScanKeeps,
     ProbeKeeps
  DEF Next

(* The search has counted right in every state.                            *)
LEMMA SearchInvariance == Spec => []SearchInv
<1>1. Init => SearchInv
  BY DEF Init, SearchInv
<1>2. IInv /\ FieldsInv /\ SearchInv /\ [Next]_vars => SearchInv'
  BY SearchStep
<1>3. QED
  BY <1>1, <1>2, Invariance, FieldsInvariance, PTL DEF Spec

(* For any entries, identifications and hosts, devices() returns a host    *)
(* as often as there are pairs of an identification and an interface that  *)
(* find it: no pair is left out or searched twice, and the indices of a    *)
(* scan reach each host of the network but the first and the last address. *)
THEOREM HostsAreFoundPerPair == Spec => []FoundOncePerPair
<1>1. IInv /\ SearchInv => FoundOncePerPair
  <2> SUFFICES ASSUME IInv, SearchInv, pc = "returned", interfaces # <<>>,
                      Clean, NEW a \in Hosts
               PROVE  found[a] = Cardinality({pair \in Pairs : Hit(a, pair)})
    BY DEF FoundOncePerPair
  <2>1. i = Len(asked) + 1 /\ found[a] = Cardinality(Before(a))
    BY DEF SearchInv, Counted
  <2>2. Len(asked) \in Nat /\ Len(interfaces) \in Nat
    BY Lengths
  <2>3. \A pair \in Pairs : Earlier(pair)
    <3>1. \A pair \in Pairs : pair[1] \in 1..Len(asked)
      BY DEF Pairs
    <3>2. QED
      BY <2>1, <2>2, <3>1 DEF Earlier
  <2>4. Before(a) = {pair \in Pairs : Hit(a, pair)}
    BY <2>3 DEF Before
  <2>5. QED
    BY <2>1, <2>4
<1>2. QED
  BY <1>1, Invariance, SearchInvariance, PTL
=============================================================================
