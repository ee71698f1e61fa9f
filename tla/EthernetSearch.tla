--------------------------- MODULE EthernetSearch ---------------------------
(***************************************************************************)
(* communication_ethernet::devices(): the interfaces of the computer are   *)
(* collected, from the entries of getifaddrs() on Linux and macOS and from *)
(* the adapters of GetAdaptersAddresses() on Windows, and for every        *)
(* identification and interface a network is scanned or a host is probed.  *)
(*                                                                         *)
(* Whether a host answers and suits is given; the scan returns what        *)
(* HostScan promises, the suitable hosts of the half-open range.           *)
(***************************************************************************)
EXTENDS AddressFactory
SequencesExt == INSTANCE SequencesExt

CONSTANTS
  Names,              \* Ethernet adapters, called en... or eth...
  Entries,            \* what the system may list: records of a name and
                      \*   - a family "packet" and a MAC address,
                      \*   - a family "ip", an address and a mask, or
                      \*   - a family "other" from getifaddrs(), and
                      \*   - a family "adapter", its MAC address, whether
                      \*     it is up, its sequence of addresses with
                      \*     their prefixes, and the versions that have a
                      \*     gateway, from GetAdaptersAddresses()
  MaxEntries,         \* bound on the length of that list
  Mac, ZeroMac,       \* MAC addresses, of which one is empty
  NotMac,             \* a hardware address that has not six bytes
  Null,               \* a nullptr to an address
  Requests,           \* sequences of identifications: records of a kind,
                      \*   - "other" when it is not an Ethernet one,
                      \*   - "any" when its ip is "*",
                      \*   - "address", the address, and whether it is
                      \*     plain: as to_string() writes it, or
                      \*   - "pattern", and the addresses that match
  Hosts               \* addresses of hosts that answer and suit

ASSUME InputsAssumption ==
  /\ Hosts \subseteq Addresses(4) \cup Addresses(6)
  /\ MaxEntries \in Nat
  /\ Null \notin Addresses(4) \cup Addresses(6)
  /\ Mac # ZeroMac /\ NotMac \notin {Mac, ZeroMac}

ASSUME RequestsAssumption == \A request \in Requests : Len(request) \in Nat

ASSUME EntriesAssumption ==
  \A entry \in Entries :
    /\ entry.family \in {"packet", "ip", "other", "adapter"}
    /\ entry.family = "packet" => entry.mac \in {Mac, ZeroMac, NotMac}
    /\ entry.family = "ip" =>
         \E version \in {4, 6} :
           /\ entry.address \in Addresses(version)
           /\ entry.mask \in Addresses(version) \cup {Null}
    /\ entry.family = "adapter" =>
         entry.unicast \in
           Seq([address : Addresses(4) \cup Addresses(6), prefix : Nat])

VARIABLES
  pc,
  asked,              \* identifications
  seen,               \* the entries read (history)
  interfaces,         \* a sequence of ethernet_interface_information
  at,                 \* the iterator of the removal
  i, j,               \* identification and interface the search is at
  found               \* how often each host is in the result

listing   == <<seen, interfaces, at>>
searching == <<i, j, found>>
vars      == <<pc, asked, listing, searching>>

NoNetwork ==
  [address |-> Null, mask |-> Null, base |-> Null, prefix |-> 0, hosts |-> 0]

NewInterface(name) ==
  [name |-> name, mac |-> ZeroMac, ipv4 |-> NoNetwork, ipv6 |-> NoNetwork]

Init ==
  /\ pc = "called"
  /\ asked \in Requests
  /\ seen = {}
  /\ interfaces = <<>>
  /\ at = 1
  /\ i = 1
  /\ j = 1
  /\ found = [a \in Hosts |-> 0]

-----------------------------------------------------------------------------
(* get_all_interfaces(): the entries of getifaddrs().                      *)

(* ethernet_context::initialize(), getifaddrs() or GetAdaptersAddresses()  *)
(* fails, the latter also when it asked for a larger buffer and got it.    *)
NothingListed ==
  /\ pc = "called"
  /\ pc' = "returned"
  /\ UNCHANGED <<asked, listing, searching>>

Listed ==
  /\ pc = "called"
  /\ pc' \in {"listing", "adapters"}       \* the system that is built for
  /\ UNCHANGED <<asked, listing, searching>>

(* find_or_create_interface(), as the list it leaves behind.               *)
FindOrCreate(name) ==
  IF \E k \in 1..Len(interfaces) : interfaces[k].name = name
  THEN interfaces
  ELSE Append(interfaces, NewInterface(name))

(* The first interface of that name.                                       *)
Found(list, name) ==
  CHOOSE k \in 1..Len(list) :
    /\ list[k].name = name
    /\ \A l \in 1..(k - 1) : list[l].name # name

Take(entry) ==
  /\ entry \notin seen
  /\ Cardinality(seen) < MaxEntries
  /\ seen' = seen \cup {entry}
  /\ UNCHANGED <<pc, asked, at, searching>>

Read(entry) ==
  /\ pc = "listing"
  /\ entry.family # "adapter"
  /\ Take(entry)

Skip(entry) ==
  /\ Read(entry)
  /\ entry.name \notin Names \/ entry.family = "other"
  /\ UNCHANGED interfaces

WithMac(interface, mac) ==
  [name |-> interface.name, mac |-> mac,
   ipv4 |-> interface.ipv4, ipv6 |-> interface.ipv6]

ReadMac(entry) ==
  /\ Read(entry)
  /\ entry.name \in Names
  /\ entry.family = "packet"
  /\ LET list == FindOrCreate(entry.name)
         k    == Found(list, entry.name)
     IN  interfaces' = IF entry.mac = NotMac THEN list
                       ELSE [list EXCEPT ![k] = WithMac(list[k], entry.mac)]

(* Variant: the base address is calculated before the mask is stored.      *)
ConfiguredEarly(network, address, mask) ==
  LET prefix  == MaskPrefix(mask)
      counted == mask # Null /\ prefix \notin {Refused, 0}
      stored  == IF network.mask = Null THEN mask ELSE network.mask
  IN  [address |-> address,
       mask    |-> IF mask = Null THEN network.mask ELSE mask,
       base    |-> IF mask = Null THEN network.base
                   ELSE BaseAddress(address, stored),
       prefix  |-> IF mask = Null \/ prefix = Refused THEN network.prefix
                   ELSE prefix,
       hosts   |-> IF counted THEN AddressCount(address.version, prefix)
                   ELSE network.hosts]

(* The fields are stored one after the other; at a conversion that fails   *)
(* the rest keeps what an earlier entry has left there.                    *)
Configured(network, address, mask) ==
  LET prefix  == MaskPrefix(mask)
      counted == mask # Null /\ prefix \notin {Refused, 0}
  IN  [address |-> address,
       mask    |-> IF mask = Null THEN network.mask ELSE mask,
       base    |-> IF mask = Null THEN network.base
                   ELSE BaseAddress(address, mask),
       prefix  |-> IF mask = Null \/ prefix = Refused THEN network.prefix
                   ELSE prefix,
       hosts   |-> IF counted THEN AddressCount(address.version, prefix)
                   ELSE network.hosts]

WithAddress(interface, address, mask) ==
  [name |-> interface.name, mac |-> interface.mac,
   ipv4 |-> IF address.version # 4 THEN interface.ipv4
            ELSE Configured(interface.ipv4, address, mask),
   ipv6 |-> IF address.version = 4 THEN interface.ipv6
            ELSE Configured(interface.ipv6, address, mask)]

ReadAddress(entry) ==
  /\ Read(entry)
  /\ entry.name \in Names
  /\ entry.family = "ip"
  /\ LET list == FindOrCreate(entry.name)
         k    == Found(list, entry.name)
     IN  interfaces' =
           [list EXCEPT
              ![k] = WithAddress(list[k], entry.address, entry.mask)]

EndList ==
  /\ pc = "listing"
  /\ pc' = "removing"
  /\ UNCHANGED <<asked, listing, searching>>

-----------------------------------------------------------------------------
(* get_all_interfaces() on Windows: an interface is filled in and appended *)
(* for each adapter, or skipped.                                           *)

(* The first unicast address of a version.                                 *)
Unicast(adapter, version) ==
  LET own == {k \in 1..Len(adapter.unicast) :
                adapter.unicast[k].address.version = version}
  IN  IF own = {} THEN [address |-> Null, prefix |-> 0]
      ELSE adapter.unicast[CHOOSE k \in own : \A l \in own : k <= l]

(* Mask, base address and count are calculated, or all three refused, for  *)
(* a version without address or with an invalid prefix.                    *)
NetworkOf(adapter, version) ==
  LET address == Unicast(adapter, version).address
      prefix  == Unicast(adapter, version).prefix
      mask    == IF address = Null THEN Refused ELSE Mask(version, prefix)
  IN  IF mask = Refused
      THEN [address |-> address, mask |-> Null, prefix |-> prefix,
            base |-> Null, hosts |-> 0]
      ELSE [address |-> address, mask |-> mask, prefix |-> prefix,
            base |-> BaseAddress(address, mask),
            hosts |-> AddressCount(version, prefix)]

(* Each step after the first skips the adapter only when it fails for both *)
(* versions.                                                               *)
IsUsable(adapter) ==
  /\ adapter.name \in Names
  /\ adapter.up
  /\ adapter.unicast # <<>>
  /\ adapter.gateways # {}
  /\ \E version \in {4, 6} : NetworkOf(adapter, version).mask # Null

ReadAdapter(adapter) ==
  /\ pc = "adapters"
  /\ adapter.family = "adapter"
  /\ \A other \in seen : other.name # adapter.name
  /\ Take(adapter)
  /\ interfaces' =
       IF ~IsUsable(adapter) THEN interfaces
       ELSE Append(interfaces,
                   [name |-> adapter.name, mac |-> adapter.mac,
                    ipv4 |-> NetworkOf(adapter, 4),
                    ipv6 |-> NetworkOf(adapter, 6)])

(* Nothing is removed: an adapter that is there was complete enough.       *)
EndAdapters ==
  /\ pc = "adapters"
  /\ pc' = IF interfaces = <<>> THEN "returned" ELSE "searching"
  /\ UNCHANGED <<asked, listing, searching>>

-----------------------------------------------------------------------------
(* The removal of incomplete interfaces.                                   *)

Incomplete(interface) ==
  \/ interface.mac = ZeroMac
  \/ interface.ipv4.address = Null /\ interface.ipv6.address = Null

Keep ==
  /\ pc = "removing"
  /\ at <= Len(interfaces)
  /\ ~Incomplete(interfaces[at])
  /\ at' = at + 1
  /\ UNCHANGED <<pc, asked, seen, interfaces, searching>>

(* Variant: the iterator moves on after the removal.                       *)
RemoveAndMoveOn ==
  /\ pc = "removing"
  /\ at <= Len(interfaces)
  /\ Incomplete(interfaces[at])
  /\ interfaces' = SequencesExt!RemoveAt(interfaces, at)
  /\ at' = at + 1
  /\ UNCHANGED <<pc, asked, seen, searching>>

Remove ==
  /\ pc = "removing"
  /\ at <= Len(interfaces)
  /\ Incomplete(interfaces[at])
  /\ interfaces' = SequencesExt!RemoveAt(interfaces, at)
  /\ UNCHANGED <<pc, asked, seen, at, searching>>

EndRemoval ==
  /\ pc = "removing"
  /\ at > Len(interfaces)
  /\ pc' = IF interfaces = <<>> THEN "returned" ELSE "searching"
  /\ UNCHANGED <<asked, listing, searching>>

-----------------------------------------------------------------------------
(* The search: for each identification, each interface.                    *)

Searching ==
  /\ pc = "searching"
  /\ i <= Len(asked)
  /\ UNCHANGED <<pc, asked, listing>>

NextInterface ==
  IF j < Len(interfaces)
  THEN i' = i     /\ j' = j + 1
  ELSE i' = i + 1 /\ j' = 1

SkipIdentification ==
  /\ Searching
  /\ asked[i].kind = "other"
  /\ i' = i + 1
  /\ UNCHANGED <<j, found>>

(* Variant: the last address of the network is scanned too.                *)
IndicesToBroadcast(network) == 1..(network.hosts - 1)

(* The host indices of scan_network_for_hosts().                           *)
HostIndices(network) == 1..(network.hosts - 2)

Scanned(network) ==
  {NewAddress(network.base, k) : k \in HostIndices(network)} \cap Hosts

(* scan_network_for_hosts() with the IPv4 network of the interface.        *)
Scan ==
  /\ Searching
  /\ asked[i].kind = "any"
  /\ LET hosts == Scanned(interfaces[j].ipv4)
     IN  found' = [a \in Hosts |->
                     found[a] + (IF a \in hosts THEN 1 ELSE 0)]
  /\ NextInterface

(* is_host_reachable() and is_host_suitable() of the address itself; the   *)
(* latter compares the text asked for with that of to_string().            *)
Suits(identification) ==
  identification.address \in Hosts /\ identification.plain

Probe ==
  /\ Searching
  /\ asked[i].kind = "address"
  /\ Suits(asked[i])
  /\ found' = [found EXCEPT ![asked[i].address] = @ + 1]
  /\ NextInterface

ProbeFails ==
  /\ Searching
  /\ asked[i].kind = "address"
  /\ ~Suits(asked[i])
  /\ UNCHANGED found
  /\ NextInterface

(* A pattern other than "*" is no address: from_string() refuses it.       *)
NoAddress ==
  /\ Searching
  /\ asked[i].kind = "pattern"
  /\ UNCHANGED found
  /\ NextInterface

Return ==
  /\ pc = "searching"
  /\ i > Len(asked)
  /\ pc' = "returned"
  /\ UNCHANGED <<asked, listing, searching>>

-----------------------------------------------------------------------------
Next ==
  \/ NothingListed
  \/ Listed
  \/ \E entry \in Entries :
       \/ Skip(entry)
       \/ ReadMac(entry)
       \/ ReadAddress(entry)
       \/ ReadAdapter(entry)
  \/ EndList
  \/ EndAdapters
  \/ Keep
  \/ Remove
  \/ EndRemoval
  \/ SkipIdentification
  \/ Scan
  \/ Probe
  \/ ProbeFails
  \/ NoAddress
  \/ Return

Spec == Init /\ [][Next]_vars

-----------------------------------------------------------------------------
Network ==
  [address : UNION {Addresses(n) : n \in {4, 6}} \cup {Null},
   mask    : UNION {Addresses(n) : n \in {4, 6}} \cup {Null},
   base    : UNION {Addresses(n) : n \in {4, 6}} \cup {Null},
   prefix  : 0..(Width(6) + 1),
   hosts   : 0..(Pow2[IndexBits] - 1)]

(* Type invariant of the search; an adapter has one interface.             *)
TypeOK ==
  /\ pc \in {"called", "listing", "adapters", "removing", "searching",
             "returned"}
  /\ asked \in Requests
  /\ seen \subseteq Entries
  /\ Len(interfaces) <= Cardinality(Names)
  /\ \A k \in 1..Len(interfaces) :
       interfaces[k] \in [name : Names, mac : {Mac, ZeroMac},
                          ipv4 : Network, ipv6 : Network]
  /\ i \in 1..(Len(asked) + 1)
  /\ pc = "searching" => j \in 1..Len(interfaces)
  /\ \A a \in Hosts : found[a] \in Nat

Of(name, family) ==
  {entry \in seen : entry.name = name /\ entry.family = family}

Macs(name)       == {entry.mac : entry \in Of(name, "packet")}
HasMac(name)     == Mac \in Macs(name)
HasAddress(name) == Of(name, "ip") # {}
Kept(name) == \E k \in 1..Len(interfaces) : interfaces[k].name = name

(* Of an adapter of Windows.                                               *)
Complete(adapter) ==
  /\ adapter.up /\ adapter.gateways # {}
  /\ \E version \in {4, 6} :
       ValidPrefix(version, Unicast(adapter, version).prefix)

(* When the search begins an adapter is there exactly when it was          *)
(* complete.  On Linux and macOS its entries gave it a MAC address and an  *)
(* IP address of either version: the loop that erases from the vector it   *)
(* walks over forgets none and leaves none.  (Of an adapter with several   *)
(* hardware addresses the last one counts.)  On Windows it is up, has a    *)
(* gateway, and an address with a valid prefix: an adapter with one        *)
(* version is not lost for want of the other.                              *)
KeptAreComplete ==
  pc = "searching" =>
    \A name \in Names :
      /\ HasMac(name) /\ ZeroMac \notin Macs(name) /\ HasAddress(name) =>
           Kept(name)
      /\ Kept(name) => \/ HasMac(name) /\ HasAddress(name)
                       \/ Of(name, "adapter") # {}
      /\ \A adapter \in Of(name, "adapter") : Kept(name) <=> Complete(adapter)

(* A conversion of the entry fails.                                        *)
Fails(entry) ==
  \/ /\ entry.family = "ip"
     /\ entry.mask = Null \/ MaskPrefix(entry.mask) \in {Refused, 0}
  \/ /\ entry.family = "adapter"
     /\ \E version \in {4, 6} :
          LET first == Unicast(entry, version)
          IN  first.address # Null /\ ~ValidPrefix(version, first.prefix)

InNetwork(a, network) ==
  /\ network.hosts > 0
  /\ a.version = network.address.version
  /\ BaseAddress(a, network.mask) = BaseAddress(network.address, network.mask)

(* The fields of a network belong together, although they are overwritten  *)
(* one by one for every address of the adapter, or taken from lists of     *)
(* addresses of both versions: unless a conversion of one of its entries   *)
(* failed, its base address and count describe the network of its address. *)
FieldsBelongTogether ==
  \A k \in 1..Len(interfaces) :
    (\A entry \in seen : entry.name = interfaces[k].name => ~Fails(entry)) =>
      \A network \in {interfaces[k].ipv4, interfaces[k].ipv6} :
        network.address # Null =>
          /\ network.base = BaseAddress(network.address, network.mask)
          /\ network.mask = Mask(network.address.version, network.prefix)
          /\ network.hosts = AddressCount(network.address.version,
                                          network.prefix)

Clean == \A entry \in seen : ~Fails(entry)

(* The first and the last address of a network are not a host's.           *)
Inner(a, network) ==
  /\ InNetwork(a, network)
  /\ a # network.base
  /\ ToUint32(a) # ToUint32(network.base) + network.hosts - 1

(* An identification finds the host a at an interface.                     *)
Hit(a, pair) ==
  \/ /\ asked[pair[1]].kind = "address" /\ asked[pair[1]].plain
     /\ asked[pair[1]].address = a
  \/ /\ asked[pair[1]].kind = "any"
     /\ Inner(a, interfaces[pair[2]].ipv4)

Pairs == (1..Len(asked)) \X (1..Len(interfaces))

Patterns == {k \in 1..Len(asked) : asked[k].kind = "pattern"}

(* What devices() returns, said without loops and indices: a host is there *)
(* once for each pair of an identification and an interface, when it is    *)
(* the address asked for, written as to_string() does, or "*" is and it is *)
(* a host of the interface's IPv4 network.  (What patterns of addresses    *)
(* should find is another matter.)                                         *)
FoundOncePerPair ==
  pc = "returned" /\ interfaces # <<>> /\ Clean /\ Patterns = {} =>
    \A a \in Hosts :
      found[a] = Cardinality({pair \in Pairs : Hit(a, pair)})

(* The comment on ethernet_device_identification::ip, that wildcards are   *)
(* supported: a host of a network that was searched is found when its      *)
(* address matches the pattern asked for.                                  *)
PatternsFindHosts ==
  pc = "returned" /\ Clean =>
    \A k \in Patterns, l \in 1..Len(interfaces) :
      \A a \in asked[k].matches \cap Hosts :
        Inner(a, interfaces[l].ipv4) => found[a] > 0

-----------------------------------------------------------------------------
(* The inductive invariant of the proofs.                                  *)
Elements(s) == {s[k] : k \in 1..Len(s)}

ListInv ==
  /\ interfaces \in Seq(Elements(interfaces))
  /\ \A k \in 1..Len(interfaces) : interfaces[k].name \in Names
  /\ \A k, l \in 1..Len(interfaces) :
       interfaces[k].name = interfaces[l].name => k = l

SeenInv ==
  /\ seen \subseteq Entries
  /\ pc = "called" => seen = {} /\ interfaces = <<>> /\ at = 1
  /\ pc \in {"listing", "removing"} =>
       \A entry \in seen : entry.family # "adapter"
  /\ pc = "adapters" =>
       /\ \A entry \in seen : entry.family = "adapter"
       /\ \A entry, other \in seen : entry.name = other.name => entry = other

Addressed(interface) ==
  interface.ipv4.address # Null \/ interface.ipv6.address # Null

(* What an interface has, an entry gave it.                                *)
PartsInv ==
  pc \in {"listing", "removing"} =>
    \A name \in Names : \A k \in 1..Len(interfaces) :
      interfaces[k].name = name =>
        /\ interfaces[k].mac # ZeroMac => HasMac(name)
        /\ Addressed(interfaces[k]) => HasAddress(name)

(* What an entry gave, its interface has.                                  *)
EntriesInv ==
  pc = "listing" =>
    /\ at = 1
    /\ \A name \in Names :
         /\ HasMac(name) /\ ZeroMac \notin Macs(name) =>
              \E k \in 1..Len(interfaces) :
                interfaces[k].name = name /\ interfaces[k].mac # ZeroMac
         /\ HasAddress(name) =>
              \E k \in 1..Len(interfaces) :
                interfaces[k].name = name /\ Addressed(interfaces[k])

(* What the iterator has passed is complete, and nothing complete is lost. *)
RemovalInv ==
  pc = "removing" =>
    /\ at \in 1..(Len(interfaces) + 1)
    /\ \A k \in 1..(at - 1) : ~Incomplete(interfaces[k])
    /\ \A name \in Names :
         HasMac(name) /\ ZeroMac \notin Macs(name) /\ HasAddress(name) =>
           \E k \in 1..Len(interfaces) :
             interfaces[k].name = name /\ ~Incomplete(interfaces[k])

AdaptersInv ==
  pc = "adapters" =>
    \A name \in Names :
      /\ Kept(name) => Of(name, "adapter") # {}
      /\ \A adapter \in Of(name, "adapter") : Kept(name) <=> Complete(adapter)

IInv ==
  /\ ListInv /\ SeenInv /\ PartsInv /\ EntriesInv /\ RemovalInv
  /\ AdaptersInv /\ KeptAreComplete

(* Of a version an interface has no address, or a whole network.           *)
Fits(network, version) ==
  /\ network.address \in Addresses(version)
  /\ ValidPrefix(version, network.prefix)
  /\ network.mask = Mask(version, network.prefix)
  /\ network.base = BaseAddress(network.address, network.mask)
  /\ network.hosts = AddressCount(version, network.prefix)

Sound(network, version) ==
  \/ network.address = Null /\ network.hosts = 0
  \/ Fits(network, version)

CleanFor(name) == \A entry \in seen : entry.name = name => ~Fails(entry)

FieldsInv ==
  \A k \in 1..Len(interfaces) :
    CleanFor(interfaces[k].name) =>
      Sound(interfaces[k].ipv4, 4) /\ Sound(interfaces[k].ipv6, 6)

(* The pairs the search has been at count.                                 *)
Earlier(pair) == pair[1] < i \/ (pair[1] = i /\ pair[2] < j)

Before(a) == {pair \in Pairs : Earlier(pair) /\ Hit(a, pair)}

Counted == Clean => \A a \in Hosts : found[a] = Cardinality(Before(a))

SearchInv ==
  /\ asked \in Requests
  /\ found \in [Hosts -> Nat]
  /\ pc \notin {"searching", "returned"} =>
       i = 1 /\ j = 1 /\ \A a \in Hosts : found[a] = 0
  /\ pc = "searching" =>
       /\ i \in 1..(Len(asked) + 1)
       /\ j \in 1..Len(interfaces)
       /\ i \in 1..Len(asked) => (asked[i].kind = "other" => j = 1)
       /\ Counted
  /\ pc = "returned" /\ interfaces # <<>> => i = Len(asked) + 1 /\ Counted
=============================================================================
