# kommpot: a TLA+ model of its concurrent and stateful parts

kommpot is a C++ library through which an application finds and talks to USB,
FTDI and Ethernet devices.  This directory models the parts of
`src/libkommpot` whose correctness depends on the order of events (threads,
callbacks, system calls that fail, hosts that do not answer) and the algorithms
whose correctness depends on boundaries (addresses, masks, patterns).  The
modules are model-checked with TLC on small instances; eight of them are also
proved about with TLAPS, for every value of their constants.

Contents: 1 the system, 2 what is hard in it, 3 the modules, 4 the runs and
their bounds, 5 fairness, 6 the proofs, 7 where the code and its documentation
disagree, 8 what is not modelled, 9 the plan.

## 1. The system and its parts

| Component | State it keeps | Operations | Interacts with |
|---|---|---|---|
| Asynchronous enumeration: `kommpot_core`, `libkommpot.cpp` | `m_is_enumerating` (atomic), `m_future` (plain), one task per request | `initialize`, `devices` with callbacks, `deinitialize` | starts tasks with `std::async`; a task calls the USB and the Ethernet search and the application's callbacks, which may call the library again |
| USB search: `communication_libusb::devices` | the list, one open handle, the result | one call | libusb's default context, which other searches share |
| Ethernet search: `communication_ethernet::devices` | the result | one call | interface discovery, network scan, a socket per address asked for |
| Interface discovery: `get_all_interfaces` | interfaces found so far | one call | `getifaddrs` or, on Windows, `GetAdaptersAddresses`; the address factory |
| Network scan: `scan_network_for_hosts` | an atomic counter, a mutex, the vector of hosts | one call, up to 256 threads | the address factory; a socket of its own for every probe |
| Address factory | none | base address, mask, prefix, count, n-th address, comparison, reading and writing of text | - |
| Wildcard match | two cursors and a place to resume | one call | - |
| Ethernet device and socket: `communication_ethernet`, `ethernet_socket` | `m_handle`, `m_is_connected`, the kernel's view of the descriptor | `open`, `is_open`, `close`, `read`, `write`, destruction | the kernel; descriptors are shared by the process |
| USB device: `communication_libusb` | `m_device_handle`, a static context | `open`, `close`, `read`, `write`, destruction | libusb, in a context of its own |
| Logger and settings: `kommpot_core`, `libkommpot.cpp` | `m_settings` (plain), `m_logger`, spdlog's registry (atomic) | `initialize`, `set_settings`, `deinitialize` | every statement that logs, in every thread; the logging callback of the application |
| Ethernet context | a flag around `WSAStartup()` | `initialize`, `deinitialize` | the Ethernet search and the socket call the first, `kommpot_core::deinitialize()` the second |
| FTDI device: `communication_libftdi` | a static `ftdi_context` | the same as of a USB device | libftdi; nothing in the library makes such an object or calls its `devices()` |

How they interact.  `kommpot::devices()` comes in two forms.  The blocking one
calls the USB search and then the Ethernet search in the thread of the caller.
The other one takes `m_is_enumerating`, starts a task with `std::async` that
makes the same two searches, reports each phase and its devices through two
callbacks, and clears the flag.  The Ethernet search asks for the interfaces,
and for a `*` starts a pool of threads for each of them; every host of a network
is connected to through a socket object of its own, and the answer (address,
host name, MAC address) is compared with the identification by the wildcard
match.  The devices that are returned are objects of the application from then
on: it opens, reads, writes, closes and destroys them in its own threads.

## 2. What is hard, and what makes each part correct

- **Asynchronous enumeration.** Two fields are shared, and only one of them is
  atomic.  The assignment to `m_future` comes after the flag was taken and is
  three steps (read the old handle, store the new one, destroy the old one,
  which joins a thread), and a callback may call the library from the task's
  own thread.  Correct means: one enumeration at a time; callbacks of two
  requests never mixed; a caller never blocked; nothing alive after
  `deinitialize()`; and `deinitialize()` returns even after a callback, a scan
  or `std::async` itself has thrown.
- **Network scan.** The threads share a counter, a vector and a mutex.  Correct
  means: no host taken twice or left out, no device lost when two threads append,
  nothing probed outside the network, and the scan returns.
- **Device and socket.** `open()` is up to nine system calls, nearly all of
  which may fail after the descriptor was created; descriptors are reused by
  other objects.  Correct means: `is_open()` is true only of a socket that is
  the object's own, connected, blocking and bounded by a timeout; no descriptor
  is lost or shared; no call blocks for ever.
- **USB search.** Identifications are matched in three passes, each of which
  looks through all of them again.  Correct means: nothing that matches is
  missed, nothing is reported twice, and the default libusb context lives as
  long as a search needs it, whatever other search ends meanwhile.
- **Ethernet search.** Interfaces are assembled from entries that arrive in any
  order, in parts, and with parts missing; incomplete ones are erased while
  walking over the vector.  Correct means: the right interfaces remain, the
  fields of each belong to one address, each host is found as often as pairs of
  identification and interface lead to it.
- **USB device.** `open()` goes through the bus again with an early return on
  every second line, and the first of several devices that fit is taken.
  Correct means: every handle and list is given back, no object uses the handle
  of another, what was reported can be opened, and the context that two threads
  may create at the same time is there before it is used.
- **Logger.** `set_settings()` assigns a plain struct, drops the registered
  logger and registers another one while tasks log and sinks call back.
  Correct means: no statement finds a null logger or half a setting in an
  application that waits for its tasks; the settings are in force when the call
  returns; and a callback that was replaced is over by then.
- **Address factory.** Carries, shifts by the width of a type, saturation; texts
  that are read must be written as they were.
- **Wildcard match.** One place to go back to must be enough.

`PROJECT.json` lists every hazard at its line, with the properties that watch it.

## 3. The modules

| Module | Code | State in the model |
|---|---|---|
| `EnumerationService` | what `libkommpot.h` promises of `devices()` with callbacks | requests accepted, the one being served, the callbacks made |
| `KommpotCore` | `kommpot_core.cpp` | the flag, `m_future`, and per thread its place in `devices()`/`deinitialize()` or in the task |
| `HostScan` | what a scan promises | hosts not decided, hosts found |
| `NetworkScan` | `scan_network_for_hosts()` | calling thread, workers, counter, mutex, vector |
| `EthernetSocket` | `ethernet_socket.cpp` and the device around it | per object `m_handle`, `m_is_connected`, place in a call, bytes left; per descriptor what the kernel knows |
| `UsbBus` | the devices on the bus and libusb, as both modules below see them | none (constants) |
| `UsbSearch` | `communication_libusb::devices()` | per search its place, the device at hand, the result; references to the default context and to the list |
| `UsbDevice` | the objects of class `communication_libusb` | per object its place, what it asks for, its handles; per handle the device; the static context |
| `AddressFactory` | `ethernet_address_factory.cpp` | none (operators) |
| `AddressCalls` | one question to the factory | an address, a prefix, an index |
| `AddressText` | `from_string()`, `to_string()` | the text typed so far |
| `EthernetSearch` | `get_all_interfaces()` in both its branches, `communication_ethernet::devices()` | entries read, interfaces, the result |
| `WildcardMatch` | `is_wildcard_match()` | the two cursors, the place to resume, the answer |
| `Logger` | settings and logger of `kommpot_core` | the settings, every logger made and the registered one, per thread its place in a statement |

`KommpotCoreProofs`, `NetworkScanProofs`, `EthernetSocketProofs`, `UsbProofs`
(of `UsbSearch` and of `UsbDevice`), `AddressProofs` (of `AddressFactory`,
`AddressCalls` and `AddressText`), `EthernetSearchProofs`, `LoggerProofs` and
`WildcardMatchProofs` hold the proofs.  A module `MC...` with its `.cfg` files
holds the values for TLC: `MCUsb` is an instance of `UsbSearch` and `UsbDevice` on
one bus, `MCEthernet` of `EthernetSearch` and `EthernetSocket` (by way of
`MCEthernetSearch` and `MCEthernetSocket`, which are also used alone),
`MCFunctionsLogger` of the pure functions (`WildcardMatch`, `AddressCalls`,
`AddressText`) and of `Logger`, the others of the module they are named after.
The parts of such an instance share no state; one rests while another moves, so
that a run of both asks no more and no less than a run of each.

**Composition.** `KommpotCore` implements `EnumerationService`: a request is
being served while its task is in its body.  `NetworkScan` implements
`HostScan`: a host is decided when it was refused, has no address, or is in the
vector.  `EthernetSearch` extends `AddressFactory`, of which it uses base, mask,
prefix, count and n-th address, and stands on what `HostScan` promises: its
step for a scan takes every suitable host once.  `EthernetSocket` shows what
one probe is made of; `NetworkScan` has the answer only.  `UsbSearch` and
`UsbDevice` share the bus and what is known of it (`UsbBus`), and nothing else:
the search uses libusb's default context, the devices one of their own.

**How the code maps to actions.**  In `KommpotCore` an action is one access to
shared state: taking the flag (`RequestAccepted`/`RequestRefused`), starting the
task (`Launch`), the three steps of the assignment (`ReadOldFuture`,
`StoreFuture`, `ReleaseOldFuture`), each callback (`Notify`), each search
(`Scan`), clearing the flag, and the end of the thread (`Leave`), which is what
a join waits for.  `Finished` lets a behaviour that is over stand still.  In
`NetworkScan` it is again one access: `fetch_add`, the probe, the lock, and
`push_back()` in two halves (read the end, store) so that the mutex is needed.
In `EthernetSocket` it is one system call with its outcome and what the code does
about it up to the next call, `close_socket()` included.  In `UsbDevice` it is one
call of libusb with its outcome, up to the next (`OpenDevice`, `WrongPort`,
`Match`), and the test of the static context and its creation are two
(`OpenCalled`, `InitContext`) because another thread may come between them.  In
`Logger` it is one access to the registry, to `m_settings` or to the mutex of a
sink: a statement takes a logger (`Begin`), the mutex (`LockSink`), and copies the
settings and calls back (`ReadSettings`, `CallbackReturns`); the assignment of the
settings takes time (`SetSettings` to `Written`), and a copy made meanwhile is a
data race (`ReadTorn`).  In `UsbSearch`, `EthernetSearch` and `WildcardMatch` an
action is one turn of a loop; on Windows that is one adapter (`ReadAdapter`).

Abstractions worth knowing.  Texts are model values, except in `AddressText`.  A
failing call is a choice; its error code is kept only where the code looks at
it.  Where the behaviour of the code is undefined the model stops and says
nothing more: when `libusb_get_device_list()` fails, because the loop then reads
through a null pointer (`UsbSearch`, `UsbDevice`); when a transfer uses a device
that is not open (`Use`); at a null logger or a race for the settings (`fault`).
`EthernetSocket` stops after `SIGPIPE`.  `KommpotCore` has no guard that makes `deinitialize()`
wait for other threads: as `libkommpot.h` asks, it is called after every other
call.  Definitions called "Variant" in a comment are no part of a
specification: each is a plausible mistake in the definition after it, and
shows that a property notices.

## 4. The runs

| Run | Asks | Instance | States |
|---|---|---|---|
| `core_single` | everything promised to an application with one calling thread, and the refinement | 1 client, 3 requests, 2 refusals, failing `std::async`, throwing callbacks and searches, requests from callbacks | 33 thousand |
| `core_concurrent` | what is left of it with two calling threads | 2 clients, 2 requests, no failure | 35 thousand |
| `core_blocked` | the comment at `kommpot_core.h:42` (violated) | the same | - |
| `scan_pool` | safety, completeness, termination and refinement of the pool | 3 workers, 6 hosts, the last beyond the address space | 254 thousand |
| `socket_reopen` | `libkommpot.h:328` (violated) | 1 object, 2 descriptors | - |
| `usb_both` | completeness, exactness and references of the search; handles, lists and the context of the device objects | 3 devices; 2 searches with 14 and 2 requests; 2 objects, 2 handles | 741 thousand |
| `usb_asked` | `libkommpot.h:397` (violated) | 1 search | - |
| `usb_port` | `libkommpot.h:231` (violated) | 2 devices of one kind on two buses | - |
| `functions_logger` | memory, answer and termination of the matcher; sums, masks, counts and texts of addresses; faults of logging, settings in force, callbacks that were replaced | all patterns and values up to 4; 64 IPv4 and 216 IPv6 addresses, every prefix, 23 indices; every text of 6 characters; 2 tasks, 2 callbacks, 3 levels, up to 3 calls of `set_settings()` | 598 thousand |
| `ethernet` | interfaces and result of the search; truth of `is_open()`, descriptors, termination of calls | every list of up to 4 of 14 entries, or of 9 adapters of Windows; 3 requests; 2 objects, 2 descriptors, transfers of up to 2 bytes, one object opened again while open | 82 thousand |
| `search_pattern` | `libkommpot.h:261` (violated) | the same lists, 1 request | - |
| `address_overflow` | the overflow test of the address factory (violated) | IPv4 addresses of 4 bits, indices of 7 | - |

Why the bounds are enough to meet the cases that matter:

- *core*: three requests are needed for a task being replaced, one running and
  one being refused; two clients for the race between flag and future.  The
  counters `launched` and `refusals` stop at their bounds; a client then has
  nothing left to call but `deinitialize()`.
- *scan*: more hosts than workers so that each worker claims repeatedly; the last
  host has no address, which is the disagreement between base address and host
  count that the code guards against.  A network with no host at all is a case
  of the proof.
- *socket*: two objects and two descriptors let a closed descriptor pass to the
  other object; two bytes let a transfer stop half-way.  A `close()` that fails
  *and* frees the descriptor leaves an object with a number that may become
  someone else's.  The properties do not speak of what follows, and
  `CONSTRAINT NotStrayed` ends the exploration there.
- *usb*: a device matched by vendor, one that shares a serial number with it and
  has the product that is also the wildcard, and an FTDI device; requests that
  name each field, wrong combinations included, and pairs that split a
  description between two identifications.  `CONSTRAINT FewTogether` lets the
  second search run beside the first for two of its requests, since the two
  meet in the references on the context only; alone, the first makes all 14.
  Two objects meet in the context and in the numbers of handles, and they are
  interchangeable (`SYMMETRY Exchange`); two handles let a closed one pass to the
  other object.  The searches rest while the objects move, as they have no
  state in common.
- *wildcard*: four characters hold two stars with letters around them, which is
  the first case in which going back to the last star only could be wrong.
- *addresses*: radix and widths are parameters, so that IPv6 with three segments
  of four bits has every kind of carry; IPv4 has every address.  Segments are
  written in two digits of base four, as the bases are parameters too.  Texts of six
  characters over two digits, both separators, the null character and a letter
  hold every place a gap can be in, a leading zero, and a part too many.
- *search*: two entries for one interface, in both orders, with a missing,
  zero or non-contiguous mask in one of them; two incomplete interfaces next to
  each other.  Adapters without address, gateway or valid prefix for one or for
  both versions, and one with its addresses in mixed order.  The third request is a
  pattern of addresses, of which `FoundOncePerPair` says nothing
  (`PatternsFindHosts` does).
- *logger*: two tasks, so that one sleeps in a statement with an old logger while
  another holds the mutex of the current one; three changes let the settings go
  to a callback, away from it and back.

`CHECK_DEADLOCK FALSE` stands where the model is one call of a function that
returns (`search_pattern`, `address_overflow`), and in the runs of
`MCUsb`, which stop where libusb's failure makes the behaviour undefined;
everywhere else a state without a successor is an error (`MCEthernet` and
`MCFunctionsLogger` let a function that has returned rest).

## 5. Fairness

- `KommpotCore`: weak fairness of each thread's steps once it is inside the
  library, and of each task's.  `std::async(std::launch::async)` gives a task a
  thread of its own, and the system runs every thread that can run.  Callbacks
  and searches are assumed to return or to throw.  Whether an application makes
  another call is not assumed.
- `NetworkScan`: the calling thread and every worker, for the same reason; a
  probe ends because connecting is bounded by `select()`, which is what
  `CallsReturn` of `EthernetSocket` shows.  The mutex is held for an append only,
  and weak fairness is enough because no worker comes back for it for ever.
- `EthernetSocket`: system calls that can return on their own do: with an error, at
  their timeout, or because a host has refused or hung up (`CallStep`).  Nothing
  is assumed of hosts.  Accepting a connection, and the steps in which `recv()` and
  `send()` move data (`ConnectAtOnce`, `HostActs`, `Recv`, `Send`), are not fair, so
  that a host which is silent for ever is among the behaviours; it is the case
  `CallsReturn` is about.  A `recv()` or `send()` on a socket that is blocking and
  has no timeout can then last for ever (`MayStall`), and so can a `connect()` on
  one that is blocking: a socket that is not given its timeouts (`SetNoTimeout`)
  breaks `CallsReturn`.
- `WildcardMatch` (in `MCFunctionsLogger`): the function keeps running.
- The other specifications state no fairness, and no liveness is claimed of
  them.  The loops of the two searches and of `open()` walk over finite lists;
  a logging callback of the application may hold a sink for as long as it likes.

## 6. The proofs

All theorems are about the specification without fairness, for every value of
the constants that the named assumptions allow.

**`KommpotCoreProofs`.** Assumed: there is a client, the bounds are numbers.
`LockInv` says who holds the flag: one caller between taking it and its launch, or
the task launched last, and then every running task *is* that one.  With it
`RequestsNeverInterleave` becomes inductive: a new report belongs to the task
launched last, and earlier ones to requests launched before.  Theorems
`TypeCorrect`, `EnumerationsNeverOverlap` and `CallbacksNeverInterleave` follow
for any number of clients.  With one client, `FutureInv` says in each phase of
the assignment which tasks `m_future` and the two temporaries stand for;
`QuiescentWithOneCaller` and `NeverBlockedWithOneCaller` follow.  Both are false for
two clients, which is what `core_blocked` shows.  `ProgressInv` says that a
running task has not made the report of its next step yet, which gives
`RefinesService`: every step of the core is a step of the service or none.

**`NetworkScanProofs`.** Assumed: at least one thread is allowed, base and limit
are addresses.  `IInv` joins four statements: a host in a worker's hand is below
the counter, undecided and in no other hand (`HandsInv`); every host below the
counter is decided, in a hand, or on its way into the vector, and none above it
is touched (`HostsInv`); whoever is inside `push_back()` holds the mutex and knows
the true end (`MutexInv`); a worker is done only when the counter is past the
end, and the caller has returned only when all are joined (`JoinInv`).
`HostsAreNeverShared`, `ProbesAreInside`, `ScanIsComplete` and `DevicesAreKept`
follow, networks without hosts included, and so does `RefinesHostScan`: a worker
that has no address, refuses a host or completes an append decides a host that
nobody has decided, every other step of a thread decides none, and at the return
none is left.

**`EthernetSocketProofs`.** Assumed: the invalid descriptor is none.  An object
on its way through `open()` owns a socket that is connected and set up as far as
its place says; an object that is not on its way has a socket of its own that is
complete, or none.  Descriptors are used again, so each statement is about live
ones, and holds until a `close()` has failed *and* freed its descriptor.
`OpenObjectsAreReady`, `DescriptorsAreNotShared` and `DescriptorsAreNotLost` follow
for any number of objects and descriptors: the last names the only ways to
lose one (a `setsockopt()` or `close()` that failed, a device opened twice).

**`UsbProofs`, the search.** Assumed: requests are finite and a device has a vendor and a
product; for `ContextIsCounted`, that there are finitely many searches.
Statement by statement: a device the loop has passed
is in the result, was described by no identification, or had a call fail
(`SearchIsComplete`); what is in the result has passed both filters and the last
pass (`SearchIsExact`); each entry of the result was read of a device of its own,
other than the one that is open (`OnceInv`, by an injection from the entries to
the devices the loop has come to, which a report extends by the open device), so
that none is reported twice (`DevicesAreReportedOnce`); and
the references are as many as the searches inside (`ContextIsCounted`), which is
why none takes the context from another.

**`UsbProofs`, the device objects.** `StateInv` says where the code has a handle in its
variables; `LiveInv`, that each of these is open and in one variable only, though
numbers of handles are used again; `AskedInv`, that an object asks for the device
it was reported for; and `UntriedInv`, that the loop of `open()` has not come to this
device yet, or is at it, or a call on it failed.  `RefusalsHaveAReason`,
`ObjectsOwnTheirHandles`, `OpenObjectsFit` and `CarefulApplicationsLoseNothing`
follow.  `ContextsAreBounded` counts the threads between the test of the context
and its creation, and so needs finitely many objects.

**`AddressProofs`.** Assumed: the digits of an address have a width, that of a
segment is even, a host index is wider than an IPv4 address and narrower than an
IPv6 one, and `std::nullopt` is neither a number nor an address (`WidthsAssumption`,
`RefusedAssumption`).  The code calculates with octets, segments, bytes and bits;
what it promises is about the number an address stands for (`Number`).  Three
facts lead from one to the other.  A sequence of digits is found in the number
it writes by division, and no other sequence writes that number (`DigitsOf`,
`WrittenBy`); a number is known when its bits are (`SameBits`); and the first digit
in which two addresses differ decides which is later (`FirstDifferenceDecides`).
With the carry of each segment as it is left by the loop (`CarriesSum`) this gives
`NewAddressIs`: the n-th address is the one whose number is the sum, or none if the
sum is too large.  For IPv4 that takes a sum inside `uint64_t`; one that wraps is
lower than the base (`WrappedSumIsLower`), which is why `CountsFitNetworks` needs no
such condition.  `MaskIs` and `BaseAddressIs` say the same of masks and base
addresses: of a prefix `p` in `w` bits, all bits from the left up to `p`; and the
number of the address with its last `w - p` bits cleared.  Theorems
`NewAddressesAdd` (but for sums that wrap), `MasksRoundTrip` and
`CountsFitNetworks` follow for every address, prefix and index, for both versions,
and for any widths: for 32, 128 and 64 bits, of which TLC sees small images only.
These are facts about operators, not about steps, so that the invariant of the
calls is their type.
The definitions are recursive over the digits; the lemma `Recursion` shows that
functions so defined exist, and `Induction` runs over numbers by the least
counterexample, as the induction theorems of the library are out of reach.

Its last part is about texts.  Assumed (`TextAssumption`): there are several octets
and segments, the bases are at least two, the largest segment has the largest
digit in every place (`ffff`), and separators and the null character are no digits.
What a text is cut into, what parts are joined to and what a numeral is are again
recursive functions; their first step from the end (`CutIs`, `JoinIs`, `NumeralIs`)
is all that is used of them.  From it follow four facts that are true of texts
of any length: joining undoes splitting (`JoinSplit`); splitting undoes joining
when no part has the separator (`SplitJoin`); a numeral has the value it was
written for, and no leading zero (`NumeralHas`); and digits without a leading
zero are the numeral of their value (`NumeralOfValue`).  IPv4 refuses leading
zeros, so that what is read is what is written (`DottedIs`).  IPv6 does not, and
`InetPtonIs` says what a text has that is not written again; that the text
written is read as the same address takes that its parts are not empty, so that
no gap is seen in it, and not too long (`NumeralFits`, `WrittenIsRead`).
`TextsAreCanonical` is their sum.

**`EthernetSearchProofs`.** Assumed: the entries have the fields of their family,
an address and its mask are of one version, an address is no nullptr, and a
request is finite.  That the mask of a valid prefix is neither a nullptr nor a
refusal is a lemma (`MaskIsNoRefusal`).  There are three inductive invariants.

- `IInv`, for which interfaces there are.  `ListInv` says that no name has two
  interfaces, by which the one that was given the MAC address is the one that was
  given the IP address.  While the list is read an interface has what its entries
  gave it (`EntriesInv`) and nothing else (`PartsInv`); while incomplete ones are
  erased, those before the iterator are complete and no complete one is lost
  (`RemovalInv`), which is what fails when the iterator moves on after an erasure;
  on Windows each adapter is decided at once (`AdaptersInv`).
  `CompleteInterfacesAreKept` follows for any list.
- `FieldsInv`, for what is in them.  Of each version an interface has either no
  address and no hosts, or a network whose prefix is valid and whose mask, base
  and count are those of its address (`Sound`).  A step overwrites the fields one
  after the other; it either completes them, or fails and leaves a trace in
  `seen`, and an interface that inherits from an entry that did not fail keeps
  what it had.  `NetworksAreWhole` follows.
- `SearchInv`, for what is found.  At each pair of identification and interface
  the result counts, for every host, the pairs before this one that lead to it
  (`Counted`, `Before`).  A step of the loops adds its own pair.  The one that scans
  has to show that the indices it goes through are the hosts of the network
  (`ScannedIsInner`): by `FieldsInv` the interface's fields belong together,
  and by `InsideNetwork` of `AddressProofs` an address is in the network exactly when
  it is the base plus an index below the count; the first and the last of these
  are the network's own and its broadcast address.  `HostsAreFoundPerPair` follows
  for any requests without patterns, lists of entries and sets of hosts.

**`LoggerProofs`.** `RegisteredInv` says, for each place in a call, what has been
done to the logger; `ActiveInv`, who may be in a statement; and `StaleInv` and
`OldInv` date the statements by the calls that had returned when they began: a
logger that is not registered any more, or a callback that was replaced, is in
the hand of a statement older than the last flush only.
`CarefulApplicationsAreSafe`, `LoggerFollowsSettings` and `ReplacedCallbacksAreOver`
follow for any number of tasks, callbacks and calls.

**`WildcardMatchProofs`.** The definition asks whether *some* division of the
value among the characters of the pattern exists; the code tries one and goes
back to the last star only.  `IInv` says why that is enough.  What the code
walked over is a division of that part (`Reached`, `ResumeReached`); and it is
the earliest one: no match of the whole has consumed less at the cursor or at the
place to resume (`Ahead`, `ResumeAhead`).  So going back further than the last
star could only lead to a place the code has passed.  `PointersAreSafe` and
`AnswersAreRight` follow for every pattern and value: with `Returns`, checked by
TLC, total correctness on the instance.

**Model-checked only.** Liveness everywhere, and with it the liveness part of the
two refinements, since liveness and ENABLED are out of the prover's reach.  Every
invariant of every passing run is proved.  The six violated properties are disagreements
and have no proof.

## 7. Where code and documentation disagree

Shown by a run:

1. `core_blocked`: the flag does not keep a caller from being blocked by a
   running task when two threads call `devices()`, since it is taken and given
   back without regard to the assignment (`kommpot_core.cpp:80`,
   `kommpot_core.h:42`).
2. `socket_reopen`: `open()` of an open device replaces the socket, loses the
   connected one and returns true without connecting (`libkommpot.h:328`).
3. `usb_asked`: a device with the vendor of one identification and the product of
   another is reported (`libkommpot.h:397`).
4. `usb_port`: of two devices of one kind at the same port path of two buses,
   `open()` takes the one that is listed first, whichever was reported
   (`libkommpot.h:231`, "reliable for unique detection").
5. `search_pattern`: a pattern for the IP address other than a single star is
   handed to `from_string()`, which refuses it, so that it finds no host, although
   wildcards are documented (`libkommpot.h:261`; `NoAddress`).
6. `address_overflow`: `calculate_new_address()` tests an IPv4 sum for overflow after
   it was formed in `uint64_t`: an index of 2^64 less the base, or more, gives an
   address below the base instead of none (`ethernet_address_factory.cpp:264`).
   The test with the highest index
   (`src/tests/test_ethernet_address_ipv4.cpp:1138`) has the one base, 0.0.0.0, for
   which the sum does not wrap.  A scan never asks for such an index.

Seen while modelling, without a run of their own:

- `COMPLETED` is reported before the flag is cleared, so a request made from
  that callback is refused (`RequestRefused`).
- An IPv6 address asked for in a short form (`fe80::1`) is reached and never
  suitable, because its text is compared with the one `to_string()` writes
  (`Suits`; `TextIsCanonical` says for which addresses that cannot happen).
- An IPv6 text that ends with a null character is read, an IPv4 text is not.
- With the level `OFF` there is no logger, and every statement that follows
  looks behind a null pointer (`GetNull`).
- The example application calls `devices()` without `initialize()`, which is the
  same case: no logger was made.
- `read()`, `write()` and `endpoints()` of a USB device that is not open hand a null
  handle to libusb (`Use`); `endpoints()` never frees its descriptor.
- `deinitialize()` called from a callback waits for the task the callback runs in
  (`kommpot_core.cpp:41`).  The model has requests made from callbacks, not this.
- An empty list of identifications finds no USB device (`libkommpot.h:398`
  promises all).  `NothingIsMissed` is about devices that an identification
  describes, and says nothing of such a request.
- After a request whose callback, search or launch threw, the flag stays set and
  every later request is refused.  `GuardReleased` is checked without failures.
- `open()` loses the socket when its timeouts cannot be set (`SetTimeoutFails`), and
  the handle and the list of a USB device whose port could not be read (`NoPort`).
- FTDI devices are skipped by the USB search for `communication_libftdi`
  (`communication_libusb.cpp:60`), whose `devices()` nobody calls.
- `read()` documents its size as the size of the buffer (`libkommpot.h`, "states
  max buffer size"); the code returns only when all of it has arrived, and false
  when the host sent less.  After a failure the bytes already taken are lost
  (`TransferFails`).
- `write()` to a host that has closed the connection raises `SIGPIPE` on POSIX
  systems and ends the process instead of returning false (`SendKills`).
- A failing `close()` keeps `m_handle`, although Linux has freed the descriptor.
- An identification with one address is tried once per interface, and its device
  is reported once for each that leads to it.

## 8. What is not modelled, and why

- The Ethernet context: a flag around `WSAStartup()`.  Its failure is a choice of
  its callers; elsewhere than on Windows it cannot fail.  `kommpot_core::deinitialize()`
  clears the flag (`kommpot_core.cpp:45`), and the next search or `open()` tests and
  sets it again, so that nothing else depends on it.  That `WSACleanup()` is called
  under sockets that are still open, on Windows, is left out.
- The FTDI device and search: no object of the class is made and its `devices()`
  is never called, so that nothing of it is a behaviour of this program.  Only
  its `VENDOR_ID` is used, by which `UsbSearch` and `UsbDevice` skip FTDI devices.
- Windows branches of the socket, beyond what they share with the others: they
  differ in conversions, not in control.
- Conversions from system structures (`sockaddr_in` and the like), error texts,
  names of values, versions: pure conversions without state, covered by the
  unit tests in `src/tests`.  Texts that mix `:` and `.` are the system's to read.
- A `std::thread` that cannot be started ends the process; `FD_SET` with a large
  descriptor is undefined behaviour: no later state exists to speak of.
- Vendored libraries, except for what the library's calls to them do.
- The test application, tests and build files.

## 9. What could follow

The components that have behaviour of their own are modelled.  Two compositions
remain that would add to what is known:

1. `EthernetSearch` over `NetworkScan` instead of over its promise.  That
   `NetworkScan` keeps the promise is proved (`RefinesHostScan`), so that the
   composition could only show a mistake in the statement of the promise.
2. `Logger` beside `KommpotCore`: `Logger` assumes that `deinitialize()` begins its
   part when no task runs, which is `QuiescentAfterDeinitialize` of the core.
