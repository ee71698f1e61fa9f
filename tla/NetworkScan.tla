---------------------------- MODULE NetworkScan ----------------------------
(***************************************************************************)
(* communication_ethernet::scan_network_for_hosts: a fixed pool of threads *)
(* probes the hosts of one network.                                        *)
(*                                                                         *)
(* The threads share the atomic counter next_index, from which each takes  *)
(* the next host, and the vector hosts, which is appended to under a       *)
(* mutex.  The calling thread starts the workers one by one, joins them in *)
(* the same order and returns the vector.                                  *)
(***************************************************************************)
EXTENDS Naturals, Sequences, FiniteSets

CONSTANTS
  MaxThreads,        \* M_MAX_CONCURRENT_SEARCH_THREADS
  MaxHosts,          \* network.max_hosts
  BaseAddress,       \* network.base_address
  MaxAddress         \* the largest address, 0xFFFFFFFF in the code

ASSUME ThreadsAssumption == MaxThreads \in Nat \ {0}
ASSUME HostsAssumption   == MaxHosts \in Nat
ASSUME AddressAssumption == MaxAddress \in Nat /\ BaseAddress \in 0..MaxAddress

VARIABLES
  main,              \* where the calling thread is
  spawned,           \* how many workers it has started
  joined,            \* how many it has joined
  pc,                \* where each worker is
  index,             \* host_index of each worker
  slot,              \* the end of hosts that a push_back has read
  nextIndex,         \* next_index
  scanned,           \* scanned_hosts
  mutex,             \* the worker that holds the mutex, or Free
  hosts,             \* the vector of devices, as host indices
  verdict            \* what was learnt of each host (history)

vars == <<main, spawned, joined, pc, index, slot, nextIndex, scanned, mutex,
          hosts, verdict>>

Smaller(a, b) == IF a < b THEN a ELSE b

(* Hosts live in the half-open range [FirstIndex, LastIndex): neither the  *)
(* network address nor the broadcast address is one of them.               *)
FirstIndex  == 1
LastIndex   == IF MaxHosts > 1 THEN MaxHosts - 1 ELSE FirstIndex
TotalHosts  == LastIndex - FirstIndex
WorkerCount == Smaller(MaxThreads, TotalHosts)

Workers == 1..WorkerCount
Indices == FirstIndex..(LastIndex - 1)
Free    == 0

(* Variant: the sum is not compared with the end of the address space.     *)
HasAnyAddress(i) == BaseAddress + i >= BaseAddress

(* ethernet_address_factory::calculate_new_address() for an IPv4 base.     *)
HasAddress(i) == BaseAddress + i <= MaxAddress

Verdicts == {"unknown", "noAddress", "rejected", "suitable"}

Init ==
  /\ main = "spawn"
  /\ spawned = 0
  /\ joined = 0
  /\ pc = [w \in Workers |-> "unborn"]
  /\ index = [w \in Workers |-> 0]
  /\ slot = [w \in Workers |-> 0]
  /\ nextIndex = FirstIndex
  /\ scanned = 0
  /\ mutex = Free
  /\ hosts = <<>>
  /\ verdict = [i \in Indices |-> "unknown"]

-----------------------------------------------------------------------------
(* The calling thread.                                                     *)

Spawn(w) ==
  /\ main = "spawn"
  /\ w = spawned + 1
  /\ spawned' = w
  /\ pc' = [pc EXCEPT ![w] = "claim"]
  /\ UNCHANGED <<main, joined, index, slot, nextIndex, scanned, mutex, hosts,
                 verdict>>

AllSpawned ==
  /\ main = "spawn"
  /\ spawned = WorkerCount
  /\ main' = "join"
  /\ UNCHANGED <<spawned, joined, pc, index, slot, nextIndex, scanned, mutex,
                 hosts, verdict>>

(* Variant: the thread is detached.                                        *)
JoinAtOnce(w) ==
  /\ main = "join"
  /\ w = joined + 1
  /\ joined' = w
  /\ UNCHANGED <<main, spawned, pc, index, slot, nextIndex, scanned, mutex,
                 hosts, verdict>>

Join(w) ==
  /\ main = "join"
  /\ w = joined + 1
  /\ pc[w] = "done"
  /\ joined' = w
  /\ UNCHANGED <<main, spawned, pc, index, slot, nextIndex, scanned, mutex,
                 hosts, verdict>>

(* Variant: the last thread is not joined.                                 *)
ReturnEarly ==
  /\ main = "join"
  /\ joined >= WorkerCount - 1
  /\ main' = "returned"
  /\ UNCHANGED <<spawned, joined, pc, index, slot, nextIndex, scanned, mutex,
                 hosts, verdict>>

Return ==
  /\ main = "join"
  /\ joined = WorkerCount
  /\ main' = "returned"
  /\ UNCHANGED <<spawned, joined, pc, index, slot, nextIndex, scanned, mutex,
                 hosts, verdict>>

-----------------------------------------------------------------------------
(* A worker.                                                               *)

(* Variant: a load and a store, so that an increment may be lost.          *)
ClaimLoadStore(w) ==
  /\ pc[w] = "claim"
  /\ nextIndex' \in {nextIndex, nextIndex + 1}
  /\ IF nextIndex < LastIndex
     THEN /\ index' = [index EXCEPT ![w] = nextIndex]
          /\ pc' = [pc EXCEPT ![w] = "address"]
     ELSE /\ pc' = [pc EXCEPT ![w] = "done"]
          /\ UNCHANGED index
  /\ UNCHANGED <<main, spawned, joined, slot, scanned, mutex, hosts, verdict>>

(* next_index.fetch_add(1), and the end of the loop when none is left.     *)
Claim(w) ==
  /\ pc[w] = "claim"
  /\ nextIndex' = nextIndex + 1
  /\ IF nextIndex < LastIndex
     THEN /\ index' = [index EXCEPT ![w] = nextIndex]
          /\ pc' = [pc EXCEPT ![w] = "address"]
     ELSE /\ pc' = [pc EXCEPT ![w] = "done"]
          /\ UNCHANGED index
  /\ UNCHANGED <<main, spawned, joined, slot, scanned, mutex, hosts, verdict>>

(* The end of an iteration, where host_index goes out of scope.            *)
Drop(w) ==
  /\ index' = [index EXCEPT ![w] = 0]
  /\ pc' = [pc EXCEPT ![w] = "claim"]

(* calculate_new_address() finds no address for the index.                 *)
NoAddress(w) ==
  /\ pc[w] = "address"
  /\ ~HasAddress(index[w])
  /\ verdict' = [verdict EXCEPT ![index[w]] = "noAddress"]
  /\ Drop(w)
  /\ UNCHANGED <<main, spawned, joined, slot, nextIndex, scanned, mutex,
                 hosts>>

StartProbe(w) ==
  /\ pc[w] = "address"
  /\ HasAddress(index[w])
  /\ scanned' = scanned + 1
  /\ pc' = [pc EXCEPT ![w] = "probe"]
  /\ UNCHANGED <<main, spawned, joined, index, slot, nextIndex, mutex, hosts,
                 verdict>>

(* is_host_reachable() or is_host_suitable() says no.                      *)
Reject(w) ==
  /\ pc[w] = "probe"
  /\ verdict' = [verdict EXCEPT ![index[w]] = "rejected"]
  /\ Drop(w)
  /\ UNCHANGED <<main, spawned, joined, slot, nextIndex, scanned, mutex,
                 hosts>>

(* Both say yes and the device object is made.                             *)
Accept(w) ==
  /\ pc[w] = "probe"
  /\ verdict' = [verdict EXCEPT ![index[w]] = "suitable"]
  /\ pc' = [pc EXCEPT ![w] = "lock"]
  /\ UNCHANGED <<main, spawned, joined, index, slot, nextIndex, scanned,
                 mutex, hosts>>

(* Variant: no lock_guard.                                                 *)
LockAlways(w) ==
  /\ pc[w] = "lock"
  /\ mutex' = w
  /\ pc' = [pc EXCEPT ![w] = "append"]
  /\ UNCHANGED <<main, spawned, joined, index, slot, nextIndex, scanned,
                 hosts, verdict>>

Lock(w) ==
  /\ pc[w] = "lock"
  /\ mutex = Free
  /\ mutex' = w
  /\ pc' = [pc EXCEPT ![w] = "append"]
  /\ UNCHANGED <<main, spawned, joined, index, slot, nextIndex, scanned,
                 hosts, verdict>>

(* hosts.push_back() reads the end of the vector ...                       *)
ReadEnd(w) ==
  /\ pc[w] = "append"
  /\ slot' = [slot EXCEPT ![w] = Len(hosts) + 1]
  /\ pc' = [pc EXCEPT ![w] = "store"]
  /\ UNCHANGED <<main, spawned, joined, index, nextIndex, scanned, mutex,
                 hosts, verdict>>

(* Variant: the mutex is not unlocked.                                     *)
StoreLocked(w) ==
  /\ pc[w] = "store"
  /\ hosts' = [i \in 1..slot[w] |-> IF i = slot[w] THEN index[w] ELSE hosts[i]]
  /\ slot' = [slot EXCEPT ![w] = 0]
  /\ Drop(w)
  /\ UNCHANGED <<main, spawned, joined, nextIndex, scanned, mutex, verdict>>

(* ... and writes there; the lock_guard leaves its scope.                  *)
Store(w) ==
  /\ pc[w] = "store"
  /\ hosts' = [i \in 1..slot[w] |-> IF i = slot[w] THEN index[w] ELSE hosts[i]]
  /\ slot' = [slot EXCEPT ![w] = 0]
  /\ mutex' = Free
  /\ Drop(w)
  /\ UNCHANGED <<main, spawned, joined, nextIndex, scanned, verdict>>

Returned == main = "returned" /\ UNCHANGED vars

-----------------------------------------------------------------------------
MainStep == (\E w \in Workers : Spawn(w) \/ Join(w)) \/ AllSpawned \/ Return

WorkerStep(w) ==
  \/ Claim(w) \/ NoAddress(w) \/ StartProbe(w)
  \/ Reject(w) \/ Accept(w)
  \/ Lock(w) \/ ReadEnd(w) \/ Store(w)

Next ==
  \/ AllSpawned
  \/ Return
  \/ \E w \in Workers :
       \/ Spawn(w)
       \/ Join(w)
       \/ Claim(w)
       \/ NoAddress(w)
       \/ StartProbe(w)
       \/ Reject(w)
       \/ Accept(w)
       \/ Lock(w)
       \/ ReadEnd(w)
       \/ Store(w)
  \/ Returned

(* Threads that can run do run; a probe ends, by its timeout at the latest. *)
Fairness == WF_vars(MainStep) /\ \A w \in Workers : WF_vars(WorkerStep(w))

SafetySpec == Init /\ [][Next]_vars
Spec       == SafetySpec /\ Fairness

-----------------------------------------------------------------------------
Collected == {hosts[k] : k \in 1..Len(hosts)}
Holding   == {"address", "probe", "lock", "append", "store"}

(* Type invariant of the scan.                                             *)
TypeOK ==
  /\ main \in {"spawn", "join", "returned"}
  /\ spawned \in 0..WorkerCount
  /\ joined \in 0..WorkerCount
  /\ pc \in [Workers -> Holding \cup {"unborn", "claim", "done"}]
  /\ index \in [Workers -> Nat]
  /\ slot \in [Workers -> Nat]
  /\ nextIndex \in Nat
  /\ scanned \in Nat
  /\ mutex \in Workers \cup {Free}
  /\ hosts \in Seq(Indices)
  /\ verdict \in [Indices -> Verdicts]

(* Two workers never have the same host in hand, so no host is connected   *)
(* to twice at a time and none is listed twice.                            *)
EachHostHasOneWorker ==
  \A v, w \in Workers :
    pc[v] \in Holding /\ pc[w] \in Holding /\ index[v] = index[w] => v = w

(* Only addresses strictly between the network address and the broadcast   *)
(* address are probed, and none beyond the address space, even when the    *)
(* base address and the host count do not belong together.                 *)
ProbesStayInside ==
  \A w \in Workers :
    pc[w] = "probe" => LET address == BaseAddress + index[w]
                       IN  /\ BaseAddress < address
                           /\ address < BaseAddress + MaxHosts - 1
                           /\ address <= MaxAddress

(* When the scan returns it returns every suitable host exactly once, and  *)
(* every host of the network was decided.                                  *)
ScanComplete ==
  main = "returned" =>
    /\ \A i \in Indices : verdict[i] # "unknown"
    /\ Collected = {i \in Indices : verdict[i] = "suitable"}
    /\ \A j, k \in 1..Len(hosts) : hosts[j] = hosts[k] => j = k

(* The vector only grows: a device that was listed stays listed.           *)
NoDeviceIsLost == [][\A k \in 1..Len(hosts) :
                       k <= Len(hosts') /\ hosts'[k] = hosts[k]]_vars

(* The scan returns: every worker runs out of hosts and is joined.         *)
ScanReturns == <>(main = "returned")

-----------------------------------------------------------------------------
(* The inductive invariant of the proofs: every host below next_index is   *)
(* decided or in the hands of one worker, and no host above it is touched. *)

HandOf(w) ==
  /\ pc[w] \in Holding => index[w] \in Indices /\ index[w] < nextIndex
  /\ pc[w] = "probe" => HasAddress(index[w])
  /\ pc[w] \in {"address", "probe"} => verdict[index[w]] = "unknown"
  /\ pc[w] \in {"lock", "append", "store"} =>
       verdict[index[w]] = "suitable" /\ index[w] \notin Collected

HandsInv == EachHostHasOneWorker /\ \A w \in Workers : HandOf(w)

HostsInv ==
  /\ nextIndex >= FirstIndex
  /\ \A i \in Indices : i >= nextIndex => verdict[i] = "unknown"
  /\ \A i \in Indices :
       i < nextIndex /\ verdict[i] = "unknown" =>
         \E w \in Workers : pc[w] \in {"address", "probe"} /\ index[w] = i
  /\ \A i \in Indices :
       verdict[i] = "suitable" =>
         \/ i \in Collected
         \/ \E w \in Workers : pc[w] \in {"lock", "append", "store"} /\ index[w] = i
  /\ \A k \in 1..Len(hosts) : verdict[hosts[k]] = "suitable"
  /\ \A j, k \in 1..Len(hosts) : hosts[j] = hosts[k] => j = k

MutexInv ==
  \A w \in Workers :
    /\ pc[w] \in {"append", "store"} => mutex = w
    /\ pc[w] = "store" => slot[w] = Len(hosts) + 1

JoinInv ==
  /\ \A w \in Workers : w > spawned => pc[w] = "unborn"
  /\ \A w \in Workers : pc[w] = "done" => nextIndex >= LastIndex
  /\ \A w \in Workers : w <= joined => pc[w] = "done"
  /\ main = "returned" => joined = WorkerCount

IInv == TypeOK /\ HandsInv /\ HostsInv /\ MutexInv /\ JoinInv

-----------------------------------------------------------------------------
(* The refinement: a host is decided when it was refused, when it has no   *)
(* address, or when it is in the vector.                                   *)
Pending == {i \in Indices : \/ verdict[i] = "unknown"
                            \/ verdict[i] = "suitable" /\ i \notin Collected}

Scan == INSTANCE HostScan
          WITH Hosts <- Indices, pending <- Pending, found <- Collected,
               returned <- (main = "returned")

(* The pool of workers does what one thread that decides each host once    *)
(* would do.                                                               *)
ImplementsHostScan == Scan!Spec
=============================================================================
