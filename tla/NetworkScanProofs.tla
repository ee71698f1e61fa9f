------------------------- MODULE NetworkScanProofs -------------------------
(***************************************************************************)
(* What is proved of NetworkScan for every number of threads, every number *)
(* of hosts and every base address.                                        *)
(***************************************************************************)
EXTENDS NetworkScan, SequenceTheorems, TLAPS

(***************************************************************************)
(* The range of indices, including the networks too small to hold a host.  *)
(***************************************************************************)
LEMMA Ranges ==
  /\ LastIndex \in Nat \ {0}
  /\ WorkerCount \in Nat
  /\ Workers \subseteq Nat \ {0}
  /\ Indices \subseteq Nat
  /\ \A i \in Nat : i \in Indices <=> 1 <= i /\ i < LastIndex
  /\ Indices # {} => 1 \in Workers
<1>1. LastIndex \in Nat \ {0}
  BY HostsAssumption DEF LastIndex, FirstIndex
<1>2. TotalHosts \in Nat
  BY <1>1 DEF TotalHosts, FirstIndex
<1>3. WorkerCount \in Nat
  BY <1>2, ThreadsAssumption DEF WorkerCount, Smaller
<1>4. \A i \in Nat : i \in Indices <=> 1 <= i /\ i < LastIndex
  BY <1>1 DEF Indices, FirstIndex
<1>5. Indices \subseteq Nat /\ Workers \subseteq Nat \ {0}
  BY <1>1, <1>3 DEF Indices, FirstIndex, Workers
<1>6. ASSUME NEW i \in Indices PROVE 1 \in Workers
  <2>1. 1 < LastIndex
    BY <1>1, <1>4, <1>5
  <2>2. TotalHosts >= 1
    BY <1>1, <2>1 DEF TotalHosts, FirstIndex
  <2>3. WorkerCount >= 1
    BY <1>2, <2>2, ThreadsAssumption DEF WorkerCount, Smaller
  <2>4. QED
    BY <1>3, <2>3 DEF Workers
<1>7. QED
  BY <1>1, <1>3, <1>4, <1>5, <1>6

(***************************************************************************)
(* Two sequences with the same domain have the same length.                *)
(***************************************************************************)
LEMMA IntervalsEqual ==
  ASSUME NEW a \in Nat, NEW b \in Nat, 1..a = 1..b
  PROVE  a = b
<1>1. a > 0 => a \in 1..a
  OBVIOUS
<1>2. b > 0 => b \in 1..b
  OBVIOUS
<1>3. (a > 0 => a \in 1..b) /\ (b > 0 => b \in 1..a)
  BY <1>1, <1>2
<1>4. (a > 0 => a <= b) /\ (b > 0 => b <= a)
  BY <1>3
<1>5. QED
  BY <1>4

(***************************************************************************)
(* Under the mutex, push_back appends.                                     *)
(***************************************************************************)
LEMMA StoreAppends ==
  ASSUME IInv, NEW w \in Workers, Store(w)
  PROVE  /\ hosts' \in Seq(Indices)
         /\ Len(hosts) \in Nat
         /\ Len(hosts') = Len(hosts) + 1
         /\ hosts'[Len(hosts) + 1] = index[w]
         /\ \A k \in 1..Len(hosts) : hosts'[k] = hosts[k]
         /\ Collected' = Collected \cup {index[w]}
<1> DEFINE n == Len(hosts) + 1
<1>1. hosts \in Seq(Indices) /\ Len(hosts) \in Nat
  BY LenProperties DEF IInv, TypeOK
<1>2. slot[w] = n /\ index[w] \in Indices
  BY DEF IInv, MutexInv, HandsInv, HandOf, Holding, Store
<1>3. hosts' = [i \in 1..n |-> IF i = n THEN index[w] ELSE hosts[i]]
  BY <1>2 DEF Store
<1>4. n \in Nat /\ n >= 1
  BY <1>1
<1>5. \A k \in 1..Len(hosts) : hosts[k] \in Indices
  BY <1>1, ElementOfSeq
<1>6. hosts' \in [1..n -> Indices]
  BY <1>1, <1>2, <1>3, <1>5
<1>7. hosts' \in Seq(Indices)
  BY <1>4, <1>6, SeqDef
<1>8. Len(hosts') = n
  <2>1. Len(hosts') \in Nat /\ DOMAIN hosts' = 1..Len(hosts')
    BY <1>7, LenProperties
  <2>2. 1..Len(hosts') = 1..n
    BY <1>6, <2>1
  <2>3. QED
    BY <1>4, <2>1, <2>2, IntervalsEqual
<1>9. hosts'[n] = index[w] /\ \A k \in 1..Len(hosts) : hosts'[k] = hosts[k]
  BY <1>1, <1>3
<1>10. Collected' = Collected \cup {index[w]}
  BY <1>1, <1>8, <1>9 DEF Collected
<1>11. QED
  BY <1>1, <1>7, <1>8, <1>9, <1>10

-----------------------------------------------------------------------------
(***************************************************************************)
(* The inductive invariant.                                                *)
(***************************************************************************)
LEMMA IInvInit == Init => IInv
<1> SUFFICES ASSUME Init PROVE IInv
  OBVIOUS
<1>1. TypeOK
  BY Ranges, EmptySeq
  DEF Init, TypeOK, Workers, FirstIndex, Verdicts
<1>2. HandsInv
  BY DEF Init, HandsInv, HandOf, EachHostHasOneWorker, Holding
<1>3. HostsInv
  BY Ranges, EmptySeq DEF Init, HostsInv, FirstIndex
<1>4. MutexInv /\ JoinInv
  BY Ranges DEF Init, MutexInv, JoinInv, Workers
<1>5. QED
  BY <1>1, <1>2, <1>3, <1>4 DEF IInv

LEMMA TypeOKNext == IInv /\ [Next]_vars => TypeOK'
<1> SUFFICES ASSUME IInv, [Next]_vars PROVE TypeOK'
  OBVIOUS
<1>1. TypeOK /\ Free \notin Workers /\ Workers \subseteq Nat
  BY Ranges DEF IInv, Free
<1> USE DEF TypeOK, Holding, Verdicts
<1>2. ASSUME NEW w \in Workers, Spawn(w) PROVE TypeOK'
  BY <1>1, <1>2, Ranges DEF Spawn, Workers
<1>3. CASE AllSpawned
  BY <1>1, <1>3 DEF AllSpawned
<1>4. ASSUME NEW w \in Workers, Join(w) PROVE TypeOK'
  BY <1>1, <1>4, Ranges DEF Join, Workers
<1>5. CASE Return
  BY <1>1, <1>5 DEF Return
<1>6. ASSUME NEW w \in Workers, Claim(w) PROVE TypeOK'
  BY <1>1, <1>6, SMTT(30) DEF Claim
<1>7. ASSUME NEW w \in Workers,
             NoAddress(w) \/ StartProbe(w) \/ Reject(w) \/ Accept(w)
      PROVE  TypeOK'
  <2>1. CASE NoAddress(w)
    BY <1>1, <2>1 DEF NoAddress, Drop
  <2>2. CASE StartProbe(w)
    BY <1>1, <2>2 DEF StartProbe
  <2>3. CASE Reject(w)
    BY <1>1, <2>3 DEF Reject, Drop
  <2>4. CASE Accept(w)
    BY <1>1, <2>4 DEF Accept
  <2>5. QED
    BY <1>7, <2>1, <2>2, <2>3, <2>4
<1>8. ASSUME NEW w \in Workers, Lock(w) PROVE TypeOK'
  BY <1>1, <1>8 DEF Lock
<1>9. ASSUME NEW w \in Workers, ReadEnd(w) PROVE TypeOK'
  <2>1. Len(hosts) + 1 \in Nat
    BY <1>1, LenProperties
  <2>2. QED
    BY <1>1, <1>9, <2>1 DEF ReadEnd
<1>10. ASSUME NEW w \in Workers, Store(w) PROVE TypeOK'
  <2>1. hosts' \in Seq(Indices)
    BY <1>10, StoreAppends
  <2>2. QED
    BY <1>1, <1>10, <2>1 DEF Store, Drop
<1>11. CASE Returned \/ UNCHANGED vars
  BY <1>1, <1>11 DEF Returned, vars
<1>12. QED
  BY <1>2, <1>3, <1>4, <1>5, <1>6, <1>7, <1>8, <1>9, <1>10, <1>11 DEF Next

(***************************************************************************)
(* Claim is where the hands of the workers could meet: the counter moves   *)
(* past the host in the same step that takes it.                           *)
(***************************************************************************)
LEMMA ClaimKeepsHands ==
  ASSUME IInv, NEW w \in Workers, Claim(w), TypeOK'
  PROVE  HandsInv' /\ HostsInv' /\ MutexInv' /\ JoinInv'
<1> USE Ranges
<1>1. /\ TypeOK /\ HandsInv /\ HostsInv /\ MutexInv /\ JoinInv
      /\ nextIndex \in Nat /\ nextIndex >= 1
      /\ pc \in [Workers -> Holding \cup {"unborn", "claim", "done"}]
      /\ index \in [Workers -> Nat]
  BY DEF IInv, TypeOK, HostsInv, FirstIndex
<1>2. /\ pc[w] = "claim" /\ nextIndex' = nextIndex + 1
      /\ UNCHANGED <<main, spawned, joined, slot, scanned, mutex, hosts,
                     verdict>>
      /\ \A v \in Workers \ {w} : pc'[v] = pc[v] /\ index'[v] = index[v]
  BY <1>1 DEF Claim
<1>3. Collected' = Collected
  BY <1>2 DEF Collected
<1>4. CASE nextIndex < LastIndex
  <2>1. pc'[w] = "address" /\ index'[w] = nextIndex /\ nextIndex \in Indices
    BY <1>1, <1>4 DEF Claim
  <2>2. \A v \in Workers \ {w} : pc[v] \in Holding => index[v] < nextIndex
    BY <1>1 DEF HandsInv, HandOf
  <2>3. HandsInv'
    <3>1. EachHostHasOneWorker'
      BY <1>1, <1>2, <2>1, <2>2 DEF HandsInv, EachHostHasOneWorker
    <3>2. verdict[nextIndex] = "unknown"
      BY <1>1, <2>1 DEF HostsInv
    <3>3. ASSUME NEW v \in Workers
          PROVE  HandOf(v)'
      <4>1. CASE v = w
        BY <1>1, <1>2, <2>1, <3>2, <4>1 DEF HandOf
      <4>2. CASE v # w
        <5>1. pc'[v] = pc[v] /\ index'[v] = index[v] /\ verdict' = verdict
              /\ nextIndex' = nextIndex + 1
          BY <1>2, <4>2
        <5>2. HandOf(v)
          BY <1>1 DEF HandsInv
        <5>3. index[v] \in Nat
          BY <1>1
        <5>4. QED
          BY <1>1, <1>3, <5>1, <5>2, <5>3 DEF HandOf, HasAddress
      <4>3. QED
        BY <4>1, <4>2
    <3>4. QED
      BY <3>1, <3>3 DEF HandsInv
  <2>4. HostsInv'
    <3>1. ASSUME NEW i \in Indices, i < nextIndex', verdict'[i] = "unknown"
          PROVE  \E v \in Workers : pc'[v] \in {"address", "probe"} /\ index'[v] = i
      <4>1. CASE i = nextIndex
        BY <2>1, <4>1
      <4>2. CASE i # nextIndex
        <5>1. i \in Nat /\ i < nextIndex
          BY <1>1, <1>2, <3>1, <4>2
        <5>2. PICK v \in Workers : pc[v] \in {"address", "probe"} /\ index[v] = i
          BY <1>1, <1>2, <3>1, <5>1 DEF HostsInv
        <5>3. v # w
          BY <1>2, <5>2
        <5>4. QED
          BY <1>2, <5>2, <5>3
      <4>3. QED
        BY <4>1, <4>2
    <3>2. ASSUME NEW i \in Indices, verdict'[i] = "suitable", i \notin Collected'
          PROVE  \E v \in Workers :
                   pc'[v] \in {"lock", "append", "store"} /\ index'[v] = i
      <4>1. PICK v \in Workers :
              pc[v] \in {"lock", "append", "store"} /\ index[v] = i
        BY <1>1, <1>2, <1>3, <3>2 DEF HostsInv
      <4>2. v # w
        BY <1>2, <4>1
      <4>3. QED
        BY <1>2, <4>1, <4>2
    <3>3. /\ nextIndex' >= FirstIndex
          /\ \A i \in Indices : i >= nextIndex' => verdict'[i] = "unknown"
      BY <1>1, <1>2 DEF HostsInv, FirstIndex
    <3>4. /\ \A k \in 1..Len(hosts') : verdict'[hosts'[k]] = "suitable"
          /\ \A j, k \in 1..Len(hosts') : hosts'[j] = hosts'[k] => j = k
      BY <1>1, <1>2 DEF HostsInv
    <3>5. QED
      BY <3>1, <3>2, <3>3, <3>4 DEF HostsInv
  <2>5. MutexInv'
    BY <1>1, <1>2, <2>1 DEF MutexInv
  <2>6. JoinInv'
    BY <1>1, <1>2, <2>1 DEF JoinInv
  <2>7. QED
    BY <2>3, <2>4, <2>5, <2>6
<1>5. CASE ~(nextIndex < LastIndex)
  <2>1. pc'[w] = "done" /\ index' = index
    BY <1>1, <1>5 DEF Claim
  <2>2. HandsInv'
    <3>1. \A v \in Workers : pc'[v] \in Holding => v # w /\ pc'[v] = pc[v]
      BY <1>2, <2>1 DEF Holding
    <3>2. EachHostHasOneWorker'
      BY <1>1, <2>1, <3>1 DEF HandsInv, EachHostHasOneWorker
    <3>3. ASSUME NEW v \in Workers
          PROVE  HandOf(v)'
      <4>1. CASE pc'[v] \in Holding
        <5>1. pc'[v] = pc[v] /\ index[v] \in Nat
          BY <1>1, <3>1, <4>1
        <5>2. HandOf(v)
          BY <1>1 DEF HandsInv
        <5>3. QED
          BY <1>1, <1>2, <1>3, <2>1, <5>1, <5>2 DEF HandOf, HasAddress
      <4>2. CASE pc'[v] \notin Holding
        BY <4>2 DEF HandOf, Holding
      <4>3. QED
        BY <4>1, <4>2
    <3>4. QED
      BY <3>2, <3>3 DEF HandsInv
  <2>3. HostsInv'
    <3>1. ASSUME NEW i \in Indices, verdict'[i] = "unknown"
          PROVE  \E v \in Workers : pc'[v] \in {"address", "probe"} /\ index'[v] = i
      <4>1. i < nextIndex
        BY <1>1, <1>5
      <4>2. PICK v \in Workers : pc[v] \in {"address", "probe"} /\ index[v] = i
        BY <1>1, <1>2, <3>1, <4>1 DEF HostsInv
      <4>3. v # w
        BY <1>2, <4>2
      <4>4. QED
        BY <1>2, <4>2, <4>3
    <3>2. ASSUME NEW i \in Indices, verdict'[i] = "suitable", i \notin Collected'
          PROVE  \E v \in Workers :
                   pc'[v] \in {"lock", "append", "store"} /\ index'[v] = i
      <4>1. PICK v \in Workers :
              pc[v] \in {"lock", "append", "store"} /\ index[v] = i
        BY <1>1, <1>2, <1>3, <3>2 DEF HostsInv
      <4>2. v # w
        BY <1>2, <4>1
      <4>3. QED
        BY <1>2, <4>1, <4>2
    <3>3. /\ nextIndex' >= FirstIndex
          /\ \A i \in Indices : i >= nextIndex' => verdict'[i] = "unknown"
      BY <1>1, <1>2 DEF HostsInv, FirstIndex
    <3>4. /\ \A k \in 1..Len(hosts') : verdict'[hosts'[k]] = "suitable"
          /\ \A j, k \in 1..Len(hosts') : hosts'[j] = hosts'[k] => j = k
      BY <1>1, <1>2 DEF HostsInv
    <3>5. QED
      BY <3>1, <3>2, <3>3, <3>4 DEF HostsInv
  <2>4. MutexInv'
    BY <1>1, <1>2, <2>1 DEF MutexInv
  <2>5. JoinInv'
    BY <1>1, <1>2, <1>5, <2>1 DEF JoinInv
  <2>6. QED
    BY <2>2, <2>3, <2>4, <2>5
<1>6. QED
  BY <1>4, <1>5

(***************************************************************************)
(* A step of a worker with its own host leaves the hands of the others and *)
(* the account of the other hosts alone.                                   *)
(***************************************************************************)
LEMMA OthersUntouched ==
  ASSUME IInv, NEW w \in Workers, pc[w] \in Holding,
         \A v \in Workers \ {w} : pc'[v] = pc[v] /\ index'[v] = index[v],
         pc'[w] \in Holding => index'[w] = index[w],
         nextIndex' = nextIndex,
         \A i \in Indices \ {index[w]} : verdict'[i] = verdict[i],
         Collected' \in {Collected, Collected \cup {index[w]}},
         verdict'[index[w]] = "unknown" => pc'[w] \in {"address", "probe"},
         verdict'[index[w]] = "suitable" =>
           index[w] \in Collected' \/ pc'[w] \in {"lock", "append", "store"}
  PROVE  /\ EachHostHasOneWorker'
         /\ \A v \in Workers \ {w} : HandOf(v)'
         /\ nextIndex' >= FirstIndex
         /\ \A i \in Indices : i >= nextIndex' => verdict'[i] = "unknown"
         /\ \A i \in Indices :
              i < nextIndex' /\ verdict'[i] = "unknown" =>
                \E v \in Workers : pc'[v] \in {"address", "probe"} /\ index'[v] = i
         /\ \A i \in Indices :
              verdict'[i] = "suitable" =>
                \/ i \in Collected'
                \/ \E v \in Workers :
                     pc'[v] \in {"lock", "append", "store"} /\ index'[v] = i
<1> USE Ranges
<1>1. /\ HandsInv /\ HostsInv
      /\ nextIndex \in Nat
      /\ index[w] \in Indices /\ index[w] < nextIndex
      /\ {"address", "probe", "lock", "append", "store"} \subseteq Holding
  BY DEF IInv, TypeOK, HandsInv, HandOf, Holding
<1>2. EachHostHasOneWorker'
  BY <1>1 DEF HandsInv, EachHostHasOneWorker
<1>3. ASSUME NEW v \in Workers \ {w} PROVE HandOf(v)'
  <2>1. HandOf(v)
    BY <1>1 DEF HandsInv
  <2>2. pc'[v] = pc[v] /\ index'[v] = index[v]
    OBVIOUS
  <2>3. CASE pc[v] \in Holding
    <3>1. index[v] \in Indices \ {index[w]}
      BY <1>1, <2>1, <2>3 DEF HandsInv, EachHostHasOneWorker, HandOf
    <3>2. verdict'[index[v]] = verdict[index[v]]
          /\ (index[v] \in Collected' => index[v] \in Collected)
      BY <3>1
    <3>3. QED
      BY <2>1, <2>2, <3>2 DEF HandOf, HasAddress
  <2>4. CASE pc[v] \notin Holding
    BY <1>1, <2>2, <2>4 DEF HandOf
  <2>5. QED
    BY <2>3, <2>4
<1>4. nextIndex' >= FirstIndex
      /\ \A i \in Indices : i >= nextIndex' => verdict'[i] = "unknown"
  BY <1>1 DEF HostsInv, FirstIndex
<1>5. ASSUME NEW i \in Indices, i < nextIndex', verdict'[i] = "unknown"
      PROVE  \E v \in Workers : pc'[v] \in {"address", "probe"} /\ index'[v] = i
  <2>1. CASE i = index[w]
    BY <1>1, <1>5, <2>1
  <2>2. CASE i # index[w]
    <3>1. PICK v \in Workers : pc[v] \in {"address", "probe"} /\ index[v] = i
      BY <1>1, <1>5, <2>2 DEF HostsInv
    <3>2. QED
      BY <2>2, <3>1
  <2>3. QED
    BY <2>1, <2>2
<1>6. ASSUME NEW i \in Indices, verdict'[i] = "suitable", i \notin Collected'
      PROVE  \E v \in Workers :
               pc'[v] \in {"lock", "append", "store"} /\ index'[v] = i
  <2>1. CASE i = index[w]
    BY <1>1, <1>6, <2>1
  <2>2. CASE i # index[w]
    <3>1. PICK v \in Workers :
            pc[v] \in {"lock", "append", "store"} /\ index[v] = i
      BY <1>1, <1>6, <2>2 DEF HostsInv
    <3>2. QED
      BY <2>2, <3>1
  <2>3. QED
    BY <2>1, <2>2
<1>7. QED
  BY <1>2, <1>3, <1>4, <1>5, <1>6

LEMMA IInvNext == IInv /\ [Next]_vars => IInv'
<1> SUFFICES ASSUME IInv, [Next]_vars PROVE IInv'
  OBVIOUS
<1> USE Ranges
<1>1. /\ TypeOK' /\ TypeOK /\ HandsInv /\ HostsInv /\ MutexInv /\ JoinInv
      /\ pc \in [Workers -> Holding \cup {"unborn", "claim", "done"}]
      /\ index \in [Workers -> Nat] /\ slot \in [Workers -> Nat]
      /\ verdict \in [Indices -> Verdicts]
      /\ spawned \in Nat /\ joined \in Nat
      /\ \A v \in Workers : HandOf(v)
  <2>1. TypeOK'
    BY TypeOKNext
  <2>2. TypeOK /\ HandsInv /\ HostsInv /\ MutexInv /\ JoinInv
    BY DEF IInv
  <2>3. spawned \in Nat /\ joined \in Nat
    BY <2>2 DEF TypeOK
  <2>4. QED
    BY <2>1, <2>2, <2>3 DEF TypeOK, HandsInv
\* The steps in which no worker moves.
<1>2. ASSUME AllSpawned \/ Return \/ Returned \/ UNCHANGED vars PROVE IInv'
  <2>1. UNCHANGED <<spawned, joined, pc, index, slot, nextIndex, mutex, hosts,
                    verdict>>
    BY <1>2 DEF AllSpawned, Return, Returned, vars
  <2>2. HandsInv' /\ HostsInv'
    BY <1>1, <2>1 DEF HandsInv, HandOf, HostsInv, EachHostHasOneWorker,
       Collected
  <2>3. MutexInv' /\ JoinInv'
    BY <1>1, <1>2, <2>1
    DEF MutexInv, JoinInv, AllSpawned, Return, Returned, vars
  <2>4. QED
    BY <1>1, <2>2, <2>3 DEF IInv
<1>3. ASSUME NEW w \in Workers, Join(w) PROVE IInv'
  <2>1. UNCHANGED <<spawned, pc, index, slot, nextIndex, mutex, hosts,
                    verdict>>
    BY <1>3 DEF Join
  <2>2. HandsInv' /\ HostsInv'
    BY <1>1, <2>1 DEF HandsInv, HandOf, HostsInv, EachHostHasOneWorker,
       Collected
  <2>3. MutexInv' /\ JoinInv'
    BY <1>1, <1>3, <2>1 DEF MutexInv, JoinInv, Join
  <2>4. QED
    BY <1>1, <2>2, <2>3 DEF IInv
<1>4. ASSUME NEW w \in Workers, Spawn(w) PROVE IInv'
  <2>1. /\ UNCHANGED <<main, joined, index, slot, nextIndex, mutex, hosts,
                       verdict>>
        /\ \A v \in Workers \ {w} : pc'[v] = pc[v]
        /\ pc[w] = "unborn" /\ pc'[w] = "claim"
    <3>1. w > spawned
      BY <1>1, <1>4 DEF Spawn
    <3>2. QED
      BY <1>1, <1>4, <3>1 DEF Spawn, JoinInv
  <2>2. HandsInv'
    <3>1. Collected' = Collected
      BY <2>1 DEF Collected
    <3>2. \A v \in Workers : v # w => HandOf(v)'
      BY <1>1, <2>1, <3>1 DEF HandOf, HasAddress
    <3>3. HandOf(w)' /\ pc'[w] \notin Holding
      BY <2>1 DEF HandOf, Holding
    <3>4. EachHostHasOneWorker'
      BY <1>1, <2>1, <3>3 DEF HandsInv, EachHostHasOneWorker
    <3>5. QED
      BY <3>2, <3>3, <3>4 DEF HandsInv
  <2>3. HostsInv'
    <3>1. ASSUME NEW v \in Workers, pc[v] \in Holding PROVE pc'[v] = pc[v]
      BY <2>1, <3>1 DEF Holding
    <3>2. ASSUME NEW i \in Indices,
                 \E v \in Workers : pc[v] \in {"address", "probe"} /\ index[v] = i
          PROVE  \E v \in Workers : pc'[v] \in {"address", "probe"} /\ index'[v] = i
      BY <2>1, <3>1, <3>2 DEF Holding
    <3>3. ASSUME NEW i \in Indices,
                 \E v \in Workers : pc[v] \in {"lock", "append", "store"} /\ index[v] = i
          PROVE  \E v \in Workers : pc'[v] \in {"lock", "append", "store"} /\ index'[v] = i
      BY <2>1, <3>1, <3>3 DEF Holding
    <3>4. Collected' = Collected
      BY <2>1 DEF Collected
    <3>5. QED
      BY <1>1, <2>1, <3>2, <3>3, <3>4, SMTT(30) DEF HostsInv
  <2>4. MutexInv'
    BY <1>1, <2>1 DEF MutexInv
  <2>5. JoinInv'
    BY <1>1, <1>4, <2>1 DEF JoinInv, Spawn
  <2>6. QED
    BY <1>1, <2>2, <2>3, <2>4, <2>5 DEF IInv
<1>5. ASSUME NEW w \in Workers, Claim(w) PROVE IInv'
  BY <1>1, <1>5, ClaimKeepsHands DEF IInv
\* A worker gives its host up, because it has no address or is rejected.
<1>6. ASSUME NEW w \in Workers, NoAddress(w) \/ Reject(w) PROVE IInv'
  <2>1. /\ pc[w] \in {"address", "probe"} /\ pc'[w] = "claim"
        /\ UNCHANGED <<main, spawned, joined, slot, nextIndex, mutex, hosts>>
        /\ \A v \in Workers \ {w} : pc'[v] = pc[v] /\ index'[v] = index[v]
    BY <1>1, <1>6 DEF NoAddress, Reject, Drop
  <2>2. pc[w] \in Holding /\ index[w] \in Indices /\ index[w] \notin Collected
    <3>1. pc[w] \in Holding /\ index[w] \in Indices /\ verdict[index[w]] = "unknown"
      BY <1>1, <2>1 DEF HandOf, Holding
    <3>2. QED
      BY <1>1, <3>1 DEF HostsInv, Collected
  <2>3. /\ \A i \in Indices \ {index[w]} : verdict'[i] = verdict[i]
        /\ verdict'[index[w]] \in {"noAddress", "rejected"}
    BY <1>1, <1>6, <2>2 DEF NoAddress, Reject
  <2>4. Collected' = Collected
    BY <2>1 DEF Collected
  <2>5. HandsInv' /\ HostsInv'
    <3>1. HandOf(w)'
      BY <2>1 DEF HandOf, Holding
    <3>2. pc'[w] \notin Holding
      BY <2>1 DEF Holding
    <3>3. /\ \A k \in 1..Len(hosts') : verdict'[hosts'[k]] = "suitable"
          /\ \A j, k \in 1..Len(hosts') : hosts'[j] = hosts'[k] => j = k
      <4>1. \A k \in 1..Len(hosts) : hosts[k] \in Indices
        BY <1>1, ElementOfSeq DEF TypeOK
      <4>2. \A k \in 1..Len(hosts) : hosts[k] # index[w]
        BY <2>2 DEF Collected
      <4>3. \A k \in 1..Len(hosts) : verdict'[hosts[k]] = verdict[hosts[k]]
        BY <2>3, <4>1, <4>2
      <4>4. QED
        BY <1>1, <2>1, <4>3 DEF HostsInv
    <3>4. QED
      BY <2>1, <2>2, <2>3, <2>4, <3>1, <3>2, <3>3, OthersUntouched
      DEF HandsInv, HostsInv
  <2>6. MutexInv' /\ JoinInv'
    BY <1>1, <2>1 DEF MutexInv, JoinInv
  <2>7. QED
    BY <1>1, <2>5, <2>6 DEF IInv
\* A worker goes on with its host.
<1>7. ASSUME NEW w \in Workers, StartProbe(w) \/ Lock(w) \/ ReadEnd(w)
      PROVE  IInv'
  <2>1. /\ pc[w] \in Holding /\ pc'[w] \in Holding
        /\ pc[w] \in {"address", "probe"} <=> pc'[w] \in {"address", "probe"}
        /\ pc[w] \in {"lock", "append", "store"} <=> pc'[w] \in {"lock", "append", "store"}
        /\ pc'[w] = "probe" => HasAddress(index[w])
        /\ UNCHANGED <<main, spawned, joined, index, nextIndex, hosts,
                       verdict>>
        /\ \A v \in Workers \ {w} : pc'[v] = pc[v] /\ slot'[v] = slot[v]
    <3>1. CASE StartProbe(w)
      BY <1>1, <3>1 DEF StartProbe, Holding
    <3>2. CASE Lock(w)
      BY <1>1, <3>2 DEF Lock, Holding
    <3>3. CASE ReadEnd(w)
      BY <1>1, <3>3 DEF ReadEnd, Holding
    <3>4. QED
      BY <1>7, <3>1, <3>2, <3>3
  <2>2. Collected' = Collected
    BY <2>1 DEF Collected
  <2>3. HandsInv' /\ HostsInv'
    <3>1. HandOf(w)'
      BY <1>1, <2>1, <2>2 DEF HandOf, HasAddress
    <3>2. /\ verdict[index[w]] = "unknown" => pc'[w] \in {"address", "probe"}
          /\ verdict[index[w]] = "suitable" => pc'[w] \in {"lock", "append", "store"}
      BY <1>1, <2>1 DEF HandOf, Holding
    <3>3. /\ \A k \in 1..Len(hosts') : verdict'[hosts'[k]] = "suitable"
          /\ \A j, k \in 1..Len(hosts') : hosts'[j] = hosts'[k] => j = k
      BY <1>1, <2>1 DEF HostsInv
    <3>4. QED
      BY <2>1, <2>2, <3>1, <3>2, <3>3, OthersUntouched DEF HandsInv, HostsInv
  <2>4. MutexInv'
    <3>1. CASE StartProbe(w)
      BY <1>1, <3>1 DEF MutexInv, StartProbe
    <3>2. CASE Lock(w)
      <4>1. \A v \in Workers : pc[v] \notin {"append", "store"}
        BY <1>1, <3>2 DEF MutexInv, Lock, Free
      <4>2. QED
        BY <1>1, <3>2, <4>1 DEF MutexInv, Lock
    <3>3. CASE ReadEnd(w)
      BY <1>1, <3>3 DEF MutexInv, ReadEnd
    <3>4. QED
      BY <1>7, <3>1, <3>2, <3>3
  <2>5. JoinInv'
    BY <1>1, <2>1 DEF JoinInv, Holding
  <2>6. QED
    BY <1>1, <2>3, <2>4, <2>5 DEF IInv
<1>8. ASSUME NEW w \in Workers, Accept(w) PROVE IInv'
  <2>1. /\ pc[w] = "probe" /\ pc'[w] = "lock"
        /\ UNCHANGED <<main, spawned, joined, index, slot, nextIndex, mutex,
                       hosts>>
        /\ \A v \in Workers \ {w} : pc'[v] = pc[v]
    BY <1>1, <1>8 DEF Accept
  <2>2. /\ pc[w] \in Holding /\ index[w] \in Indices /\ index[w] < nextIndex
        /\ index[w] \notin Collected
    <3>1. /\ pc[w] \in Holding /\ index[w] \in Indices /\ index[w] < nextIndex
          /\ verdict[index[w]] = "unknown"
      BY <1>1, <2>1 DEF HandOf, Holding
    <3>2. QED
      BY <1>1, <3>1 DEF HostsInv, Collected
  <2>3. /\ \A i \in Indices \ {index[w]} : verdict'[i] = verdict[i]
        /\ verdict'[index[w]] = "suitable"
    BY <1>1, <1>8, <2>2 DEF Accept
  <2>4. Collected' = Collected
    BY <2>1 DEF Collected
  <2>5. HandsInv' /\ HostsInv'
    <3>1. HandOf(w)'
      BY <2>1, <2>2, <2>3, <2>4 DEF HandOf
    <3>2. /\ \A k \in 1..Len(hosts') : verdict'[hosts'[k]] = "suitable"
          /\ \A j, k \in 1..Len(hosts') : hosts'[j] = hosts'[k] => j = k
      <4>1. \A k \in 1..Len(hosts) : hosts[k] \in Indices
        BY <1>1, ElementOfSeq DEF TypeOK
      <4>2. \A k \in 1..Len(hosts) : hosts[k] # index[w]
        BY <2>2 DEF Collected
      <4>3. \A k \in 1..Len(hosts) : verdict'[hosts[k]] = verdict[hosts[k]]
        BY <2>3, <4>1, <4>2
      <4>4. QED
        BY <1>1, <2>1, <4>3 DEF HostsInv
    <3>3. QED
      BY <2>1, <2>2, <2>3, <2>4, <3>1, <3>2, OthersUntouched
      DEF HandsInv, HostsInv
  <2>6. MutexInv' /\ JoinInv'
    BY <1>1, <2>1 DEF MutexInv, JoinInv
  <2>7. QED
    BY <1>1, <2>5, <2>6 DEF IInv
<1>9. ASSUME NEW w \in Workers, Store(w) PROVE IInv'
  <2>1. /\ pc[w] = "store" /\ pc'[w] = "claim"
        /\ UNCHANGED <<main, spawned, joined, nextIndex, verdict>>
        /\ \A v \in Workers \ {w} :
             pc'[v] = pc[v] /\ index'[v] = index[v] /\ slot'[v] = slot[v]
    BY <1>1, <1>9 DEF Store, Drop
  <2>2. /\ pc[w] \in Holding /\ index[w] \in Indices
        /\ index[w] \notin Collected /\ verdict[index[w]] = "suitable"
    BY <1>1, <2>1 DEF HandOf, Holding
  <2>3. /\ Len(hosts) \in Nat
        /\ Len(hosts') = Len(hosts) + 1
        /\ hosts'[Len(hosts) + 1] = index[w]
        /\ \A k \in 1..Len(hosts) : hosts'[k] = hosts[k]
        /\ Collected' = Collected \cup {index[w]}
    BY <1>9, StoreAppends
  <2>4. HandsInv' /\ HostsInv'
    <3>1. HandOf(w)'
      BY <2>1 DEF HandOf, Holding
    <3>2. pc'[w] \notin Holding
      BY <2>1 DEF Holding
    <3>3. \A k \in 1..Len(hosts) : hosts[k] # index[w] /\ verdict[hosts[k]] = "suitable"
      BY <1>1, <2>2 DEF HostsInv, Collected
    <3>4. \A k \in 1..Len(hosts') : verdict'[hosts'[k]] = "suitable"
      <4>1. ASSUME NEW k \in 1..Len(hosts')
            PROVE  verdict'[hosts'[k]] = "suitable"
        <5>1. CASE k = Len(hosts) + 1
          BY <2>1, <2>2, <2>3, <5>1
        <5>2. CASE k # Len(hosts) + 1
          BY <2>1, <2>3, <3>3, <5>2
        <5>3. QED
          BY <5>1, <5>2
      <4>2. QED
        BY <4>1
    <3>5. \A j, k \in 1..Len(hosts') : hosts'[j] = hosts'[k] => j = k
      <4>1. ASSUME NEW j \in 1..Len(hosts'), NEW k \in 1..Len(hosts'),
                   hosts'[j] = hosts'[k]
            PROVE  j = k
        <5>1. CASE j \in 1..Len(hosts) /\ k \in 1..Len(hosts)
          BY <1>1, <2>3, <4>1, <5>1 DEF HostsInv
        <5>2. CASE j \in 1..Len(hosts) /\ k = Len(hosts) + 1
          BY <2>3, <3>3, <4>1, <5>2
        <5>3. CASE j = Len(hosts) + 1 /\ k \in 1..Len(hosts)
          BY <2>3, <3>3, <4>1, <5>3
        <5>4. CASE j = Len(hosts) + 1 /\ k = Len(hosts) + 1
          BY <5>4
        <5>5. QED
          BY <2>3, <5>1, <5>2, <5>3, <5>4
      <4>2. QED
        BY <4>1
    <3>6. QED
      BY <2>1, <2>2, <2>3, <3>1, <3>2, <3>4, <3>5, OthersUntouched
      DEF HandsInv, HostsInv
  <2>5. MutexInv'
    <3>1. \A v \in Workers \ {w} : pc[v] \notin {"append", "store"}
      BY <1>1, <2>1 DEF MutexInv
    <3>2. QED
      BY <2>1, <3>1 DEF MutexInv
  <2>6. JoinInv'
    BY <1>1, <2>1 DEF JoinInv
  <2>7. QED
    BY <1>1, <2>4, <2>5, <2>6 DEF IInv
<1>10. QED
  BY <1>2, <1>3, <1>4, <1>5, <1>6, <1>7, <1>8, <1>9 DEF Next

LEMMA IInvariant == SafetySpec => []IInv
  BY IInvInit, IInvNext, PTL DEF SafetySpec

(***************************************************************************)
(* The type invariant: the places of the threads, the counters and the     *)
(* contents of the vector.                                                 *)
(***************************************************************************)
THEOREM TypeCorrect == SafetySpec => []TypeOK
<1>1. IInv => TypeOK
  BY DEF IInv
<1>2. QED
  BY <1>1, IInvariant, PTL

(***************************************************************************)
(* No two workers ever have the same host in hand.                         *)
(***************************************************************************)
THEOREM HostsAreNeverShared == SafetySpec => []EachHostHasOneWorker
<1>1. IInv => EachHostHasOneWorker
  BY DEF IInv, HandsInv
<1>2. QED
  BY <1>1, IInvariant, PTL

(***************************************************************************)
(* Every probe goes to an address strictly inside the network and inside   *)
(* the address space.                                                      *)
(***************************************************************************)
THEOREM ProbesAreInside == SafetySpec => []ProbesStayInside
<1>1. ASSUME IInv PROVE ProbesStayInside
  <2>1. ASSUME NEW w \in Workers, pc[w] = "probe"
        PROVE  LET address == BaseAddress + index[w]
               IN  /\ BaseAddress < address
                   /\ address < BaseAddress + MaxHosts - 1
                   /\ address <= MaxAddress
    <3>1. index[w] \in Indices /\ HasAddress(index[w])
      BY <1>1, <2>1 DEF IInv, HandsInv, HandOf, Holding
    <3>2. index[w] \in Nat /\ 1 <= index[w] /\ index[w] < MaxHosts - 1
      <4>1. index[w] \in Nat /\ 1 <= index[w] /\ index[w] < LastIndex
        BY <3>1, Ranges
      <4>2. QED
        BY <4>1, HostsAssumption DEF LastIndex, FirstIndex
    <3>3. QED
      BY <3>1, <3>2, HostsAssumption, AddressAssumption DEF HasAddress
  <2>2. QED
    BY <2>1 DEF ProbesStayInside
<1>2. QED
  BY <1>1, IInvariant, PTL

(***************************************************************************)
(* When all threads are joined nothing is in a hand, and the counter is    *)
(* past the end.                                                           *)
(***************************************************************************)
LEMMA CompleteAtReturn == IInv => ScanComplete
<1>1. ASSUME IInv, main = "returned" PROVE
        /\ \A i \in Indices : verdict[i] # "unknown"
        /\ Collected = {i \in Indices : verdict[i] = "suitable"}
        /\ \A j, k \in 1..Len(hosts) : hosts[j] = hosts[k] => j = k
  <2>1. TypeOK /\ HostsInv /\ JoinInv
    BY <1>1 DEF IInv
  <2>2. \A w \in Workers : pc[w] = "done"
    BY <1>1, <2>1, Ranges DEF JoinInv, Workers
  <2>3. \A i \in Indices : i < nextIndex
    <3>1. ASSUME NEW i \in Indices PROVE i < nextIndex
      <4>1. nextIndex >= LastIndex /\ nextIndex \in Nat
        BY <2>1, <2>2, Ranges DEF JoinInv, TypeOK
      <4>2. i \in Nat /\ i < LastIndex /\ LastIndex \in Nat
        BY Ranges
      <4>3. QED
        BY <4>1, <4>2
    <3>2. QED
      BY <3>1
  <2>4. \A i \in Indices : verdict[i] # "unknown"
    BY <2>1, <2>2, <2>3 DEF HostsInv
  <2>5. \A i \in Indices : verdict[i] = "suitable" => i \in Collected
    BY <2>1, <2>2 DEF HostsInv
  <2>6. \A i \in Collected : i \in Indices /\ verdict[i] = "suitable"
    <3>1. \A k \in 1..Len(hosts) : hosts[k] \in Indices
      BY <2>1, ElementOfSeq DEF TypeOK
    <3>2. QED
      BY <2>1, <3>1 DEF HostsInv, Collected
  <2>7. \A j, k \in 1..Len(hosts) : hosts[j] = hosts[k] => j = k
    BY <2>1 DEF HostsInv
  <2>8. QED
    BY <2>4, <2>5, <2>6, <2>7
<1>2. QED
  BY <1>1 DEF ScanComplete

(***************************************************************************)
(* A scan that returns has decided every host of the network and returns   *)
(* each suitable one exactly once.                                         *)
(***************************************************************************)
THEOREM ScanIsComplete == SafetySpec => []ScanComplete
  BY CompleteAtReturn, IInvariant, PTL

(***************************************************************************)
(* No worker overwrites what another has appended.                         *)
(***************************************************************************)
THEOREM DevicesAreKept == SafetySpec => NoDeviceIsLost
<1> DEFINE Kept == \A k \in 1..Len(hosts) :
                     k <= Len(hosts') /\ hosts'[k] = hosts[k]
<1>1. ASSUME IInv, [Next]_vars PROVE Kept
  <2>1. hosts \in Seq(Indices) /\ Len(hosts) \in Nat
    BY <1>1, LenProperties DEF IInv, TypeOK
  <2>2. ASSUME hosts' = hosts PROVE Kept
    BY <2>1, <2>2
  <2>3. ASSUME NEW w \in Workers, Store(w) PROVE Kept
    BY <1>1, <2>1, <2>3, StoreAppends
  <2>4. ASSUME NEW w \in Workers,
               \/ Spawn(w) \/ Join(w) \/ Claim(w) \/ NoAddress(w) \/ StartProbe(w)
               \/ Reject(w) \/ Accept(w) \/ Lock(w) \/ ReadEnd(w)
        PROVE  hosts' = hosts
    BY <2>4 DEF Spawn, Join, Claim, NoAddress, StartProbe, Reject, Accept,
       Lock, ReadEnd
  <2>5. AllSpawned \/ Return \/ Returned \/ UNCHANGED vars => hosts' = hosts
    BY DEF AllSpawned, Return, Returned, vars
  <2>6. QED
    BY <1>1, <2>2, <2>3, <2>4, <2>5 DEF Next
<1>2. IInv /\ [Next]_vars => [Kept]_vars
  BY <1>1
<1>3. QED
  BY <1>2, IInvariant, PTL DEF SafetySpec, NoDeviceIsLost

-----------------------------------------------------------------------------
(***************************************************************************)
(* What is pending and what is found depends on three variables only.      *)
(***************************************************************************)
LEMMA SameAccount ==
  ASSUME UNCHANGED <<main, hosts, verdict>>
  PROVE  UNCHANGED Scan!vars
<1>1. Collected' = Collected
  BY DEF Collected
<1>2. Pending' = Pending
  BY <1>1 DEF Pending
<1>3. QED
  BY <1>1, <1>2 DEF Scan!vars

(***************************************************************************)
(* A worker decides its host when it refuses it or stores it.              *)
(***************************************************************************)
LEMMA WorkerDecides ==
  ASSUME IInv, NEW w \in Workers,
         NoAddress(w) \/ Reject(w) \/ Store(w)
  PROVE  Scan!Decide(index[w])
<1>1. /\ index[w] \in Indices
      /\ verdict \in [Indices -> Verdicts]
      /\ \A k \in 1..Len(hosts) : verdict[hosts[k]] = "suitable"
  BY DEF IInv, HandsInv, HandOf, Holding, HostsInv, TypeOK,
     NoAddress, Reject, Store
<1>2. CASE NoAddress(w) \/ Reject(w)
  <2>1. /\ verdict[index[w]] = "unknown"
        /\ verdict'[index[w]] \in {"noAddress", "rejected"}
        /\ \A i \in Indices \ {index[w]} : verdict'[i] = verdict[i]
        /\ hosts' = hosts /\ main' = main
    BY <1>1, <1>2 DEF IInv, HandsInv, HandOf, NoAddress, Reject
  <2>2. Collected' = Collected
    BY <2>1 DEF Collected
  <2>3. index[w] \in Pending
    BY <1>1, <2>1 DEF Pending
  <2>4. Pending' = Pending \ {index[w]}
    BY <1>1, <2>1, <2>2 DEF Pending
  <2>5. QED
    BY <2>1, <2>2, <2>3, <2>4 DEF Scan!Decide
<1>3. CASE Store(w)
  <2>1. /\ verdict[index[w]] = "suitable" /\ index[w] \notin Collected
        /\ verdict' = verdict /\ main' = main
    BY <1>3 DEF IInv, HandsInv, HandOf, Store
  <2>2. Collected' = Collected \cup {index[w]}
    BY <1>3, StoreAppends
  <2>3. index[w] \in Pending
    BY <1>1, <2>1 DEF Pending
  <2>4. Pending' = Pending \ {index[w]}
    BY <1>1, <2>1, <2>2 DEF Pending
  <2>5. QED
    BY <2>1, <2>2, <2>3, <2>4 DEF Scan!Decide
<1>4. QED
  BY <1>2, <1>3

(***************************************************************************)
(* Every step of the threads decides one host, returns, or is a stutter.   *)
(***************************************************************************)
LEMMA StepRefines ==
  IInv /\ IInv' /\ [Next]_vars => [Scan!Next]_(Scan!vars)
<1> SUFFICES ASSUME IInv, IInv', [Next]_vars
             PROVE  Scan!Next \/ UNCHANGED Scan!vars
  OBVIOUS
<1>1. ASSUME NEW w \in Workers, NoAddress(w) \/ Reject(w) \/ Store(w)
      PROVE  Scan!Next
  <2>1. index[w] \in Indices
    BY <1>1 DEF IInv, HandsInv, HandOf, Holding, NoAddress, Reject, Store
  <2>2. QED
    BY <1>1, <2>1, WorkerDecides DEF Scan!Next
<1>2. CASE Return
  <2>1. main = "join" /\ main' = "returned" /\ hosts' = hosts
        /\ verdict' = verdict
    BY <1>2 DEF Return
  <2>2. /\ \A i \in Indices : verdict'[i] # "unknown"
        /\ Collected' = {i \in Indices : verdict'[i] = "suitable"}
    <3>1. ScanComplete'
      BY CompleteAtReturn, PTL
    <3>2. QED
      BY <2>1, <3>1 DEF ScanComplete
  <2>3. Collected' = Collected
    BY <2>1 DEF Collected
  <2>4. Pending = {} /\ Pending' = {}
    BY <2>1, <2>2, <2>3 DEF Pending
  <2>5. QED
    BY <2>1, <2>3, <2>4 DEF Scan!Next, Scan!Return
<1>3. ASSUME NEW w \in Workers, Accept(w) PROVE UNCHANGED Scan!vars
  <2>1. /\ index[w] \in Indices
        /\ verdict \in [Indices -> Verdicts]
        /\ \A k \in 1..Len(hosts) : verdict[hosts[k]] = "suitable"
        /\ verdict[index[w]] = "unknown"
        /\ verdict' = [verdict EXCEPT ![index[w]] = "suitable"]
        /\ main' = main /\ hosts' = hosts
    BY <1>3 DEF IInv, HandsInv, HandOf, Holding, HostsInv, TypeOK, Accept
  <2>2. Collected' = Collected /\ index[w] \notin Collected
    BY <2>1 DEF Collected
  <2>3. ASSUME NEW i \in Indices
        PROVE  i \in Pending' <=> i \in Pending
    <3>1. CASE i = index[w]
      BY <2>1, <2>2, <3>1 DEF Pending
    <3>2. CASE i # index[w]
      BY <2>1, <2>2, <3>2 DEF Pending
    <3>3. QED
      BY <3>1, <3>2
  <2>4. Pending' = Pending
    <3>1. Pending \subseteq Indices /\ Pending' \subseteq Indices
      BY DEF Pending
    <3>2. QED
      BY <2>3, <3>1
  <2>5. QED
    BY <2>1, <2>2, <2>4 DEF Scan!vars
<1>4. ASSUME NEW w \in Workers,
             \/ Spawn(w) \/ Join(w) \/ Claim(w) \/ StartProbe(w)
             \/ Lock(w) \/ ReadEnd(w)
      PROVE  UNCHANGED Scan!vars
  <2>1. UNCHANGED <<main, hosts, verdict>>
    BY <1>4 DEF Spawn, Join, Claim, StartProbe, Lock, ReadEnd
  <2>2. QED
    BY <2>1, SameAccount
<1>5. CASE Returned \/ UNCHANGED vars
  <2>1. UNCHANGED <<main, hosts, verdict>>
    BY <1>5 DEF Returned, vars
  <2>2. QED
    BY <2>1, SameAccount
<1>6. CASE AllSpawned
  <2>1. /\ main = "spawn" /\ main' = "join"
        /\ UNCHANGED <<hosts, verdict>>
    BY <1>6 DEF AllSpawned
  <2>2. Collected' = Collected
    BY <2>1 DEF Collected
  <2>3. Pending' = Pending
    BY <2>1, <2>2 DEF Pending
  <2>4. (main = "returned")' = (main = "returned")
    BY <2>1
  <2>5. QED
    BY <2>2, <2>3, <2>4 DEF Scan!vars
<1>7. QED
  BY <1>1, <1>2, <1>3, <1>4, <1>5, <1>6 DEF Next

(***************************************************************************)
(* The pool keeps the safety part of what HostScan promises: each host is  *)
(* decided once, and the scan returns when none is left.                   *)
(***************************************************************************)
THEOREM RefinesHostScan ==
  SafetySpec => Scan!Init /\ [][Scan!Next]_(Scan!vars)
<1>1. Init => Scan!Init
  <2>1. ASSUME Init PROVE Collected = {} /\ Pending = Indices
    BY <2>1, EmptySeq DEF Init, Collected, Pending
  <2>2. QED
    BY <2>1 DEF Init, Scan!Init
<1>2. QED
  BY <1>1, IInvariant, StepRefines, PTL DEF SafetySpec
=============================================================================
