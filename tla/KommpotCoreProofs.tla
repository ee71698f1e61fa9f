------------------------- MODULE KommpotCoreProofs -------------------------
(***************************************************************************)
(* What is proved of KommpotCore for every set of clients, every bound on  *)
(* the requests and every set of failures.                                 *)
(***************************************************************************)
EXTENDS KommpotCore, FiniteSetTheorems, SequenceTheorems, TLAPS

(***************************************************************************)
(* The types of the state survive every call and every step of a task.     *)
(***************************************************************************)
LEMMA TypeOKInit == Init => TypeOK
<1> SUFFICES ASSUME Init PROVE TypeOK
  OBVIOUS
<1>1. stage \in [Requests -> Stages]
  BY DEF Init, Stages
<1>2. reports \in Seq(ReportRecord)
  BY DEF Init
<1>3. launched \in 0..MaxRequests /\ refusals \in 0..MaxRefusals
  BY RequestsAssumption, RefusalsAssumption DEF Init
<1>4. /\ pc \in [Clients -> {"idle", "launch", "swap", "store", "release", "wait"}]
      /\ mine \in [Clients -> Requests \cup {None}]
      /\ old \in [Clients -> Requests \cup {None}]
      /\ callbacks \in [Requests -> SUBSET {"status", "device"}]
  BY DEF Init
<1>5. QED
  BY <1>1, <1>2, <1>3, <1>4 DEF Init, TypeOK

LEMMA TypeOKNext == TypeOK /\ [Next]_vars => TypeOK'
<1> SUFFICES ASSUME TypeOK, [Next]_vars PROVE TypeOK'
  OBVIOUS
<1> USE RequestsAssumption, RefusalsAssumption DEF TypeOK, Requests, None
<1>1. ASSUME NEW c \in Clients, Initialize(c) PROVE TypeOK'
  BY <1>1 DEF Initialize, taskVars
<1>2. ASSUME NEW c \in Clients, RequestAccepted(c) PROVE TypeOK'
  BY <1>2 DEF RequestAccepted, taskVars
<1>3. ASSUME NEW c \in Clients, RequestRefused(c) PROVE TypeOK'
  BY <1>3 DEF RequestRefused, clientVars, taskVars
<1>4. ASSUME NEW c \in Clients, Launch(c) PROVE TypeOK'
  <2>1. launched + 1 \in Requests /\ launched' \in 0..MaxRequests
    BY <1>4 DEF Launch
  <2>2. stage' \in [Requests -> Stages]
    BY <1>4, <2>1 DEF Launch, Stages, Body, Notifications
  <2>3. callbacks' \in [Requests -> SUBSET {"status", "device"}]
    <3>1. PICK given \in SUBSET {"status", "device"} :
            callbacks' = [callbacks EXCEPT ![launched + 1] = given]
      BY <1>4 DEF Launch
    <3>2. QED
      BY <2>1, <3>1
  <2>4. QED
    BY <1>4, <2>1, <2>2, <2>3 DEF Launch
<1>5. ASSUME NEW c \in Clients, LaunchFails(c) PROVE TypeOK'
  BY <1>5 DEF LaunchFails, taskVars
<1>6. ASSUME NEW c \in Clients, ReadOldFuture(c) PROVE TypeOK'
  BY <1>6 DEF ReadOldFuture, taskVars
<1>7. ASSUME NEW c \in Clients, StoreFuture(c) PROVE TypeOK'
  BY <1>7 DEF StoreFuture, taskVars
<1>8. ASSUME NEW c \in Clients, ReleaseOldFuture(c) PROVE TypeOK'
  BY <1>8 DEF ReleaseOldFuture, taskVars
<1>9. ASSUME NEW c \in Clients, DeinitializeCalled(c) PROVE TypeOK'
  BY <1>9 DEF DeinitializeCalled, taskVars
<1>10. ASSUME NEW c \in Clients, DeinitializeReturns(c) PROVE TypeOK'
  BY <1>10 DEF DeinitializeReturns, taskVars
<1>11. ASSUME NEW r \in Requests, Notify(r) PROVE TypeOK'
  <2>1. Following[stage[r]] \in Stages
    BY <1>11 DEF Notify, Following, Notifications, Scans, Body, Stages
  <2>2. reports' \in Seq(ReportRecord)
    <3>1. [request |-> r, report |-> stage[r]] \in ReportRecord
      BY <1>11 DEF Notify, ReportRecord
    <3>2. Append(reports, [request |-> r, report |-> stage[r]])
            \in Seq(ReportRecord)
      BY <3>1, AppendProperties
    <3>3. QED
      BY <1>11, <3>2 DEF Notify
  <2>3. QED
    BY <1>11, <2>1, <2>2 DEF Notify, clientVars
<1>12. ASSUME NEW r \in Requests, Scan(r) PROVE TypeOK'
  <2>1. Following[stage[r]] \in Stages
    BY <1>12 DEF Scan, Following, Notifications, Scans, Body, Stages
  <2>2. QED
    BY <1>12, <2>1 DEF Scan, clientVars
<1>13. ASSUME NEW r \in Requests, ClearFlag(r) PROVE TypeOK'
  BY <1>13 DEF ClearFlag, clientVars, Stages
<1>14. ASSUME NEW r \in Requests, Leave(r) PROVE TypeOK'
  BY <1>14 DEF Leave, clientVars, Stages
<1>15. ASSUME NEW r \in Requests, TaskThrows(r) PROVE TypeOK'
  BY <1>15 DEF TaskThrows, clientVars, Stages
<1>16. ASSUME NEW r \in Requests, RequestFromCallback(r) PROVE TypeOK'
  BY <1>16 DEF RequestFromCallback, clientVars, taskVars
<1>17. CASE Finished \/ UNCHANGED vars
  BY <1>17 DEF Finished, vars, clientVars, taskVars
<1>18. QED
  BY <1>1, <1>2, <1>3, <1>4, <1>5, <1>6, <1>7, <1>8, <1>9, <1>10, <1>11,
     <1>12, <1>13, <1>14, <1>15, <1>16, <1>17 DEF Next

-----------------------------------------------------------------------------
(***************************************************************************)
(* Appending a report of the latest request keeps the reports in order.    *)
(***************************************************************************)
LEMMA AppendInOrder ==
  ASSUME NEW log \in Seq(ReportRecord), NEW entry \in ReportRecord,
         \A i \in 1..Len(log) : log[i].request <= entry.request,
         \A i, j \in 1..Len(log) : i < j => log[i].request <= log[j].request
  PROVE  LET longer == Append(log, entry)
         IN  /\ \A i \in 1..Len(longer) : longer[i].request <= entry.request
             /\ \A i, j \in 1..Len(longer) :
                  i < j => longer[i].request <= longer[j].request
<1> DEFINE longer == Append(log, entry)
<1>1. /\ Len(log) \in Nat
      /\ Len(longer) = Len(log) + 1
      /\ longer[Len(log) + 1] = entry
      /\ \A i \in 1..Len(log) : longer[i] = log[i]
  BY AppendProperties, LenProperties
<1>2. entry.request \in Nat
  BY RequestsAssumption DEF ReportRecord, Requests
<1> HIDE DEF longer
<1>3. \A i \in 1..Len(longer) : longer[i].request <= entry.request
  BY <1>1, <1>2
<1>4. ASSUME NEW i \in 1..Len(longer), NEW j \in 1..Len(longer), i < j
      PROVE  longer[i].request <= longer[j].request
  <2>1. CASE j = Len(log) + 1
    BY <1>1, <1>3, <2>1
  <2>2. CASE j # Len(log) + 1
    BY <1>1, <1>4, <2>2
  <2>3. QED
    BY <2>1, <2>2
<1>5. QED
  BY <1>3, <1>4 DEF longer

(***************************************************************************)
(* The flag has one holder, and the reports stay in the order of the       *)
(* requests, through every step.                                           *)
(***************************************************************************)
LEMMA LockInvInit == Init => LockInv
<1> SUFFICES ASSUME Init PROVE LockInv
  OBVIOUS
<1>1. TypeOK
  BY TypeOKInit
<1>2. HolderIsUnique
  BY DEF Init, HolderIsUnique, Running, Body, Notifications, Scans
<1>3. ReportsAreLaunched /\ RequestsNeverInterleave
  BY DEF Init, ReportsAreLaunched, RequestsNeverInterleave
<1>4. QED
  BY <1>1, <1>2, <1>3 DEF LockInv

LEMMA LockInvNext == LockInv /\ [Next]_vars => LockInv'
<1> SUFFICES ASSUME LockInv, [Next]_vars PROVE LockInv'
  OBVIOUS
<1> USE RequestsAssumption
<1>1. TypeOK /\ TypeOK'
  BY TypeOKNext DEF LockInv
<1>2. HolderIsUnique /\ ReportsAreLaunched /\ RequestsNeverInterleave
  BY DEF LockInv
<1>3. launched \in Nat /\ stage \in [Requests -> Stages] /\ pc \in [Clients -> {"idle", "launch", "swap", "store", "release", "wait"}]
  BY <1>1 DEF TypeOK
\* Nothing that the order of the reports depends on changes.
<1>4. ASSUME reports' = reports, launched' \in Nat, launched <= launched'
      PROVE  ReportsAreLaunched' /\ RequestsNeverInterleave'
  <2>1. \A i \in 1..Len(reports) : reports[i].request \in Nat
    <3>1. \A i \in 1..Len(reports) : reports[i] \in ReportRecord
      BY <1>1, ElementOfSeq DEF TypeOK
    <3>2. QED
      BY <3>1 DEF ReportRecord, Requests
  <2>2. QED
    BY <1>2, <1>3, <1>4, <2>1 DEF ReportsAreLaunched, RequestsNeverInterleave
\* A step that takes no flag and starts no body keeps the holder.
<1>5. ASSUME enumerating' = enumerating, launched' = launched,
             \A c \in Clients : pc'[c] = "launch" => pc[c] = "launch",
             \A r \in Requests : Running(r)' => Running(r)
      PROVE  HolderIsUnique'
  BY <1>2, <1>5 DEF HolderIsUnique
<1>6. ASSUME NEW c \in Clients, RequestAccepted(c) PROVE LockInv'
  <2>1. HolderIsUnique'
    <3>1. \A r \in Requests : ~Running(r)
      BY <1>2, <1>6 DEF HolderIsUnique, RequestAccepted
    <3>2. \A d \in Clients : pc[d] # "launch"
      BY <1>2, <1>6 DEF HolderIsUnique, RequestAccepted
    <3>3. \A d \in Clients : pc'[d] = "launch" => d = c
      BY <1>3, <1>6, <3>2 DEF RequestAccepted
    <3>4. \A r \in Requests : ~Running(r)'
      BY <1>6, <3>1 DEF RequestAccepted, taskVars, Running
    <3>5. QED
      BY <1>6, <3>3, <3>4 DEF HolderIsUnique, RequestAccepted
  <2>2. reports' = reports /\ launched' = launched
    BY <1>6 DEF RequestAccepted, taskVars
  <2>3. QED
    BY <1>1, <1>3, <1>4, <2>1, <2>2 DEF LockInv
<1>7. ASSUME NEW c \in Clients, Launch(c) PROVE LockInv'
  <2>1. HolderIsUnique'
    <3>1. enumerating /\ \A r \in Requests : ~Running(r)
      BY <1>2, <1>7 DEF HolderIsUnique, Launch
    <3>2. \A d \in Clients : pc'[d] # "launch"
      BY <1>2, <1>3, <1>7 DEF HolderIsUnique, Launch
    <3>3. \A r \in Requests : Running(r)' => r = launched + 1
      BY <1>3, <1>7, <3>1 DEF Launch, Running
    <3>4. QED
      BY <1>7, <3>1, <3>2, <3>3 DEF HolderIsUnique, Launch
  <2>2. reports' = reports /\ launched' \in Nat /\ launched <= launched'
    BY <1>3, <1>7 DEF Launch
  <2>3. QED
    BY <1>1, <1>4, <2>1, <2>2 DEF LockInv
<1>8. ASSUME NEW r \in Requests, Notify(r) PROVE LockInv'
  <2>1. Running(r) /\ r = launched
    BY <1>2, <1>8 DEF HolderIsUnique, Notify, Running, Body
  <2>2. HolderIsUnique'
    <3>1. \A q \in Requests : Running(q)' => Running(q)
      BY <1>3, <1>8, <2>1 DEF Notify, Running
    <3>2. QED
      BY <1>5, <1>8, <3>1 DEF Notify, clientVars
  <2>3. ReportsAreLaunched' /\ RequestsNeverInterleave'
    <3> DEFINE entry == [request |-> r, report |-> stage[r]]
    <3>1. CASE reports' = reports
      BY <1>3, <1>4, <1>8, <3>1 DEF Notify
    <3>2. CASE reports' = Append(reports, entry)
      <4>1. entry \in ReportRecord /\ entry.request = launched
        BY <1>8, <2>1 DEF Notify, ReportRecord
      <4>2. reports \in Seq(ReportRecord)
        BY <1>1 DEF TypeOK
      <4> HIDE DEF entry
      <4>3. \A i \in 1..Len(reports) : reports[i].request <= entry.request
        BY <1>2, <4>1 DEF ReportsAreLaunched
      <4>4. \A i, j \in 1..Len(reports) :
              i < j => reports[i].request <= reports[j].request
        BY <1>2 DEF RequestsNeverInterleave
      <4>5. /\ \A i \in 1..Len(reports') : reports'[i].request <= entry.request
            /\ \A i, j \in 1..Len(reports') :
                 i < j => reports'[i].request <= reports'[j].request
        BY <3>2, <4>1, <4>2, <4>3, <4>4, AppendInOrder
      <4>6. launched' = launched
        BY <1>8 DEF Notify
      <4>7. QED
        BY <4>1, <4>5, <4>6 DEF ReportsAreLaunched, RequestsNeverInterleave
    <3>3. QED
      BY <1>8, <3>1, <3>2 DEF Notify
  <2>4. QED
    BY <1>1, <2>2, <2>3 DEF LockInv
<1>9. ASSUME NEW r \in Requests, ClearFlag(r) PROVE LockInv'
  <2>1. Running(r) /\ r = launched
    BY <1>2, <1>9 DEF HolderIsUnique, ClearFlag, Running, Body
  <2>2. \A q \in Requests : ~Running(q)'
    BY <1>2, <1>3, <1>9, <2>1
    DEF HolderIsUnique, ClearFlag, Running, Body, Notifications, Scans
  <2>3. \A c \in Clients : pc'[c] # "launch"
    BY <1>2, <1>9, <2>1 DEF HolderIsUnique, ClearFlag, clientVars
  <2>4. HolderIsUnique'
    BY <2>2, <2>3 DEF HolderIsUnique
  <2>5. reports' = reports /\ launched' = launched
    BY <1>9 DEF ClearFlag
  <2>6. QED
    BY <1>1, <1>3, <1>4, <2>4, <2>5 DEF LockInv
\* The steps that keep the flag, the reports and the number of launches.
<1>10. ASSUME enumerating' = enumerating, launched' = launched, reports' = reports,
              \A c \in Clients : pc'[c] = "launch" => pc[c] = "launch",
              \A r \in Requests : Running(r)' => Running(r)
       PROVE  LockInv'
  BY <1>1, <1>3, <1>4, <1>5, <1>10 DEF LockInv
<1>11. ASSUME NEW c \in Clients,
              \/ Initialize(c) \/ RequestRefused(c) \/ LaunchFails(c)
              \/ ReadOldFuture(c) \/ StoreFuture(c) \/ ReleaseOldFuture(c)
              \/ DeinitializeCalled(c) \/ DeinitializeReturns(c)
       PROVE  LockInv'
  <2>1. enumerating' = enumerating /\ UNCHANGED taskVars
    BY <1>11 DEF Initialize, RequestRefused, LaunchFails, ReadOldFuture,
       StoreFuture, ReleaseOldFuture, DeinitializeCalled, DeinitializeReturns
  <2>2. \A d \in Clients : pc'[d] = "launch" => pc[d] = "launch"
    BY <1>3, <1>11 DEF Initialize, RequestRefused, LaunchFails, ReadOldFuture,
       StoreFuture, ReleaseOldFuture, DeinitializeCalled, DeinitializeReturns,
       clientVars
  <2>3. QED
    BY <1>10, <2>1, <2>2 DEF taskVars, Running
<1>12. ASSUME NEW r \in Requests,
              Scan(r) \/ Leave(r) \/ TaskThrows(r) \/ RequestFromCallback(r)
       PROVE  LockInv'
  <2>1. /\ UNCHANGED <<clientVars, enumerating, launched, reports>>
    BY <1>12 DEF Scan, Leave, TaskThrows, RequestFromCallback, taskVars
  <2>2. \A q \in Requests : Running(q)' => Running(q)
    BY <1>3, <1>12 DEF Scan, Leave, TaskThrows, RequestFromCallback, taskVars,
       InCallback, Running, Body, Notifications, Scans
  <2>3. QED
    BY <1>10, <2>1, <2>2 DEF clientVars
<1>13. CASE Finished \/ UNCHANGED vars
  BY <1>10, <1>13 DEF Finished, vars, Running
<1>14. QED
  BY <1>6, <1>7, <1>8, <1>9, <1>11, <1>12, <1>13 DEF Next

(***************************************************************************)
(* LockInv holds in every reachable state.                                 *)
(***************************************************************************)
LEMMA LockInvariant == SafetySpec => []LockInv
  BY LockInvInit, LockInvNext, PTL DEF SafetySpec

(***************************************************************************)
(* The state of kommpot_core and of its threads keeps its types.           *)
(***************************************************************************)
THEOREM TypeCorrect == SafetySpec => []TypeOK
<1>1. LockInv => TypeOK
  BY DEF LockInv
<1>2. QED
  BY <1>1, LockInvariant, PTL

(***************************************************************************)
(* Enumerations never overlap, however many application threads ask for    *)
(* one and whatever fails.                                                 *)
(***************************************************************************)
THEOREM EnumerationsNeverOverlap == SafetySpec => []AtMostOneEnumeration
<1>1. ASSUME LockInv PROVE AtMostOneEnumeration
  <2> DEFINE callers == {c \in Clients : pc[c] = "launch"}
             tasks   == {r \in Requests : Running(r)}
  <2>1. HolderIsUnique
    BY <1>1 DEF LockInv
  <2>2. callers # {} \/ tasks # {} => enumerating
    BY <2>1 DEF HolderIsUnique
  <2>3. callers = {} \/ \E c \in Clients : callers = {c} /\ tasks = {}
    BY <2>1 DEF HolderIsUnique
  <2>4. tasks = {} \/ \E r \in Requests : tasks = {r}
    BY <2>1 DEF HolderIsUnique
  <2> HIDE DEF callers, tasks
  <2>5. Cardinality(callers) + Cardinality(tasks) <= 1
    <3>1. Cardinality({}) = 0
      BY FS_EmptySet
    <3>2. \A x : Cardinality({x}) = 1
      BY FS_Singleton
    <3>3. callers = {} => Cardinality(callers) = 0
      BY <3>1
    <3>4. callers # {} => Cardinality(callers) = 1 /\ tasks = {}
      BY <2>3, <3>2
    <3>5. tasks = {} => Cardinality(tasks) = 0
      BY <3>1
    <3>6. Cardinality(tasks) \in {0, 1}
      BY <2>4, <3>2, <3>5
    <3>7. QED
      BY <3>3, <3>4, <3>5, <3>6
  <2>6. QED
    BY <2>2, <2>5 DEF AtMostOneEnumeration, callers, tasks
<1>2. QED
  BY <1>1, LockInvariant, PTL

(***************************************************************************)
(* Callbacks of different requests never interleave.                       *)
(***************************************************************************)
THEOREM CallbacksNeverInterleave == SafetySpec => []RequestsNeverInterleave
<1>1. LockInv => RequestsNeverInterleave
  BY DEF LockInv
<1>2. QED
  BY <1>1, LockInvariant, PTL

-----------------------------------------------------------------------------
(***************************************************************************)
(* One application thread, the discipline the attention notes of           *)
(* libkommpot.h ask for: m_future follows the last task launched.          *)
(***************************************************************************)
LEMMA SingleCallerInit == Init => SingleCallerInv
<1> SUFFICES ASSUME Init PROVE SingleCallerInv
  OBVIOUS
<1>1. FutureInv
  BY DEF Init, FutureInv, Alive, Body, Notifications, Scans, None
<1>2. QED
  BY <1>1, LockInvInit DEF SingleCallerInv, QuiescentAfterDeinitialize, Init

LEMMA SingleCallerNext ==
  ASSUME NEW k, Clients = {k}, SingleCallerInv, [Next]_vars
  PROVE  SingleCallerInv'
<1> USE RequestsAssumption DEF None
<1>1. LockInv'
  BY LockInvNext DEF SingleCallerInv
<1>2. /\ TypeOK /\ TypeOK' /\ HolderIsUnique
      /\ FutureInv /\ QuiescentAfterDeinitialize
  BY <1>1 DEF SingleCallerInv, LockInv
<1>3. /\ launched \in Nat /\ future \in Nat
      /\ stage \in [Requests -> Stages]
      /\ pc \in [Clients -> {"idle", "launch", "swap", "store", "release", "wait"}]
      /\ mine \in [Clients -> Nat]
      /\ old \in [Clients -> Nat]
      /\ Requests \subseteq Nat \ {0}
  BY <1>2 DEF TypeOK, Requests
\* The steps of the client.
<1>4. ASSUME Initialize(k) PROVE FutureInv' /\ QuiescentAfterDeinitialize'
  BY <1>2, <1>3, <1>4
  DEF FutureInv, QuiescentAfterDeinitialize, Initialize, Alive, taskVars
<1>5. ASSUME RequestAccepted(k) PROVE FutureInv' /\ QuiescentAfterDeinitialize'
  BY <1>2, <1>3, <1>5
  DEF FutureInv, QuiescentAfterDeinitialize, RequestAccepted, Alive, taskVars
<1>6. ASSUME RequestRefused(k) PROVE FutureInv' /\ QuiescentAfterDeinitialize'
  BY <1>2, <1>3, <1>6
  DEF FutureInv, QuiescentAfterDeinitialize, RequestRefused, Alive,
      clientVars, taskVars
<1>7. ASSUME Launch(k) PROVE FutureInv' /\ QuiescentAfterDeinitialize'
  <2>1. /\ pc[k] = "launch" /\ pc'[k] = "swap"
        /\ launched' = launched + 1 /\ mine'[k] = launched + 1
        /\ future' = future /\ old' = old /\ lib' = lib
    BY <1>3, <1>7 DEF Launch
  <2>2. future = launched /\ lib \notin {"new", "down", "closing"}
    BY <1>2, <2>1 DEF FutureInv
  <2>3. \A r \in Requests : Alive(r) => r = launched
    BY <1>2, <2>1 DEF FutureInv
  <2>4. \A r \in Requests : Alive(r)' => r = launched + 1 \/ Alive(r)
    BY <1>3, <1>7 DEF Launch, Alive
  <2>5. FutureInv'
    BY <1>3, <2>1, <2>2, <2>3, <2>4 DEF FutureInv
  <2>6. QED
    BY <2>1, <2>2, <2>5 DEF QuiescentAfterDeinitialize
<1>8. ASSUME LaunchFails(k) PROVE FutureInv' /\ QuiescentAfterDeinitialize'
  BY <1>2, <1>3, <1>8
  DEF FutureInv, QuiescentAfterDeinitialize, LaunchFails, Alive, taskVars
<1>9. ASSUME ReadOldFuture(k) PROVE FutureInv' /\ QuiescentAfterDeinitialize'
  BY <1>2, <1>3, <1>9
  DEF FutureInv, QuiescentAfterDeinitialize, ReadOldFuture, Alive, taskVars
<1>10. ASSUME StoreFuture(k) PROVE FutureInv' /\ QuiescentAfterDeinitialize'
  BY <1>2, <1>3, <1>10
  DEF FutureInv, QuiescentAfterDeinitialize, StoreFuture, Alive, taskVars
<1>11. ASSUME ReleaseOldFuture(k)
       PROVE  FutureInv' /\ QuiescentAfterDeinitialize'
  <2>1. \A r \in Requests : Alive(r) => r = launched
    <3>1. ASSUME NEW r \in Requests, Alive(r), launched = r + 1 PROVE FALSE
      <4>1. old[k] = r
        BY <1>2, <1>3, <1>11, <3>1 DEF FutureInv, ReleaseOldFuture
      <4>2. stage[r] = "done"
        BY <1>3, <1>11, <4>1 DEF ReleaseOldFuture
      <4>3. QED
        BY <3>1, <4>2 DEF Alive, Body, Notifications, Scans
    <3>2. QED
      BY <1>2, <1>11, <3>1 DEF FutureInv, ReleaseOldFuture
  <2>2. \A r \in Requests : Alive(r)' <=> Alive(r)
    BY <1>11 DEF ReleaseOldFuture, taskVars, Alive
  <2>3. QED
    BY <1>2, <1>3, <1>11, <2>1, <2>2
    DEF FutureInv, QuiescentAfterDeinitialize, ReleaseOldFuture, taskVars
<1>12. ASSUME DeinitializeCalled(k)
       PROVE  FutureInv' /\ QuiescentAfterDeinitialize'
  BY <1>2, <1>3, <1>12
  DEF FutureInv, QuiescentAfterDeinitialize, DeinitializeCalled, Alive,
      taskVars
<1>13. ASSUME DeinitializeReturns(k)
       PROVE  FutureInv' /\ QuiescentAfterDeinitialize'
  <2>1. future = launched /\ pc[k] = "wait"
    BY <1>2, <1>13 DEF FutureInv, DeinitializeReturns
  <2>2. \A r \in Requests : ~Alive(r)
    <3>1. ASSUME NEW r \in Requests, Alive(r) PROVE FALSE
      <4>1. r = future
        BY <1>2, <2>1, <3>1 DEF FutureInv
      <4>2. stage[r] = "done"
        BY <1>3, <1>13, <4>1 DEF DeinitializeReturns
      <4>3. QED
        BY <3>1, <4>2 DEF Alive, Body, Notifications, Scans
    <3>2. QED
      BY <3>1
  <2>3. \A r \in Requests : ~Alive(r)'
    BY <1>13, <2>2 DEF DeinitializeReturns, taskVars, Alive
  <2>4. QED
    BY <1>3, <1>13, <2>1, <2>3
    DEF FutureInv, QuiescentAfterDeinitialize, DeinitializeReturns, taskVars
\* The steps of a task, and the stuttering ones, start no task.
<1>14. ASSUME UNCHANGED <<clientVars, launched>>,
              \A r \in Requests : Alive(r)' => Alive(r)
       PROVE  FutureInv' /\ QuiescentAfterDeinitialize'
  BY <1>2, <1>14 DEF FutureInv, QuiescentAfterDeinitialize, clientVars
<1>15. ASSUME NEW r \in Requests,
              \/ Notify(r) \/ Scan(r) \/ ClearFlag(r) \/ Leave(r)
              \/ TaskThrows(r) \/ RequestFromCallback(r)
       PROVE  FutureInv' /\ QuiescentAfterDeinitialize'
  <2>1. UNCHANGED <<clientVars, launched>>
    BY <1>15 DEF Notify, Scan, ClearFlag, Leave, TaskThrows,
       RequestFromCallback, taskVars
  <2>2. \A q \in Requests : Alive(q)' => Alive(q)
    BY <1>3, <1>15 DEF Notify, Scan, ClearFlag, Leave, TaskThrows,
       RequestFromCallback, taskVars, InCallback, Running, Alive, Body
  <2>3. QED
    BY <1>14, <2>1, <2>2
<1>16. ASSUME Finished \/ UNCHANGED vars
       PROVE  FutureInv' /\ QuiescentAfterDeinitialize'
  <2>1. UNCHANGED <<clientVars, launched>> /\ stage' = stage
    BY <1>16 DEF Finished, vars, clientVars
  <2>2. \A q \in Requests : Alive(q)' => Alive(q)
    BY <2>1 DEF Alive
  <2>3. QED
    BY <1>14, <2>1, <2>2
<1>17. FutureInv' /\ QuiescentAfterDeinitialize'
  <2>1. \A c \in Clients : c = k
    OBVIOUS
  <2>2. CASE \E r \in Requests :
               \/ Notify(r) \/ Scan(r) \/ ClearFlag(r) \/ Leave(r)
               \/ TaskThrows(r) \/ RequestFromCallback(r)
    BY <1>15, <2>2
  <2>3. CASE \/ Initialize(k) \/ RequestAccepted(k) \/ RequestRefused(k)
             \/ Launch(k) \/ LaunchFails(k) \/ ReadOldFuture(k)
             \/ StoreFuture(k) \/ ReleaseOldFuture(k)
             \/ DeinitializeCalled(k) \/ DeinitializeReturns(k)
    BY <1>4, <1>5, <1>6, <1>7, <1>8, <1>9, <1>10, <1>11, <1>12, <1>13, <2>3
  <2>4. QED
    BY <1>16, <2>1, <2>2, <2>3 DEF Next
<1>18. QED
  BY <1>1, <1>17 DEF SingleCallerInv

(***************************************************************************)
(* An application that calls the library from one thread finds no task     *)
(* running once deinitialize() has returned.                               *)
(***************************************************************************)
THEOREM QuiescentWithOneCaller ==
  ASSUME NEW k, Clients = {k}
  PROVE  SafetySpec => []QuiescentAfterDeinitialize
<1>1. SingleCallerInv /\ [Next]_vars => SingleCallerInv'
  BY SingleCallerNext
<1>2. SingleCallerInv => QuiescentAfterDeinitialize
  BY DEF SingleCallerInv
<1>3. QED
  BY <1>1, <1>2, SingleCallerInit, PTL DEF SafetySpec

(***************************************************************************)
(* The comment on m_is_enumerating is right for one application thread: a  *)
(* caller of devices() is never blocked by an enumeration.                 *)
(***************************************************************************)
THEOREM NeverBlockedWithOneCaller ==
  ASSUME NEW k, Clients = {k}
  PROVE  SafetySpec => []CallerNeverBlocked
<1>1. SingleCallerInv /\ [Next]_vars => SingleCallerInv'
  BY SingleCallerNext
<1>2. ASSUME SingleCallerInv PROVE CallerNeverBlocked
  <2>1. TypeOK /\ HolderIsUnique /\ FutureInv
    BY <1>2 DEF SingleCallerInv, LockInv
  <2>2. ASSUME NEW c \in Clients, pc[c] = "release", old[c] # None
        PROVE  ~Running(old[c])
    <3>1. launched = old[c] + 1 /\ old[c] \in Requests
      BY <2>1, <2>2 DEF FutureInv, TypeOK
    <3>2. old[c] # launched
      BY <3>1, RequestsAssumption DEF Requests
    <3>3. QED
      BY <2>1, <3>1, <3>2 DEF HolderIsUnique
  <2>3. QED
    BY <2>2 DEF CallerNeverBlocked
<1>3. QED
  BY <1>1, <1>2, SingleCallerInit, PTL DEF SafetySpec

-----------------------------------------------------------------------------
(***************************************************************************)
(* A running task has not yet made the report that its next step makes.    *)
(***************************************************************************)
LEMMA ProgressInit == Init => ProgressInv
  BY DEF Init, ProgressInv, Running, Body, Notifications, Scans

LEMMA ProgressNext ==
  LockInv /\ ProgressInv /\ [Next]_vars => ProgressInv'
<1> SUFFICES ASSUME LockInv, ProgressInv, [Next]_vars,
                    NEW q \in Requests, Running(q)'
             PROVE  Service!Reached(reports', q) < NextPosition[stage'[q]]
  BY DEF ProgressInv
<1> USE RequestsAssumption
<1>1. /\ TypeOK /\ HolderIsUnique /\ ReportsAreLaunched
      /\ launched \in Nat
      /\ stage \in [Requests -> Stages]
      /\ reports \in Seq(ReportRecord)
  BY DEF LockInv, TypeOK
<1>2. ASSUME reports' = reports, stage'[q] = stage[q]
      PROVE  Service!Reached(reports', q) < NextPosition[stage'[q]]
  BY <1>2 DEF ProgressInv, Running
<1>3. ASSUME NEW c \in Clients, Launch(c)
      PROVE  Service!Reached(reports', q) < NextPosition[stage'[q]]
  <2>1. CASE q = launched + 1
    <3>1. stage'[q] = "usbStatus" /\ reports' = reports
      BY <1>1, <1>3, <2>1 DEF Launch
    <3>2. Service!Reached(reports, q) = 0
      <4>1. reports # <<>> => Len(reports) \in 1..Len(reports)
        BY <1>1, EmptySeq, LenProperties
      <4>2. reports # <<>> => reports[Len(reports)].request # q
        BY <1>1, <2>1, <4>1 DEF ReportsAreLaunched
      <4>3. QED
        BY <4>2 DEF Service!Reached
    <3>3. QED
      BY <3>1, <3>2 DEF NextPosition
  <2>2. CASE q # launched + 1
    BY <1>1, <1>2, <1>3, <2>2 DEF Launch
  <2>3. QED
    BY <2>1, <2>2
<1>4. ASSUME NEW r \in Requests, Notify(r)
      PROVE  Service!Reached(reports', q) < NextPosition[stage'[q]]
  <2>1. q = r /\ Running(r)
    BY <1>1, <1>4 DEF HolderIsUnique, Notify, Running, Body
  <2>2. stage'[q] = Following[stage[q]]
    BY <1>1, <1>4, <2>1 DEF Notify
  <2>3. Service!Reached(reports, q) < NextPosition[stage[q]]
    BY <2>1 DEF ProgressInv
  <2>4. /\ NextPosition[stage[q]] \in Nat /\ NextPosition[stage'[q]] \in Nat
        /\ NextPosition[stage[q]] < NextPosition[stage'[q]]
        /\ Service!Position[stage[q]] = NextPosition[stage[q]]
    BY <1>4, <2>1, <2>2
    DEF Notify, Notifications, Following, NextPosition, Service!Position
  <2>5. CASE reports' = reports
    <3>1. Service!Reached(reports, q) \in Int
      <4>1. reports # <<>> => reports[Len(reports)] \in ReportRecord
        BY <1>1, EmptySeq, LenProperties, ElementOfSeq
      <4>2. QED
        BY <4>1 DEF Service!Reached, Service!Position, ReportRecord,
           Notifications
    <3>2. QED
      BY <2>3, <2>4, <2>5, <3>1
  <2>6. CASE reports' = Append(reports, [request |-> r, report |-> stage[r]])
    <3> DEFINE entry == [request |-> r, report |-> stage[r]]
    <3>1. entry \in ReportRecord
      BY <1>4 DEF Notify, ReportRecord
    <3>2. reports' # <<>> /\ reports'[Len(reports')] = entry
      BY <1>1, <2>6, <3>1, AppendProperties, LenProperties
    <3>3. Service!Reached(reports', q) = Service!Position[stage[q]]
      BY <2>1, <3>2 DEF Service!Reached
    <3>4. QED
      BY <2>4, <3>3
  <2>7. QED
    BY <1>4, <2>5, <2>6 DEF Notify
<1>5. ASSUME NEW r \in Requests, Scan(r)
      PROVE  Service!Reached(reports', q) < NextPosition[stage'[q]]
  <2>1. q = r /\ Running(r) /\ reports' = reports
    BY <1>1, <1>5 DEF HolderIsUnique, Scan, Running, Body
  <2>2. NextPosition[stage'[q]] = NextPosition[stage[q]]
    BY <1>1, <1>5, <2>1 DEF Scan, Scans, Following, NextPosition
  <2>3. QED
    BY <2>1, <2>2 DEF ProgressInv
<1>6. ASSUME NEW r \in Requests, ClearFlag(r) \/ Leave(r) \/ TaskThrows(r)
      PROVE  Service!Reached(reports', q) < NextPosition[stage'[q]]
  <2>1. reports' = reports /\ stage'[q] = stage[q]
    BY <1>1, <1>6 DEF ClearFlag, Leave, TaskThrows, Running, Body,
       Notifications, Scans
  <2>2. QED
    BY <1>2, <2>1
<1>7. ASSUME NEW c \in Clients,
             \/ Initialize(c) \/ RequestAccepted(c) \/ RequestRefused(c)
             \/ LaunchFails(c) \/ ReadOldFuture(c) \/ StoreFuture(c)
             \/ ReleaseOldFuture(c) \/ DeinitializeCalled(c)
             \/ DeinitializeReturns(c)
      PROVE  Service!Reached(reports', q) < NextPosition[stage'[q]]
  <2>1. UNCHANGED taskVars
    BY <1>7 DEF Initialize, RequestAccepted, RequestRefused, LaunchFails,
       ReadOldFuture, StoreFuture, ReleaseOldFuture, DeinitializeCalled,
       DeinitializeReturns
  <2>2. QED
    BY <1>2, <2>1 DEF taskVars
<1>8. ASSUME (\E r \in Requests : RequestFromCallback(r)) \/ Finished
             \/ UNCHANGED vars
      PROVE  Service!Reached(reports', q) < NextPosition[stage'[q]]
  <2>1. reports' = reports /\ stage' = stage
    BY <1>8 DEF RequestFromCallback, Finished, vars, taskVars
  <2>2. QED
    BY <1>2, <2>1
<1>9. QED
  BY <1>3, <1>4, <1>5, <1>6, <1>7, <1>8 DEF Next

(***************************************************************************)
(* Every step of kommpot_core is a step of the enumeration service or      *)
(* leaves it as it is.                                                     *)
(***************************************************************************)
LEMMA StepRefines ==
  LockInv /\ ProgressInv /\ [Next]_vars => [Service!Next]_(Service!vars)
<1> SUFFICES ASSUME LockInv, ProgressInv, [Next]_vars
             PROVE  [Service!Next]_(Service!vars)
  OBVIOUS
<1> USE RequestsAssumption DEF None
<1>1. /\ HolderIsUnique
      /\ launched \in Nat
      /\ stage \in [Requests -> Stages]
  BY DEF LockInv, TypeOK
\* A running task is the one being served.
<1>2. ASSUME NEW r \in Requests, Running(r)
      PROVE  r = launched /\ Serving = launched /\ Serving # None
  BY <1>1, <1>2 DEF HolderIsUnique, Serving, Requests
<1>3. ASSUME UNCHANGED <<launched, stage, reports>>
      PROVE  UNCHANGED Service!vars
  BY <1>3 DEF Service!vars, Serving, Running
<1>4. ASSUME NEW c \in Clients, Launch(c) PROVE Service!Accept
  <2>1. launched + 1 \in Requests /\ launched < MaxRequests
    BY <1>1, <1>4 DEF Launch, Requests
  <2>2. Serving = None
    <3>1. \A r \in Requests : ~Running(r)
      BY <1>1, <1>4 DEF HolderIsUnique, Launch
    <3>2. launched > 0 => launched \in Requests
      BY <1>1, <2>1 DEF Requests
    <3>3. QED
      BY <3>1, <3>2 DEF Serving
  <2>3. stage'[launched + 1] \in Body /\ launched' = launched + 1
    BY <1>1, <1>4, <2>1 DEF Launch, Body, Notifications
  <2>4. Serving' = launched + 1
    BY <1>1, <2>3 DEF Serving, Running
  <2>5. QED
    BY <1>4, <2>1, <2>2, <2>3, <2>4 DEF Launch, Service!Accept
<1>5. ASSUME NEW r \in Requests, Notify(r)
      PROVE  [Service!Next]_(Service!vars)
  <2>1. Running(r)
    BY <1>5 DEF Notify, Running, Body
  <2>2. r = launched /\ Serving = r /\ r # None
    BY <1>2, <2>1
  <2>3. Serving' = Serving /\ launched' = launched
    <3>1. Running(r)' /\ launched' = launched
      BY <1>1, <1>5 DEF Notify, Running, Notifications, Following, Body, Scans
    <3>2. QED
      BY <1>1, <2>2, <3>1 DEF Serving, Running
  <2>4. CASE reports' = reports
    BY <2>3, <2>4 DEF Service!vars
  <2>5. CASE reports' = Append(reports, [request |-> r, report |-> stage[r]])
    <3>1. stage[r] \in Service!Reports
      BY <1>5 DEF Notify, Notifications, Service!Reports
    <3>2. Service!Position[stage[r]] > Service!Reached(reports, Serving)
      <4>1. Service!Reached(reports, r) < NextPosition[stage[r]]
        BY <2>1 DEF ProgressInv
      <4>2. NextPosition[stage[r]] = Service!Position[stage[r]]
        BY <3>1 DEF NextPosition, Service!Position, Service!Reports
      <4>3. QED
        BY <2>2, <4>1, <4>2
    <3>3. Service!Report(stage[r])
      BY <2>2, <2>3, <2>5, <3>2 DEF Service!Report
    <3>4. QED
      BY <3>1, <3>3 DEF Service!Next
  <2>6. QED
    BY <1>5, <2>4, <2>5 DEF Notify
<1>6. ASSUME NEW r \in Requests, Scan(r) PROVE UNCHANGED Service!vars
  <2>1. Running(r)
    BY <1>6 DEF Scan, Running, Body
  <2>2. r = launched /\ Serving = r /\ r # None
    BY <1>2, <2>1
  <2>3. Running(r)' /\ launched' = launched /\ reports' = reports
    BY <1>1, <1>6 DEF Scan, Running, Notifications, Following, Body, Scans
  <2>4. QED
    BY <1>1, <2>2, <2>3 DEF Serving, Running, Service!vars
<1>7. ASSUME NEW r \in Requests, ClearFlag(r) \/ TaskThrows(r)
      PROVE  Service!Finish
  <2>1. Running(r)
    BY <1>7 DEF ClearFlag, TaskThrows, InCallback, Running, Body
  <2>2. r = launched /\ Serving # None
    BY <1>2, <2>1
  <2>3. ~Running(r)' /\ launched' = launched /\ reports' = reports
    BY <1>1, <1>7
    DEF ClearFlag, TaskThrows, Running, Body, Notifications, Scans
  <2>4. Serving' = None
    BY <2>2, <2>3 DEF Serving, Running
  <2>5. QED
    BY <2>2, <2>3, <2>4 DEF Service!Finish
<1>8. ASSUME NEW r \in Requests, Leave(r) PROVE UNCHANGED Service!vars
  <2>1. \A q \in Requests : Running(q)' <=> Running(q)
    BY <1>1, <1>8 DEF Leave, Running, Body, Notifications, Scans
  <2>2. launched > 0 => launched \in Requests
    BY DEF LockInv, TypeOK, Requests
  <2>3. launched' = launched /\ reports' = reports
    BY <1>8 DEF Leave
  <2>4. QED
    BY <2>1, <2>2, <2>3 DEF Serving, Running, Service!vars
<1>9. ASSUME NEW c \in Clients,
             \/ Initialize(c) \/ RequestAccepted(c) \/ RequestRefused(c)
             \/ LaunchFails(c) \/ ReadOldFuture(c) \/ StoreFuture(c)
             \/ ReleaseOldFuture(c) \/ DeinitializeCalled(c)
             \/ DeinitializeReturns(c)
      PROVE  UNCHANGED Service!vars
  <2>1. UNCHANGED taskVars
    BY <1>9 DEF Initialize, RequestAccepted, RequestRefused, LaunchFails,
       ReadOldFuture, StoreFuture, ReleaseOldFuture, DeinitializeCalled,
       DeinitializeReturns
  <2>2. QED
    BY <1>3, <2>1 DEF taskVars
<1>10. ASSUME (\E r \in Requests : RequestFromCallback(r)) \/ Finished
              \/ UNCHANGED vars
       PROVE  UNCHANGED Service!vars
  <2>1. UNCHANGED <<launched, stage, reports>>
    BY <1>10 DEF RequestFromCallback, Finished, vars, taskVars
  <2>2. QED
    BY <1>3, <2>1
<1>11. QED
  BY <1>4, <1>5, <1>6, <1>7, <1>8, <1>9, <1>10 DEF Next, Service!Next

(***************************************************************************)
(* kommpot_core keeps the safety part of what the enumeration service      *)
(* promises: requests one at a time, callbacks in protocol order.          *)
(***************************************************************************)
THEOREM RefinesService ==
  SafetySpec => Service!Init /\ [][Service!Next]_(Service!vars)
<1>1. Init => Service!Init
  BY DEF Init, Service!Init, Serving, None
<1>2. LockInv /\ ProgressInv /\ [Next]_vars => (LockInv /\ ProgressInv)'
  BY LockInvNext, ProgressNext
<1>3. QED
  BY <1>1, <1>2, LockInvInit, ProgressInit, StepRefines, PTL DEF SafetySpec
=============================================================================
