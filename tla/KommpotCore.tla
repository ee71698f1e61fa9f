---------------------------- MODULE KommpotCore ----------------------------
(***************************************************************************)
(* kommpot_core: the singleton that owns the asynchronous enumeration.     *)
(*                                                                         *)
(* Application threads (Clients) call initialize(), devices() and          *)
(* deinitialize(); every accepted request runs on a thread of its own that *)
(* std::async starts.  The threads share two fields: the atomic flag       *)
(* m_is_enumerating and the plain std::future m_future.  The flag is       *)
(* compared and exchanged atomically; the assignment to m_future is        *)
(* neither atomic nor immediate: it reads the old handle, stores the new   *)
(* one, and then the destructor of the old handle joins the old thread.    *)
(***************************************************************************)
EXTENDS Naturals, Sequences, FiniteSets

CONSTANTS
  Clients,          \* application threads
  MaxRequests,      \* bound on the requests a behaviour accepts
  MaxRefusals,      \* bound on the refusals a behaviour records
  Failures          \* which failures may happen: "launch" (std::async finds
                    \* no thread), "task" (a callback or a scan throws)

ASSUME ClientsAssumption  == Clients # {}
ASSUME RequestsAssumption == MaxRequests \in Nat
ASSUME RefusalsAssumption == MaxRefusals \in Nat
ASSUME FailuresAssumption == Failures \subseteq {"launch", "task"}

VARIABLES
  lib,              \* where the life of the library is
  enumerating,      \* m_is_enumerating
  future,           \* m_future: the request whose task it refers to, or None
  pc,               \* where each client is inside the library
  mine,             \* the temporary future that std::async gave the client
  old,              \* the future that the assignment replaced
  launched,         \* how many tasks were started
  stage,            \* where each task is in its body
  callbacks,        \* which of the two callbacks each request was given
  reports,          \* every callback made, oldest first
  refusals          \* how many requests found the flag set

clientVars == <<lib, future, pc, mine, old>>
taskVars   == <<launched, stage, callbacks, reports>>
vars == <<lib, enumerating, future, pc, mine, old, launched, stage, callbacks,
          reports, refusals>>

None     == 0
Requests == 1..MaxRequests

(***************************************************************************)
(* The body of a task, in program order.  "leaving" is the time between    *)
(* the end of the body and the moment the future becomes ready and the     *)
(* thread can be joined.                                                   *)
(***************************************************************************)
Notifications == {"usbStatus", "usbReport", "ethernetStatus",
                  "ethernetReport", "completed"}
Scans         == {"usbScan", "ethernetScan"}
Body          == Notifications \cup Scans \cup {"clear"}
Stages        == Body \cup {"unborn", "leaving", "done"}

(* Variants of the body: no COMPLETED, and COMPLETED before the devices.   *)
FollowingSilent == [usbStatus |-> "usbScan", usbScan |-> "usbReport",
                    usbReport |-> "ethernetStatus",
                    ethernetStatus |-> "ethernetScan",
                    ethernetScan |-> "ethernetReport",
                    ethernetReport |-> "clear", completed |-> "clear"]
FollowingSwapped == [FollowingSilent EXCEPT !.ethernetScan = "completed",
                                            !.completed = "ethernetReport"]

Following == [usbStatus      |-> "usbScan",
              usbScan        |-> "usbReport",
              usbReport      |-> "ethernetStatus",
              ethernetStatus |-> "ethernetScan",
              ethernetScan   |-> "ethernetReport",
              ethernetReport |-> "completed",
              completed      |-> "clear"]

(* The parameter of devices() that each notification calls.                *)
CallbackOf == [usbStatus |-> "status", usbReport |-> "device",
               ethernetStatus |-> "status", ethernetReport |-> "device",
               completed |-> "status"]

Running(r) == stage[r] \in Body
Alive(r)   == stage[r] \in Body \cup {"leaving"}

(* The last callback that was made is one of request r and has not         *)
(* returned: the task is still before the step that follows it.            *)
InCallback(r) ==
  /\ Running(r)
  /\ reports # <<>>
  /\ reports[Len(reports)].request = r
  /\ Following[reports[Len(reports)].report] = stage[r]

Init ==
  /\ lib = "new"
  /\ enumerating = FALSE
  /\ future = None
  /\ pc = [c \in Clients |-> "idle"]
  /\ mine = [c \in Clients |-> None]
  /\ old = [c \in Clients |-> None]
  /\ launched = 0
  /\ stage = [r \in Requests |-> "unborn"]
  /\ callbacks = [r \in Requests |-> {}]
  /\ reports = <<>>
  /\ refusals = 0

-----------------------------------------------------------------------------
(* The application's calls.  libkommpot.h asks that initialize() comes     *)
(* before, and deinitialize() after, every other call.                     *)

Initialize(c) ==
  /\ lib = "new"
  /\ pc[c] = "idle"
  /\ lib' = "up"
  /\ UNCHANGED <<enumerating, future, pc, mine, old, taskVars, refusals>>

(* Variant: the flag is set without being looked at.                       *)
RequestUnguarded(c) ==
  /\ lib = "up"
  /\ pc[c] = "idle"
  /\ launched < MaxRequests
  /\ enumerating' = TRUE
  /\ pc' = [pc EXCEPT ![c] = "launch"]
  /\ UNCHANGED <<lib, future, mine, old, taskVars, refusals>>

(* devices(): compare_exchange_strong takes the flag.                      *)
RequestAccepted(c) ==
  /\ lib = "up"
  /\ pc[c] = "idle"
  /\ launched < MaxRequests
  /\ ~enumerating
  /\ enumerating' = TRUE
  /\ pc' = [pc EXCEPT ![c] = "launch"]
  /\ UNCHANGED <<lib, future, mine, old, taskVars, refusals>>

(* devices(): the flag was set already, so the call returns at once.       *)
RequestRefused(c) ==
  /\ lib = "up"
  /\ pc[c] = "idle"
  /\ enumerating
  /\ refusals < MaxRefusals
  /\ refusals' = refusals + 1
  /\ UNCHANGED <<clientVars, enumerating, taskVars>>

(* std::async starts the task and returns a temporary future.              *)
Launch(c) ==
  /\ pc[c] = "launch"
  /\ launched < MaxRequests
  /\ launched' = launched + 1
  /\ stage' = [stage EXCEPT ![launched + 1] = "usbStatus"]
  /\ \E given \in SUBSET {"status", "device"} :
       callbacks' = [callbacks EXCEPT ![launched + 1] = given]
  /\ mine' = [mine EXCEPT ![c] = launched + 1]
  /\ pc' = [pc EXCEPT ![c] = "swap"]
  /\ UNCHANGED <<lib, enumerating, future, old, reports, refusals>>

(* std::async finds no thread and throws: nothing resets the flag.         *)
LaunchFails(c) ==
  /\ "launch" \in Failures
  /\ pc[c] = "launch"
  /\ pc' = [pc EXCEPT ![c] = "idle"]
  /\ UNCHANGED <<lib, enumerating, future, mine, old, taskVars, refusals>>

(* m_future = ...: the assignment reads the handle it replaces ...         *)
ReadOldFuture(c) ==
  /\ pc[c] = "swap"
  /\ old' = [old EXCEPT ![c] = future]
  /\ pc' = [pc EXCEPT ![c] = "store"]
  /\ UNCHANGED <<lib, enumerating, future, mine, taskVars, refusals>>

(* ... stores the new one ...                                              *)
StoreFuture(c) ==
  /\ pc[c] = "store"
  /\ future' = mine[c]
  /\ mine' = [mine EXCEPT ![c] = None]
  /\ pc' = [pc EXCEPT ![c] = "release"]
  /\ UNCHANGED <<lib, enumerating, old, taskVars, refusals>>

(* ... and ~future of the replaced handle joins the task it refers to.     *)
ReleaseOldFuture(c) ==
  /\ pc[c] = "release"
  /\ old[c] # None => stage[old[c]] = "done"
  /\ old' = [old EXCEPT ![c] = None]
  /\ pc' = [pc EXCEPT ![c] = "idle"]
  /\ UNCHANGED <<lib, enumerating, future, mine, taskVars, refusals>>

(* deinitialize() is called when every other call has returned; a task may *)
(* still run.                                                              *)
DeinitializeCalled(c) ==
  /\ lib = "up"
  /\ \A d \in Clients : pc[d] = "idle"
  /\ lib' = "closing"
  /\ pc' = [pc EXCEPT ![c] = "wait"]
  /\ UNCHANGED <<enumerating, future, mine, old, taskVars, refusals>>

(* Variants: no wait, and a wait for the flag instead of the future.       *)
DeinitializeAtOnce(c) ==
  /\ pc[c] = "wait"
  /\ lib' = "down"
  /\ pc' = [pc EXCEPT ![c] = "idle"]
  /\ UNCHANGED <<enumerating, future, mine, old, taskVars, refusals>>

DeinitializeOnFlag(c) == ~enumerating /\ DeinitializeAtOnce(c)

(* if (m_future.valid()) m_future.wait(), then the ethernet context and    *)
(* the logger are torn down and the call returns true.                     *)
DeinitializeReturns(c) ==
  /\ pc[c] = "wait"
  /\ future # None => stage[future] = "done"
  /\ lib' = "down"
  /\ pc' = [pc EXCEPT ![c] = "idle"]
  /\ UNCHANGED <<enumerating, future, mine, old, taskVars, refusals>>

-----------------------------------------------------------------------------
(* The task.                                                               *)

(* Variants: the flag is cleared before the last callback has returned,    *)
(* and the report is attributed to m_future.                               *)
NotifyAndClear(r) ==
  /\ stage[r] \in Notifications
  /\ stage' = [stage EXCEPT ![r] = Following[stage[r]]]
  /\ reports' = IF CallbackOf[stage[r]] \in callbacks[r]
                THEN Append(reports, [request |-> r, report |-> stage[r]])
                ELSE reports
  /\ enumerating' = (enumerating /\ stage[r] # "completed")
  /\ UNCHANGED <<clientVars, launched, callbacks, refusals>>

(* A notification: the callback is entered when the request came with it.  *)
(* It returns with the step that follows.                                  *)
Notify(r) ==
  /\ stage[r] \in Notifications
  /\ stage' = [stage EXCEPT ![r] = Following[stage[r]]]
  /\ reports' = IF CallbackOf[stage[r]] \in callbacks[r]
                THEN Append(reports, [request |-> r, report |-> stage[r]])
                ELSE reports
  /\ UNCHANGED <<clientVars, enumerating, launched, callbacks, refusals>>

(* communication_libusb::devices() or communication_ethernet::devices().   *)
Scan(r) ==
  /\ stage[r] \in Scans
  /\ stage' = [stage EXCEPT ![r] = Following[stage[r]]]
  /\ UNCHANGED <<clientVars, enumerating, launched, callbacks, reports,
                 refusals>>

(* Variant: the flag keeps its value.                                      *)
ClearNothing(r) ==
  /\ stage[r] = "clear"
  /\ stage' = [stage EXCEPT ![r] = "leaving"]
  /\ UNCHANGED <<clientVars, enumerating, launched, callbacks, reports,
                 refusals>>

ClearFlag(r) ==
  /\ stage[r] = "clear"
  /\ enumerating' = FALSE
  /\ stage' = [stage EXCEPT ![r] = "leaving"]
  /\ UNCHANGED <<clientVars, launched, callbacks, reports, refusals>>

(* The thread stores its result in the shared state and ends.              *)
Leave(r) ==
  /\ stage[r] = "leaving"
  /\ stage' = [stage EXCEPT ![r] = "done"]
  /\ UNCHANGED <<clientVars, enumerating, launched, callbacks, reports,
                 refusals>>

(* A callback or a scan throws.  std::async stores the exception in the    *)
(* future, where nobody asks for it; the flag keeps its value.             *)
TaskThrows(r) ==
  /\ "task" \in Failures
  /\ InCallback(r) \/ stage[r] \in Scans
  /\ stage' = [stage EXCEPT ![r] = "leaving"]
  /\ UNCHANGED <<clientVars, enumerating, launched, callbacks, reports,
                 refusals>>

(* A callback calls devices() from the thread of the task and finds the    *)
(* flag set.                                                               *)
RequestFromCallback(r) ==
  /\ InCallback(r)
  /\ enumerating
  /\ refusals < MaxRefusals
  /\ refusals' = refusals + 1
  /\ UNCHANGED <<clientVars, enumerating, taskVars>>

-----------------------------------------------------------------------------
(* The library was deinitialized and every thread of it has ended.         *)
Finished ==
  /\ lib = "down"
  /\ \A c \in Clients : pc[c] = "idle"
  /\ \A r \in Requests : ~Alive(r)
  /\ UNCHANGED vars

(* The steps of a call that was made, and of a task that was started: the  *)
(* scheduler runs them.  Calling is the application's choice.              *)
ClientStep(c) ==
  \/ Launch(c) \/ LaunchFails(c)
  \/ ReadOldFuture(c) \/ StoreFuture(c) \/ ReleaseOldFuture(c)
  \/ DeinitializeReturns(c)

TaskStep(r) == Notify(r) \/ Scan(r) \/ ClearFlag(r) \/ Leave(r)

Next ==
  \/ \E c \in Clients :
       \/ Initialize(c)
       \/ RequestAccepted(c)
       \/ RequestRefused(c)
       \/ Launch(c)
       \/ LaunchFails(c)
       \/ ReadOldFuture(c)
       \/ StoreFuture(c)
       \/ ReleaseOldFuture(c)
       \/ DeinitializeCalled(c)
       \/ DeinitializeReturns(c)
  \/ \E r \in Requests :
       \/ Notify(r)
       \/ Scan(r)
       \/ ClearFlag(r)
       \/ Leave(r)
       \/ TaskThrows(r)
       \/ RequestFromCallback(r)
  \/ Finished

(* Threads that can run do run; callbacks and scans return.                *)
Fairness ==
  /\ \A c \in Clients : WF_vars(ClientStep(c))
  /\ \A r \in Requests : WF_vars(TaskStep(r))

SafetySpec == Init /\ [][Next]_vars
Spec       == SafetySpec /\ Fairness

-----------------------------------------------------------------------------
ReportRecord == [request : Requests, report : Notifications]

(* Type invariant of the state of kommpot_core and of its threads.         *)
TypeOK ==
  /\ lib \in {"new", "up", "closing", "down"}
  /\ enumerating \in BOOLEAN
  /\ future \in Requests \cup {None}
  /\ pc \in [Clients -> {"idle", "launch", "swap", "store", "release", "wait"}]
  /\ mine \in [Clients -> Requests \cup {None}]
  /\ old \in [Clients -> Requests \cup {None}]
  /\ launched \in 0..MaxRequests
  /\ stage \in [Requests -> Stages]
  /\ callbacks \in [Requests -> SUBSET {"status", "device"}]
  /\ reports \in Seq(ReportRecord)
  /\ refusals \in 0..MaxRefusals

(* m_is_enumerating is a lock: between the exchange that takes it and the  *)
(* store that clears it, one caller about to launch or one task in its     *)
(* body holds it, and never two of them.                                   *)
AtMostOneEnumeration ==
  LET callers == {c \in Clients : pc[c] = "launch"}
      tasks   == {r \in Requests : Running(r)}
  IN  /\ Cardinality(callers) + Cardinality(tasks) <= 1
      /\ callers # {} \/ tasks # {} => enumerating

(* The application never hears of an earlier request after a later one has *)
(* begun to report, however the threads of the two are scheduled.          *)
RequestsNeverInterleave ==
  \A i, j \in 1..Len(reports) :
    i < j => reports[i].request <= reports[j].request

(* When deinitialize() has returned no task of the library is left that    *)
(* could still scan, log or call back into the application.                *)
QuiescentAfterDeinitialize ==
  lib = "down" => \A r \in Requests : ~Alive(r)

(* The comment on m_is_enumerating: the flag keeps a caller of devices()   *)
(* from being blocked on the std::future destructor by a task whose        *)
(* enumeration is still running.                                           *)
CallerNeverBlocked ==
  \A c \in Clients : pc[c] = "release" /\ old[c] # None => ~Running(old[c])

(* The guard is released: an enumeration that runs ends and the library    *)
(* accepts requests again.                                                 *)
GuardReleased == enumerating ~> ~enumerating

(* Every request that came with a status callback hears COMPLETED.         *)
EveryRequestCompletes ==
  \A r \in Requests :
    (Running(r) /\ "status" \in callbacks[r])
      ~> (\E i \in 1..Len(reports) :
            reports[i] = [request |-> r, report |-> "completed"])

(* deinitialize() returns, whatever callbacks and scans throw.             *)
DeinitializeTerminates == lib = "closing" ~> lib = "down"

-----------------------------------------------------------------------------
(* The inductive invariants of the proofs.                                 *)

(* Who holds the flag: at most one caller before its launch, or the task   *)
(* launched last.                                                          *)
HolderIsUnique ==
  /\ \A c, d \in Clients : pc[c] = "launch" /\ pc[d] = "launch" => c = d
  /\ \A c \in Clients :
       pc[c] = "launch" => enumerating /\ \A r \in Requests : ~Running(r)
  /\ \A r \in Requests : Running(r) => enumerating /\ r = launched

(* What was reported so far belongs to requests that were launched.        *)
ReportsAreLaunched ==
  \A i \in 1..Len(reports) : reports[i].request <= launched

LockInv ==
  /\ TypeOK
  /\ HolderIsUnique
  /\ ReportsAreLaunched
  /\ RequestsNeverInterleave

(* With one caller, m_future is always the last task launched, except      *)
(* inside the assignment, and only the task being replaced can be alive    *)
(* besides it.                                                             *)
FutureInv ==
  \A c \in Clients :
    /\ pc[c] \in {"idle", "launch", "wait", "release"} => future = launched
    /\ pc[c] \in {"swap", "store"} =>
         mine[c] = launched /\ launched = future + 1
    /\ pc[c] = "store" => old[c] = future
    /\ pc[c] = "release" => launched = old[c] + 1
    /\ \A r \in Requests :
         Alive(r) => \/ r = launched
                     \/ pc[c] \in {"swap", "store", "release"} /\ launched = r + 1
    /\ pc[c] = "wait" <=> lib = "closing"
    /\ lib \in {"new", "down"} => pc[c] = "idle"

SingleCallerInv == LockInv /\ FutureInv /\ QuiescentAfterDeinitialize

-----------------------------------------------------------------------------
(* The refinement: the service serves the last request while its task is   *)
(* in its body.                                                            *)
Serving == IF launched > 0 /\ Running(launched) THEN launched ELSE None

Service == INSTANCE EnumerationService
             WITH accepted <- launched, serving <- Serving

(* A running task never reports again what it reported.                    *)
NextPosition == [usbStatus |-> 1, usbScan |-> 2, usbReport |-> 2,
                 ethernetStatus |-> 3, ethernetScan |-> 4,
                 ethernetReport |-> 4, completed |-> 5, clear |-> 6]

ProgressInv ==
  \A r \in Requests :
    Running(r) => Service!Reached(reports, r) < NextPosition[stage[r]]

(* kommpot_core serves requests one at a time and in order, reports in     *)
(* protocol order, and never serves one forever.                           *)
ImplementsService == Service!Spec
=============================================================================
