------------------------------- MODULE Logger -------------------------------
(***************************************************************************)
(* The settings and the logger of kommpot_core, which initialize(),        *)
(* set_settings() and deinitialize() set up, replace and tear down in the  *)
(* application's thread while tasks log.                                   *)
(*                                                                         *)
(* A logging statement takes the logger from spdlog's registry, filters by *)
(* level, locks the mutex of the sink and, if the sink was made for a      *)
(* callback, calls the one that m_settings holds by then.  The registry is *)
(* atomic, m_settings is not: to copy it while it is assigned is a data    *)
(* race.  That and a null logger end what can be said of the process.      *)
(***************************************************************************)
EXTENDS Naturals, Sequences

CONSTANTS
  App,              \* the application's thread
  Tasks,            \* threads of enumerations
  Callbacks,        \* logging callbacks the application may set
  NoCallback,
  MaxCalls          \* bound on the calls of initialize() and set_settings()

Levels   == {"debug", "error", "off"}
Settings == [level : Levels, callback : Callbacks \cup {NoCallback}]
Threads  == Tasks \cup {App}

ASSUME AppAssumption      == App \notin Tasks
ASSUME CallbackAssumption == NoCallback \notin Callbacks

VARIABLES
  pc,               \* where the application's thread is
  m_settings,
  loggers,          \* every logger made: its level, and whether its sink is
                    \* for a callback; m_logger is the last
  registered,       \* which of them spdlog::get() gives, 0 for nullptr
  thread,           \* for each thread, where it is in a logging statement,
                    \* the logger it took, the callback it runs and the calls
                    \* that had returned when it began
  running,          \* tasks that run
  closing,          \* deinitialize() was called
  calls,            \* how many calls have returned
  fault,            \* what went wrong
  careless          \* what the application did (history)

vars == <<pc, m_settings, loggers, registered, thread, running, closing,
          calls, fault, careless>>

m_logger == Len(loggers)
Silent   == [at |-> "none", logger |-> 0, callback |-> NoCallback, began |-> 0]

Init ==
  /\ pc = "new"
  /\ m_settings = [level |-> "error", callback |-> NoCallback]
  /\ loggers = <<>>
  /\ registered = 0
  /\ thread = [t \in Threads |-> Silent]
  /\ running = {}
  /\ closing = FALSE
  /\ calls = 0
  /\ fault = "none"
  /\ careless = {}

(* A thread holds the mutex of a sink while it is inside.                  *)
InSink(t, l) == thread[t].logger = l /\ thread[t].at \in {"sink", "callback"}

SinkFree(l) == \A t \in Threads : ~InSink(t, l)

-----------------------------------------------------------------------------
(* A logging statement.  The application's own are those that announce a   *)
(* session; a task logs at any time, at any level.                         *)
Reaches(t) ==
  /\ fault = "none"
  /\ thread[t].at = "none"
  /\ IF t = App THEN pc \in {"begun", "over"} ELSE t \in running

Fail(what) ==
  /\ fault' = what
  /\ UNCHANGED <<pc, m_settings, loggers, registered, thread, running,
                 closing, calls, careless>>

(* A logger has spdlog's level, info, until it is given another.           *)
Passes(level, message) ==
  level = "debug" \/ (level \in {"info", "error"} /\ message = "error")

AfterStatement == IF pc = "begun" THEN "return" ELSE "flushLast"

Begin(t) ==
  /\ Reaches(t)
  /\ registered # 0
  /\ \E message \in IF t = App THEN {"debug"} ELSE {"debug", "error"} :
       IF Passes(loggers[registered].level, message)
       THEN thread' = [thread EXCEPT ![t] =
              [at |-> "lock", logger |-> registered,
               callback |-> NoCallback, began |-> calls]]
       ELSE UNCHANGED thread
  /\ pc' = IF t = App THEN AfterStatement ELSE pc
  /\ UNCHANGED <<m_settings, loggers, registered, running, closing, calls,
                 fault, careless>>

GetNull(t) ==
  /\ Reaches(t)
  /\ registered = 0
  /\ Fail("null")

Move(t, from, next) ==
  /\ fault = "none"
  /\ thread[t].at = from
  /\ thread' = [thread EXCEPT ![t] = next]
  /\ UNCHANGED <<pc, m_settings, loggers, registered, running, closing, calls,
                 fault, careless>>

LockSink(t) ==
  /\ SinkFree(thread[t].logger)
  /\ Move(t, "lock", [thread[t] EXCEPT !.at = "sink"])

(* The lambda copies the settings; they may have no callback any more.     *)
ReadSettings(t) ==
  /\ thread[t].at = "sink"
  /\ loggers[thread[t].logger].callback
  /\ pc # "write"
  /\ IF m_settings.callback = NoCallback
     THEN Move(t, "sink", Silent)
     ELSE Move(t, "sink", [at |-> "callback", logger |-> thread[t].logger,
                           callback |-> m_settings.callback,
                           began |-> thread[t].began])

ReadTorn(t) ==
  /\ fault = "none"
  /\ thread[t].at = "sink"
  /\ loggers[thread[t].logger].callback
  /\ pc = "write"
  /\ Fail("race")

(* The default sinks need no settings.                                     *)
Output(t) ==
  /\ thread[t].at = "sink"
  /\ ~loggers[thread[t].logger].callback
  /\ Move(t, "sink", Silent)

CallbackReturns(t) == Move(t, "callback", Silent)

-----------------------------------------------------------------------------
AppAt(place) == fault = "none" /\ pc = place /\ thread[App].at = "none"

Goto(place) ==
  /\ pc' = place
  /\ UNCHANGED <<m_settings, thread, running, closing, calls, fault, careless>>

Step(from, to) == AppAt(from) /\ Goto(to) /\ UNCHANGED <<loggers, registered>>

Initialize == Step("new", "register")

(* m_settings = settings begins.                                           *)
SetSettings ==
  /\ AppAt("idle")
  /\ calls < MaxCalls
  /\ m_settings' \in Settings
  /\ careless' = careless
       \cup (IF running # {} THEN {"changed"} ELSE {})
       \cup (IF m_settings'.level = "off" THEN {"off"} ELSE {})
  /\ pc' = "write"
  /\ UNCHANGED <<loggers, registered, thread, running, closing, calls, fault>>

Written ==
  Step("write", IF m_settings.level = "off" THEN "tearDown" ELSE "flush")

(* Variant: no flush.                                                      *)
FlushNothing == Step("flush", "drop")

(* m_logger->flush() waits for the mutex of the sink.                      *)
Flush == SinkFree(m_logger) /\ Step("flush", "drop")

(* Variant: the old logger stays in the registry.                          *)
DropNothing == Step("drop", "register")

Drop ==
  /\ AppAt("drop")
  /\ registered' = 0
  /\ UNCHANGED loggers
  /\ Goto("register")

(* A new logger becomes m_logger and is registered.  register_logger()     *)
(* throws when the name is taken, and set_settings() is noexcept.          *)
Register ==
  /\ AppAt("register")
  /\ IF registered # 0 THEN Fail("taken") ELSE
       /\ loggers' = Append(loggers,
            [level |-> "info", callback |-> m_settings.callback # NoCallback])
       /\ registered' = Len(loggers')
       /\ Goto("level")

(* Variant: the level is set on the logger made first.                     *)
SetLevelOfFirst ==
  /\ AppAt("level")
  /\ loggers' = [loggers EXCEPT ![1].level = m_settings.level]
  /\ UNCHANGED registered
  /\ Goto("pattern")

SetLevel ==
  /\ AppAt("level")
  /\ loggers' = [loggers EXCEPT ![registered].level = m_settings.level]
  /\ UNCHANGED registered
  /\ Goto("pattern")

(* set_pattern() takes the mutex of the sink, too.                         *)
SetPattern == SinkFree(registered) /\ Step("pattern", "begun")

(* deinitialize_logger() returns at once when there is no logger.          *)
TearDown == Step("tearDown", IF registered = 0 THEN "return" ELSE "over")

FlushLast == SinkFree(registered) /\ Step("flushLast", "dropLast")

DropLast ==
  /\ AppAt("dropLast")
  /\ registered' = 0
  /\ UNCHANGED loggers
  /\ Goto("return")

Return ==
  /\ AppAt("return")
  /\ pc' = IF closing THEN "down" ELSE "idle"
  /\ calls' = calls + 1
  /\ UNCHANGED <<m_settings, loggers, registered, thread, running, closing,
                 fault, careless>>

(* deinitialize() waits for the task, and then ends the logging session.   *)
Deinitialize ==
  /\ AppAt("idle")
  /\ running = {}
  /\ closing' = TRUE
  /\ pc' = "tearDown"
  /\ UNCHANGED <<m_settings, loggers, registered, thread, running, calls,
                 fault, careless>>

-----------------------------------------------------------------------------
(* An enumeration begins, and ends.                                        *)
SetRunning(tasks) ==
  /\ running' = tasks
  /\ UNCHANGED <<pc, m_settings, loggers, registered, thread, closing, calls,
                 fault, careless>>

TaskBegins(t) ==
  /\ AppAt("idle")
  /\ t \notin running
  /\ SetRunning(running \cup {t})

TaskEnds(t) ==
  /\ fault = "none"
  /\ t \in running
  /\ thread[t].at = "none"
  /\ SetRunning(running \ {t})

(* The library was deinitialized, or nothing can be said any more.         *)
Finished == (pc = "down" \/ fault # "none") /\ UNCHANGED vars

Next ==
  \/ Initialize
  \/ SetSettings
  \/ Written
  \/ Flush
  \/ Drop
  \/ Register
  \/ SetLevel
  \/ SetPattern
  \/ TearDown
  \/ FlushLast
  \/ DropLast
  \/ Return
  \/ Deinitialize
  \/ \E t \in Tasks : TaskBegins(t) \/ TaskEnds(t)
  \/ \E t \in Threads :
       \/ Begin(t)
       \/ GetNull(t)
       \/ LockSink(t)
       \/ ReadSettings(t)
       \/ ReadTorn(t)
       \/ Output(t)
       \/ CallbackReturns(t)
  \/ Finished

Spec == Init /\ [][Next]_vars

-----------------------------------------------------------------------------
(* The application that changes settings only while nothing runs, and      *)
(* leaves logging on, is safe: no statement finds a null logger or half-   *)
(* written settings, whatever the tasks log.  And however it changes them, *)
(* one thread never finds the logger's name taken, which would end the     *)
(* process.                                                                *)
OnlyCarelessFaults ==
  /\ fault = "race" => "changed" \in careless
  /\ fault = "null" => careless # {}
  /\ fault # "taken"

(* Between two calls the registered logger is the one the settings         *)
(* describe, and there is none when they say that logging is off.          *)
LoggerIsCurrent ==
  pc = "idle" =>
    IF m_settings.level = "off" THEN registered = 0
    ELSE /\ registered = m_logger
         /\ loggers[registered] =
              [level |-> m_settings.level,
               callback |-> m_settings.callback # NoCallback]

(* When set_settings() has returned, the callback that it replaced runs no *)
(* more, in any thread: flush() waits for it, and a statement that has not *)
(* come that far will read the new settings.  Only a thread that slept in  *)
(* a statement through a whole earlier call has a logger that is not       *)
(* waited for.                                                             *)
OldCallbackIsOver ==
  pc = "idle" =>
    \A t \in Threads :
      /\ thread[t].at = "callback"
      /\ thread[t].callback # m_settings.callback
      => thread[t].began + 1 < calls
-----------------------------------------------------------------------------
(* The inductive invariant of the proofs.                                  *)
Places ==
  {"new", "idle", "write", "flush", "drop", "register", "level", "pattern",
   "begun", "tearDown", "over", "flushLast", "dropLast", "return", "down"}

Statements ==
  [at : {"none", "lock", "sink", "callback"}, logger : Nat,
   callback : Callbacks \cup {NoCallback}, began : Nat]

LoggerRecord == [level : {"info"} \cup Levels, callback : BOOLEAN]

Loggers == Seq(LoggerRecord)

TypeOK ==
  /\ pc \in Places
  /\ m_settings \in Settings
  /\ loggers \in Loggers
  /\ registered \in Nat
  /\ thread \in [Threads -> Statements]
  /\ running \subseteq Tasks
  /\ closing \in BOOLEAN
  /\ calls \in Nat
  /\ fault \in {"none", "null", "race", "taken"}
  /\ careless \subseteq {"changed", "off"}

(* Who logs: a task that runs, or the application at its two statements,   *)
(* which it waits for.                                                     *)
ActiveInv ==
  /\ thread[App].at # "none" => pc \in {"return", "flushLast"}
  /\ \A t \in Tasks : thread[t].at # "none" => t \in running

CarelessInv ==
  /\ running # {} => pc = "idle" \/ "changed" \in careless
  /\ m_settings.level = "off" => "off" \in careless

(* The logger describes the settings, except for its level.                *)
Fits ==
  /\ m_settings.level # "off"
  /\ registered = m_logger /\ registered # 0
  /\ loggers[registered].callback <=> m_settings.callback # NoCallback

Current ==
  IF m_settings.level = "off" THEN registered = 0
  ELSE Fits /\ loggers[registered].level = m_settings.level

(* What each place in a call has done to the logger.                       *)
RegisteredInv ==
  /\ registered \in {0, m_logger}
  /\ pc \in {"new", "register"} => registered = 0
  /\ pc \in {"over", "flushLast"} => registered # 0
  /\ pc \in {"new", "register", "flush", "drop"} => m_settings.level # "off"
  /\ pc = "level" => Fits
  /\ pc \in {"pattern", "begun", "idle"} => Current
  /\ pc \in {"pattern", "begun"} => m_settings.level # "off"
  /\ pc = "return" => closing \/ Current
  /\ pc \in {"tearDown", "over", "flushLast", "dropLast"} =>
       closing \/ m_settings.level = "off"
  /\ closing =>
       pc \in {"tearDown", "over", "flushLast", "dropLast", "return", "down"}

(* A statement that holds a logger which is not registered any more began  *)
(* in an earlier call, or in this one before the logger was dropped.       *)
Dropped == {"register", "level", "pattern", "begun", "return", "down"}

StaleInv ==
  \A t \in Threads :
    thread[t].at # "none" =>
      /\ pc # "new"
      /\ thread[t].logger # 0
      /\ thread[t].began <= calls
      /\ thread[t].logger # registered /\ pc \notin Dropped =>
           thread[t].began < calls

(* Behind the flush, a callback that was replaced runs in such a statement *)
(* only.                                                                   *)
OldInv ==
  \A t \in Threads :
    thread[t].at = "callback" /\ thread[t].callback # m_settings.callback =>
      /\ pc \in {"drop", "dropLast"} \cup Dropped =>
           thread[t].began < calls
      /\ pc = "idle" => thread[t].began + 1 < calls

IInv ==
  /\ TypeOK /\ ActiveInv /\ CarelessInv /\ RegisteredInv /\ StaleInv
  /\ OldInv /\ OnlyCarelessFaults
=============================================================================
