---------------------------- MODULE LoggerProofs ----------------------------
(***************************************************************************)
(* Proofs about Logger, for any tasks, callbacks and number of calls.      *)
(*                                                                         *)
(* The inductive invariant is IInv.  It follows the application's thread   *)
(* through a call and says at each place what has been done to the logger, *)
(* and it dates statements: one that holds a logger which was replaced     *)
(* began before the call that replaced it was over.  That is why a flush   *)
(* of the last logger alone is enough for OldCallbackIsOver.               *)
(***************************************************************************)
EXTENDS Logger, TLAPS

(* The steps of a logging statement of thread t.                           *)
Logs(t) ==
  \/ Begin(t) \/ GetNull(t) \/ LockSink(t) \/ ReadSettings(t)
  \/ ReadTorn(t) \/ Output(t) \/ CallbackReturns(t)

(* The steps of the application's thread inside a call that only go on.    *)
GoesOn ==
  \/ Initialize \/ Written \/ Flush \/ SetPattern \/ TearDown \/ FlushLast

(* What the two steps that change a logger do to the loggers.              *)
LEMMA Registered ==
  ASSUME TypeOK, Register, registered = 0
  PROVE  /\ loggers' \in Loggers
         /\ m_logger' = m_logger + 1 /\ registered' = m_logger'
         /\ loggers'[registered'].callback <=> m_settings.callback # NoCallback
         /\ pc' = "level"
         /\ UNCHANGED <<m_settings, thread, running, closing, calls, fault,
                        careless>>
  <1> DEFINE new == [level |-> "info",
                     callback |-> m_settings.callback # NoCallback]
  <1>1. new \in LoggerRecord
    BY DEF LoggerRecord
  <1>2. /\ loggers' = Append(loggers, new) /\ registered' = Len(loggers')
        /\ pc' = "level"
        /\ UNCHANGED <<m_settings, thread, running, closing, calls, fault,
                       careless>>
    BY DEF Register, Goto
  <1>3. new.callback <=> m_settings.callback # NoCallback
    OBVIOUS
  <1> HIDE DEF new
  <1>4. /\ loggers' \in Loggers /\ Len(loggers') = Len(loggers) + 1
        /\ loggers'[Len(loggers) + 1] = new
    BY <1>1, <1>2 DEF TypeOK, Loggers
  <1>. QED BY <1>2, <1>3, <1>4 DEF m_logger

LEMMA LevelSet ==
  ASSUME TypeOK, SetLevel, registered \in 1..m_logger
  PROVE  /\ loggers' \in Loggers
         /\ m_logger' = m_logger /\ registered' = registered
         /\ loggers'[registered].level = m_settings.level
         /\ loggers'[registered].callback = loggers[registered].callback
         /\ pc' = "pattern"
         /\ UNCHANGED <<m_settings, thread, running, closing, calls, fault,
                        careless>>
  <1>1. PICK new :
          /\ new = [loggers[registered] EXCEPT !.level = m_settings.level]
          /\ loggers' = [loggers EXCEPT ![registered] = new]
    BY DEF SetLevel
  <1>2. loggers[registered] \in LoggerRecord
    BY DEF TypeOK, Loggers, m_logger
  <1>3. /\ new \in LoggerRecord
        /\ new.level = m_settings.level
        /\ new.callback = loggers[registered].callback
    BY <1>1, <1>2 DEF TypeOK, Settings, LoggerRecord
  <1>4. /\ loggers' \in Loggers /\ Len(loggers') = Len(loggers)
        /\ loggers'[registered] = new
    BY <1>1, <1>3 DEF TypeOK, Loggers, m_logger
  <1>. QED BY <1>3, <1>4 DEF SetLevel, Goto, m_logger

(* Every step keeps the types.                                             *)
LEMMA TypeStep ==
  ASSUME TypeOK, RegisteredInv, [Next]_vars
  PROVE  TypeOK'
  <1> USE DEF TypeOK, Places, Threads
  <1>0. ASSUME NEW t \in Threads, NEW from, NEW next \in Statements,
               Move(t, from, next)
        PROVE  TypeOK'
    BY <1>0 DEF Move
  <1>1. ASSUME NEW t \in Threads, Logs(t) PROVE TypeOK'
    <2>1. CASE Begin(t)
      BY <2>1 DEF Begin, AfterStatement, Statements
    <2>2. CASE GetNull(t) \/ ReadTorn(t)
      BY <2>2 DEF GetNull, ReadTorn, Fail
    <2>3. CASE LockSink(t)
      <3>1. [thread[t] EXCEPT !.at = "sink"] \in Statements
        BY DEF Statements
      <3>. QED BY <1>0, <2>3, <3>1 DEF LockSink
    <2>4. Silent \in Statements
      BY DEF Silent, Statements
    <2>5. CASE ReadSettings(t)
      <3>1. [at |-> "callback", logger |-> thread[t].logger,
             callback |-> m_settings.callback, began |-> thread[t].began]
               \in Statements
        BY DEF Statements, Settings
      <3>. QED BY <1>0, <2>4, <2>5, <3>1 DEF ReadSettings
    <2>6. CASE Output(t) \/ CallbackReturns(t)
      BY <1>0, <2>4, <2>6 DEF Output, CallbackReturns
    <2>. QED BY <1>1, <2>1, <2>2, <2>3, <2>5, <2>6 DEF Logs
  <1>2. CASE GoesOn
    BY <1>2 DEF GoesOn, Initialize, Written, Flush, SetPattern, TearDown,
      FlushLast, Step, Goto
  <1>3. CASE SetSettings
    BY <1>3 DEF SetSettings
  <1>4. CASE Drop \/ DropLast
    <2>1. registered' = 0 /\ loggers' = loggers /\ pc' \in Places
      BY <1>4 DEF Drop, DropLast, Goto
    <2>2. UNCHANGED <<m_settings, thread, running, closing, calls, fault,
                      careless>>
      BY <1>4 DEF Drop, DropLast, Goto
    <2>. QED BY <2>1, <2>2
  <1>5. CASE Register
    <2>1. registered = 0
      BY <1>5 DEF Register, AppAt, RegisteredInv
    <2>2. m_logger' \in Nat
      BY <1>5, <2>1, Registered DEF m_logger, Loggers
    <2>. QED BY <1>5, <2>1, <2>2, Registered
  <1>6. CASE SetLevel
    <2>1. registered \in 1..m_logger
      BY <1>6 DEF SetLevel, AppAt, RegisteredInv, Fits, m_logger, Loggers
    <2>. QED BY <1>6, <2>1, LevelSet
  <1>7. CASE Return
    BY <1>7 DEF Return
  <1>8. CASE Deinitialize
    BY <1>8 DEF Deinitialize
  <1>9. ASSUME NEW t \in Tasks, TaskBegins(t) \/ TaskEnds(t) PROVE TypeOK'
    BY <1>9 DEF TaskBegins, TaskEnds, SetRunning
  <1>10. CASE Finished \/ UNCHANGED vars
    BY <1>10 DEF Finished, vars
  <1>. QED BY <1>1, <1>2, <1>3, <1>4, <1>5, <1>6, <1>7, <1>8, <1>9, <1>10
         DEF Next, Logs, GoesOn

(* Every step keeps who logs.                                              *)
LEMMA ActiveStep ==
  ASSUME TypeOK, RegisteredInv, ActiveInv, [Next]_vars
  PROVE  ActiveInv'
  <1> USE AppAssumption DEF TypeOK, ActiveInv, Threads
  <1>1. ASSUME NEW t \in Threads, Logs(t) PROVE ActiveInv'
    <2> USE DEF Statements
    <2>1. CASE Begin(t)
      BY <2>1 DEF Begin, AfterStatement, Reaches
    <2>2. CASE GetNull(t) \/ ReadTorn(t)
      BY <2>2 DEF GetNull, ReadTorn, Fail
    <2>3. CASE LockSink(t)
      BY <2>3 DEF LockSink, Move
    <2>4. CASE ReadSettings(t)
      BY <2>4 DEF ReadSettings, Move, Silent
    <2>5. CASE Output(t) \/ CallbackReturns(t)
      BY <2>5 DEF Output, CallbackReturns, Move, Silent
    <2>. QED BY <1>1, <2>1, <2>2, <2>3, <2>4, <2>5 DEF Logs
  <1>2. CASE GoesOn
    BY <1>2 DEF GoesOn, Initialize, Written, Flush, SetPattern, TearDown,
      FlushLast, Step, Goto, AppAt
  <1>3. CASE SetSettings \/ Drop \/ DropLast \/ Return \/ Deinitialize
    BY <1>3 DEF SetSettings, Drop, DropLast, Return, Deinitialize, Goto,
      AppAt
  <1>4. CASE Register \/ SetLevel
    BY <1>4 DEF Register, SetLevel, Fail, Goto, AppAt
  <1>5. ASSUME NEW t \in Tasks, TaskBegins(t) \/ TaskEnds(t)
        PROVE  ActiveInv'
    BY <1>5 DEF TaskBegins, TaskEnds, SetRunning
  <1>6. CASE Finished \/ UNCHANGED vars
    BY <1>6 DEF Finished, vars
  <1>. QED BY <1>1, <1>2, <1>3, <1>4, <1>5, <1>6 DEF Next, Logs, GoesOn

(* Every step keeps what the application is blamed for.                    *)
LEMMA CarelessStep ==
  ASSUME TypeOK, CarelessInv, [Next]_vars
  PROVE  CarelessInv'
  <1> USE DEF TypeOK, CarelessInv
  <1>1. ASSUME NEW t \in Threads, Logs(t) PROVE CarelessInv'
    <2>1. UNCHANGED <<m_settings, running, careless>>
      BY <1>1 DEF Logs, Begin, GetNull, LockSink, ReadSettings, ReadTorn,
        Output, CallbackReturns, Fail, Move
    <2>2. pc = "idle" => pc' = "idle"
      BY <1>1 DEF Logs, Begin, Reaches, GetNull, LockSink, ReadSettings,
        ReadTorn, Output, CallbackReturns, Fail, Move
    <2>. QED BY <2>1, <2>2
  <1>2. CASE GoesOn
    BY <1>2 DEF GoesOn, Initialize, Written, Flush, SetPattern, TearDown,
      FlushLast, Step, Goto, AppAt
  <1>3. CASE SetSettings
    BY <1>3 DEF SetSettings
  <1>4. CASE Drop \/ DropLast \/ Return \/ Deinitialize
    BY <1>4 DEF Drop, DropLast, Return, Deinitialize, Goto, AppAt
  <1>5. CASE Register \/ SetLevel
    BY <1>5 DEF Register, SetLevel, Fail, Goto, AppAt
  <1>6. ASSUME NEW t \in Tasks, TaskBegins(t) \/ TaskEnds(t)
        PROVE  CarelessInv'
    BY <1>6 DEF TaskBegins, TaskEnds, SetRunning, AppAt
  <1>7. CASE Finished \/ UNCHANGED vars
    BY <1>7 DEF Finished, vars
  <1>. QED BY <1>1, <1>2, <1>3, <1>4, <1>5, <1>6, <1>7
         DEF Next, Logs, GoesOn

(* Every step leaves the logger as the place it goes to says.              *)
LEMMA RegisteredStep ==
  ASSUME TypeOK, RegisteredInv, [Next]_vars
  PROVE  RegisteredInv'
  <1> USE DEF RegisteredInv, Fits, Current
  <1>0. m_logger \in Nat
    BY DEF TypeOK, m_logger, Loggers
  <1>1. ASSUME NEW t \in Threads, Logs(t) PROVE RegisteredInv'
    <2>1. /\ UNCHANGED <<m_settings, loggers, registered, closing>>
          /\ \/ pc' = pc
             \/ pc = "begun" /\ pc' = "return"
             \/ pc = "over" /\ pc' = "flushLast"
      BY <1>1 DEF Logs, Begin, Reaches, AfterStatement, GetNull, LockSink,
        ReadSettings, ReadTorn, Output, CallbackReturns, Fail, Move
    <2>2. m_logger' = m_logger
      BY <2>1 DEF m_logger
    <2>. QED BY <2>1, <2>2
  <1>2. CASE GoesOn
    <2>1. UNCHANGED <<m_settings, loggers, registered, closing>>
      BY <1>2 DEF GoesOn, Initialize, Written, Flush, SetPattern, TearDown,
        FlushLast, Step, Goto
    <2>2. m_logger' = m_logger
      BY <2>1 DEF m_logger
    <2>3. \/ pc = "new" /\ pc' = "register"
          \/ pc = "write" /\ m_settings.level = "off" /\ pc' = "tearDown"
          \/ pc = "write" /\ m_settings.level # "off" /\ pc' = "flush"
          \/ pc = "flush" /\ pc' = "drop"
          \/ pc = "pattern" /\ pc' = "begun"
          \/ pc = "tearDown" /\ registered = 0 /\ pc' = "return"
          \/ pc = "tearDown" /\ registered # 0 /\ pc' = "over"
          \/ pc = "flushLast" /\ pc' = "dropLast"
      BY <1>2 DEF GoesOn, Initialize, Written, Flush, SetPattern, TearDown,
        FlushLast, Step, Goto, AppAt
    <2>. QED BY <2>1, <2>2, <2>3
  <1>3. CASE SetSettings
    BY <1>3 DEF SetSettings, AppAt, m_logger
  <1>4. CASE Drop \/ DropLast
    BY <1>4 DEF Drop, DropLast, Goto, AppAt, m_logger
  <1>5. CASE Register
    BY <1>0, <1>5, Registered DEF Register, AppAt
  <1>6. CASE SetLevel
    BY <1>0, <1>6, LevelSet DEF SetLevel, AppAt
  <1>7. CASE Return
    BY <1>7 DEF Return, AppAt, m_logger
  <1>8. CASE Deinitialize
    BY <1>8 DEF Deinitialize, AppAt, m_logger
  <1>9. ASSUME NEW t \in Tasks, TaskBegins(t) \/ TaskEnds(t)
        PROVE  RegisteredInv'
    BY <1>9 DEF TaskBegins, TaskEnds, SetRunning, m_logger
  <1>10. CASE Finished \/ UNCHANGED vars
    BY <1>10 DEF Finished, vars, m_logger
  <1>. QED BY <1>1, <1>2, <1>3, <1>4, <1>5, <1>6, <1>7, <1>8, <1>9, <1>10
         DEF Next, Logs, GoesOn

(* Every step that drops a logger, or ends a call, finds the statements    *)
(* that hold a logger dropped before to be as old as StaleInv says.        *)
LEMMA StaleStep ==
  ASSUME TypeOK, RegisteredInv, ActiveInv, StaleInv, [Next]_vars
  PROVE  StaleInv'
  <1> USE DEF Dropped
  <1>0. calls \in Nat /\ m_logger \in Nat /\ registered \in Nat
        /\ thread \in [Threads -> Statements]
    BY DEF TypeOK, m_logger, Loggers
  <1>1. ASSUME NEW t \in Threads, Logs(t) PROVE StaleInv'
    <2>1. /\ UNCHANGED <<registered, calls>>
          /\ \/ pc' = pc
             \/ pc = "begun" /\ pc' = "return"
             \/ pc = "over" /\ pc' = "flushLast"
      BY <1>1 DEF Logs, Begin, Reaches, AfterStatement, GetNull, LockSink,
        ReadSettings, ReadTorn, Output, CallbackReturns, Fail, Move
    <2>2. \A u \in Threads \ {t} : thread'[u] = thread[u]
      BY <1>0, <1>1 DEF Logs, Begin, GetNull, LockSink, ReadSettings,
        ReadTorn, Output, CallbackReturns, Fail, Move
    <2>3. \/ thread'[t].at = "none"
          \/ /\ thread[t].at # "none"
             /\ thread'[t].logger = thread[t].logger
             /\ thread'[t].began = thread[t].began
          \/ /\ pc # "new" /\ registered # 0
             /\ thread'[t].logger = registered /\ thread'[t].began = calls
          \/ thread' = thread
      <3> USE <1>0 DEF Statements
      <3>1. CASE Begin(t)
        <4>1. pc # "new"
          BY <3>1 DEF Begin, RegisteredInv
        <4>. QED BY <3>1, <4>1 DEF Begin
      <3>2. CASE LockSink(t)
        BY <3>2 DEF LockSink, Move
      <3>3. CASE ReadSettings(t)
        BY <3>3 DEF ReadSettings, Move, Silent
      <3>4. CASE Output(t) \/ CallbackReturns(t)
        BY <3>4 DEF Output, CallbackReturns, Move, Silent
      <3>5. CASE GetNull(t) \/ ReadTorn(t)
        BY <3>5 DEF GetNull, ReadTorn, Fail
      <3>. QED BY <1>1, <3>1, <3>2, <3>3, <3>4, <3>5 DEF Logs
    <2> SUFFICES ASSUME NEW u \in Threads, thread'[u].at # "none"
                 PROVE  /\ pc' # "new"
                        /\ thread'[u].logger # 0
                        /\ thread'[u].began <= calls'
                        /\ thread'[u].logger # registered'
                           /\ pc' \notin Dropped =>
                             thread'[u].began < calls'
      BY Zenon DEF StaleInv
    <2>4. CASE thread[u].at # "none"
               /\ thread'[u].logger = thread[u].logger
               /\ thread'[u].began = thread[u].began
      BY <1>0, <2>1, <2>4 DEF StaleInv
    <2>5. CASE u = t /\ pc # "new" /\ registered # 0
               /\ thread'[u].logger = registered /\ thread'[u].began = calls
      BY <1>0, <2>1, <2>5
    <2>. QED BY <2>2, <2>3, <2>4, <2>5
  <1>2. ASSUME UNCHANGED thread,
               /\ pc' = "new" => pc = "new"
               /\ calls' \in Nat /\ calls <= calls'
               /\ UNCHANGED registered \/ pc' \in Dropped \/ calls < calls'
               /\ pc \in Dropped /\ pc' \notin Dropped => calls < calls'
        PROVE  StaleInv'
    BY <1>0, <1>2 DEF StaleInv, Statements
  <1>3. CASE GoesOn
    BY <1>0, <1>2, <1>3 DEF GoesOn, Initialize, Written, Flush, SetPattern,
      TearDown, FlushLast, Step, Goto, AppAt
  <1>4. CASE SetSettings \/ Deinitialize
    BY <1>0, <1>2, <1>4 DEF SetSettings, Deinitialize, AppAt
  <1>5. CASE Drop \/ DropLast
    BY <1>0, <1>2, <1>5 DEF Drop, DropLast, Goto, AppAt
  <1>6. CASE Register \/ SetLevel
    BY <1>0, <1>2, <1>6 DEF Register, SetLevel, Fail, Goto, AppAt
  <1>7. CASE Return
    BY <1>0, <1>2, <1>7 DEF Return, AppAt
  <1>8. ASSUME NEW t \in Tasks, TaskBegins(t) \/ TaskEnds(t)
        PROVE  StaleInv'
    BY <1>0, <1>2, <1>8 DEF TaskBegins, TaskEnds, SetRunning
  <1>9. CASE Finished \/ UNCHANGED vars
    BY <1>0, <1>2, <1>9 DEF Finished, vars
  <1>. QED BY <1>1, <1>3, <1>4, <1>5, <1>6, <1>7, <1>8, <1>9
         DEF Next, Logs, GoesOn

(* Every step behind a flush finds the replaced callbacks in statements of *)
(* dropped loggers.                                                        *)
LEMMA OldStep ==
  ASSUME TypeOK, RegisteredInv, StaleInv, OldInv, [Next]_vars
  PROVE  OldInv'
  <1> USE DEF Dropped
  <1>0. calls \in Nat /\ m_logger \in Nat /\ registered \in Nat
        /\ thread \in [Threads -> Statements]
        /\ \A t \in Threads : thread[t].began \in Nat
    BY DEF TypeOK, m_logger, Loggers, Statements
  <1>1. ASSUME NEW t \in Threads, Logs(t) PROVE OldInv'
    <2>1. /\ UNCHANGED <<m_settings, calls>>
          /\ \/ pc' = pc
             \/ pc = "begun" /\ pc' = "return"
             \/ pc = "over" /\ pc' = "flushLast"
      BY <1>1 DEF Logs, Begin, Reaches, AfterStatement, GetNull, LockSink,
        ReadSettings, ReadTorn, Output, CallbackReturns, Fail, Move
    <2>2. \A u \in Threads \ {t} : thread'[u] = thread[u]
      BY <1>0, <1>1 DEF Logs, Begin, GetNull, LockSink, ReadSettings,
        ReadTorn, Output, CallbackReturns, Fail, Move
    <2>3. \/ thread'[t].at # "callback"
          \/ thread'[t].callback = m_settings.callback
          \/ thread' = thread
      BY <1>0, <1>1 DEF Logs, Begin, GetNull, LockSink, ReadSettings,
        ReadTorn, Output, CallbackReturns, Fail, Move, Silent, Statements
    <2>. QED BY <1>0, <2>1, <2>2, <2>3 DEF OldInv
  <1>2. ASSUME UNCHANGED <<m_settings, thread, calls>>,
               pc' = "idle" => pc = "idle",
               pc' \in {"drop", "dropLast"} \cup Dropped =>
                 \/ pc \in {"drop", "dropLast"} \cup Dropped
                 \/ \A t \in Threads : thread[t].at = "callback" =>
                      thread[t].began < calls
        PROVE  OldInv'
    BY <1>2 DEF OldInv
  <1>3. CASE Initialize \/ Written \/ SetPattern
    BY <1>2, <1>3 DEF Initialize, Written, SetPattern, Step, Goto, AppAt,
      StaleInv
  <1>4. CASE Flush \/ FlushLast
    <2>1. \A t \in Threads :
            thread[t].at = "callback" => thread[t].logger # registered
      BY <1>4 DEF Flush, FlushLast, SinkFree, InSink, RegisteredInv,
        StaleInv, Step, AppAt
    <2>2. pc \notin Dropped
      BY <1>4 DEF Flush, FlushLast, Step, AppAt
    <2>3. \A t \in Threads :
            thread[t].at = "callback" => thread[t].began < calls
      BY <2>1, <2>2 DEF StaleInv
    <2>. QED BY <1>2, <1>4, <2>3 DEF Flush, FlushLast, Step, Goto
  <1>5. CASE TearDown
    <2>1. CASE registered = 0
      <3>1. \A t \in Threads :
              thread[t].at = "callback" => thread[t].began < calls
        BY <1>5, <2>1 DEF StaleInv, TearDown, Step, AppAt
      <3>. QED BY <1>2, <1>5, <3>1 DEF TearDown, Step, Goto
    <2>2. CASE registered # 0
      BY <1>2, <1>5, <2>2 DEF TearDown, Step, Goto
    <2>. QED BY <2>1, <2>2
  <1>6. CASE SetSettings \/ Deinitialize
    BY <1>6 DEF OldInv, SetSettings, Deinitialize
  <1>7. CASE Drop \/ DropLast
    BY <1>2, <1>7 DEF Drop, DropLast, Goto, AppAt
  <1>8. CASE Register \/ SetLevel
    BY <1>2, <1>8 DEF Register, SetLevel, Fail, Goto, AppAt
  <1>9. CASE Return
    BY <1>0, <1>9 DEF OldInv, Return, AppAt
  <1>10. ASSUME NEW t \in Tasks, TaskBegins(t) \/ TaskEnds(t)
         PROVE  OldInv'
    BY <1>2, <1>10 DEF TaskBegins, TaskEnds, SetRunning
  <1>11. CASE Finished \/ UNCHANGED vars
    BY <1>2, <1>11 DEF Finished, vars
  <1>. QED BY <1>1, <1>3, <1>4, <1>5, <1>6, <1>7, <1>8, <1>9, <1>10, <1>11
         DEF Next, Logs

(* Every step that fails has somebody to blame.                            *)
LEMMA FaultStep ==
  ASSUME TypeOK, ActiveInv, CarelessInv, RegisteredInv, OnlyCarelessFaults,
         [Next]_vars
  PROVE  OnlyCarelessFaults'
  <1> USE DEF OnlyCarelessFaults
  <1>1. ASSUME NEW t \in Threads, Logs(t) PROVE OnlyCarelessFaults'
    <2>1. CASE GetNull(t)
      <3>1. fault' = "null" /\ careless' = careless
        BY <2>1 DEF GetNull, Fail
      <3>2. t # App
        BY <2>1 DEF GetNull, Reaches, RegisteredInv, Current, Fits
      <3>3. running # {}
        BY <2>1, <3>2 DEF GetNull, Reaches
      <3>4. pc = "idle" => m_settings.level = "off"
        BY <2>1 DEF GetNull, RegisteredInv, Current, Fits
      <3>. QED BY <3>1, <3>3, <3>4 DEF CarelessInv
    <2>2. CASE ReadTorn(t)
      <3>1. fault' = "race" /\ careless' = careless
        BY <2>2 DEF ReadTorn, Fail
      <3>2. t # App
        BY <2>2 DEF ReadTorn, ActiveInv
      <3>3. running # {} /\ pc = "write"
        BY <2>2, <3>2 DEF ReadTorn, ActiveInv, Threads
      <3>. QED BY <3>1, <3>3 DEF CarelessInv
    <2>3. CASE fault' = fault /\ careless' = careless
      BY <2>3
    <2>. QED BY <1>1, <2>1, <2>2, <2>3 DEF Logs, Begin, LockSink,
           ReadSettings, Output, CallbackReturns, Move
  <1>2. ASSUME fault' = fault, careless \subseteq careless'
        PROVE  OnlyCarelessFaults'
    BY <1>2
  <1>3. CASE GoesOn
    BY <1>2, <1>3 DEF GoesOn, Initialize, Written, Flush, SetPattern,
      TearDown, FlushLast, Step, Goto
  <1>4. CASE SetSettings
    BY <1>2, <1>4 DEF SetSettings
  <1>5. CASE Register
    BY <1>2, <1>5 DEF Register, RegisteredInv, Goto, AppAt
  <1>6. CASE Drop \/ SetLevel \/ DropLast \/ Return \/ Deinitialize
    BY <1>2, <1>6 DEF Drop, SetLevel, DropLast, Return, Deinitialize, Goto
  <1>7. ASSUME NEW t \in Tasks, TaskBegins(t) \/ TaskEnds(t)
        PROVE  OnlyCarelessFaults'
    BY <1>2, <1>7 DEF TaskBegins, TaskEnds, SetRunning
  <1>8. CASE Finished \/ UNCHANGED vars
    BY <1>2, <1>8 DEF Finished, vars
  <1>. QED BY <1>1, <1>3, <1>4, <1>5, <1>6, <1>7, <1>8
         DEF Next, Logs, GoesOn

THEOREM Invariance == Spec => []IInv
  <1>1. Init => IInv
    <2> SUFFICES ASSUME Init PROVE IInv
      OBVIOUS
    <2>1. Silent \in Statements /\ Silent.at = "none"
      BY DEF Silent, Statements
    <2>2. m_settings \in Settings /\ m_settings.level = "error"
      BY DEF Init, Settings, Levels
    <2>3. loggers \in Loggers /\ m_logger = 0
      BY DEF Init, Loggers, m_logger
    <2>4. TypeOK
      BY <2>1, <2>2, <2>3 DEF Init, TypeOK, Places
    <2>5. \A t \in Threads : thread[t].at = "none"
      BY <2>1 DEF Init
    <2>6. ActiveInv /\ StaleInv /\ OldInv
      BY <2>5 DEF ActiveInv, StaleInv, OldInv, Threads
    <2>7. CarelessInv /\ RegisteredInv /\ OnlyCarelessFaults
      BY <2>2, <2>3 DEF Init, CarelessInv, RegisteredInv, Current, Fits,
        OnlyCarelessFaults
    <2>. QED BY <2>4, <2>6, <2>7 DEF IInv
  <1>2. IInv /\ [Next]_vars => IInv'
    BY TypeStep, ActiveStep, CarelessStep, RegisteredStep, StaleStep,
      OldStep, FaultStep DEF IInv
  <1>. QED BY <1>1, <1>2, PTL DEF Spec

(* The types of the settings, the loggers and the statements hold in every *)
(* reachable state.                                                        *)
THEOREM TypeCorrect == Spec => []TypeOK
  BY Invariance, PTL DEF IInv

(* A null logger and a race are met only by an application that changes    *)
(* settings while a task runs, or switches logging off; the name of the    *)
(* logger is never taken.                                                  *)
THEOREM CarefulApplicationsAreSafe == Spec => []OnlyCarelessFaults
  BY Invariance, PTL DEF IInv

(* Between two calls the registered logger is the one the settings         *)
(* describe.                                                               *)
THEOREM LoggerFollowsSettings == Spec => []LoggerIsCurrent
  <1>1. IInv => LoggerIsCurrent
    <2> SUFFICES ASSUME IInv, pc = "idle", m_settings.level # "off"
                 PROVE  /\ registered = m_logger
                        /\ loggers[registered] =
                             [level |-> m_settings.level,
                              callback |-> m_settings.callback # NoCallback]
      BY DEF IInv, RegisteredInv, Current, LoggerIsCurrent
    <2>1. Fits /\ loggers[registered].level = m_settings.level
      BY DEF IInv, RegisteredInv, Current
    <2>2. loggers[registered] \in LoggerRecord
      <3>1. loggers \in Seq(LoggerRecord) /\ registered \in 1..Len(loggers)
        BY <2>1 DEF IInv, TypeOK, Loggers, Fits, m_logger
      <3>. QED BY <3>1
    <2>3. loggers[registered] =
            [level |-> loggers[registered].level,
             callback |-> loggers[registered].callback]
      BY <2>2 DEF LoggerRecord
    <2>4. loggers[registered].callback = (m_settings.callback # NoCallback)
      <3>1. loggers[registered].callback \in BOOLEAN
        BY <2>2 DEF LoggerRecord
      <3>2. loggers[registered].callback <=> m_settings.callback # NoCallback
        BY <2>1 DEF Fits
      <3>. QED BY <3>1, <3>2, Zenon
    <2>. QED BY <2>1, <2>3, <2>4, Zenon DEF Fits
  <1>. QED BY <1>1, Invariance, PTL

(* A callback that was replaced is over when the call that replaced it     *)
(* returns, but for statements that slept through an earlier call.         *)
THEOREM ReplacedCallbacksAreOver == Spec => []OldCallbackIsOver
  <1>1. IInv => OldCallbackIsOver
    BY DEF IInv, OldInv, OldCallbackIsOver
  <1>. QED BY <1>1, Invariance, PTL
=============================================================================
