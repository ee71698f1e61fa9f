------------------------- MODULE MCFunctionsLogger -------------------------
(***************************************************************************)
(* Instances of WildcardMatch, AddressCalls, AddressText and Logger for    *)
(* TLC: every pattern and every value up to a length; and the calls of     *)
(* AddressCalls, the texts of AddressText or the logger's sessions, once   *)
(* the matcher has returned for the empty pattern and value.  These        *)
(* modules share no state.                                                 *)
(***************************************************************************)
EXTENDS WildcardMatch, AddressCalls, AddressText, Logger

CONSTANTS
  a, b, MaxPattern, MaxValue,
  t1, t2, c1, c2

TwoLetters   == {a, b}
TwoTasks     == {t1, t2}
TwoCallbacks == {c1, c2}

AllPatterns == UNION {[1..n -> Characters] : n \in 0..MaxPattern}
AllValues   == UNION {[1..n -> Letters] : n \in 0..MaxValue}

Matched == loop = "returned" /\ pattern = <<>> /\ value = <<>>

NoCall    == ip = Refused
NoText    == text = <<>>
NoSession == pc = "new"

FunctionsLoggerInit == MatchInit /\ CallsInit /\ TextInit /\ Init

NextMatch == MatchNext /\ UNCHANGED <<callVars, text, vars>>

NextCall ==
  /\ Matched /\ NoText /\ NoSession
  /\ CallsNext
  /\ UNCHANGED <<matchVars, text, vars>>

NextText ==
  /\ Matched /\ NoCall /\ NoSession
  /\ Type
  /\ UNCHANGED <<matchVars, callVars, vars>>

NextSession ==
  /\ Matched /\ NoCall /\ NoText
  /\ Next
  /\ UNCHANGED <<matchVars, callVars, text>>

(* Functions that have returned need not be called again.                  *)
Rest ==
  /\ loop = "returned"
  /\ NoSession
  /\ UNCHANGED <<matchVars, callVars, text, vars>>

FunctionsLoggerSpec ==
  /\ FunctionsLoggerInit
  /\ [][NextMatch \/ NextCall \/ NextText \/ NextSession \/ Rest]_
       <<matchVars, callVars, text, vars>>
  /\ WF_matchVars(NextMatch)
=============================================================================
