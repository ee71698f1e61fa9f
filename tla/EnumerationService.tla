------------------------- MODULE EnumerationService -------------------------
(***************************************************************************)
(* What the asynchronous device enumeration of libkommpot promises to the  *)
(* application, with threads, futures and flags left out: requests are     *)
(* served one at a time, in the order in which they were accepted, and the *)
(* application hears about the request being served only, in the order of  *)
(* the documented protocol and at most once per report.  KommpotCore       *)
(* implements this specification.                                          *)
(***************************************************************************)
EXTENDS Naturals, Sequences

CONSTANT MaxRequests     \* bound on the requests one behaviour accepts

VARIABLES
  accepted,              \* how many requests were accepted so far
  serving,               \* the request being served, 0 when there is none
  reports                \* every callback made, oldest first

vars == <<accepted, serving, reports>>

(***************************************************************************)
(* The callbacks of one request in protocol order: the three values of     *)
(* kommpot::enumeration_status and the two device lists between them.      *)
(***************************************************************************)
Position == [usbStatus |-> 1, usbReport |-> 2, ethernetStatus |-> 3,
             ethernetReport |-> 4, completed |-> 5]

Reports == {"usbStatus", "usbReport", "ethernetStatus", "ethernetReport",
            "completed"}

(* How far the reports of request r have come: 0 before its first one.     *)
Reached(log, r) ==
  IF log # <<>> /\ log[Len(log)].request = r
  THEN Position[log[Len(log)].report]
  ELSE 0

Init ==
  /\ accepted = 0
  /\ serving = 0
  /\ reports = <<>>

Accept ==
  /\ serving = 0
  /\ accepted < MaxRequests
  /\ accepted' = accepted + 1
  /\ serving' = accepted + 1
  /\ UNCHANGED reports

Report(report) ==
  /\ serving # 0
  /\ Position[report] > Reached(reports, serving)
  /\ reports' = Append(reports, [request |-> serving, report |-> report])
  /\ UNCHANGED <<accepted, serving>>

Finish ==
  /\ serving # 0
  /\ serving' = 0
  /\ UNCHANGED <<accepted, reports>>

Next == Accept \/ (\E report \in Reports : Report(report)) \/ Finish

(* A request that was accepted does not occupy the library forever.        *)
Spec == Init /\ [][Next]_vars /\ WF_vars(Finish)
=============================================================================
