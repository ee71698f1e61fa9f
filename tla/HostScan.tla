------------------------------ MODULE HostScan ------------------------------
(***************************************************************************)
(* What a scan of one network promises its caller, however many threads    *)
(* carry it out: every host of the network is decided exactly once, the    *)
(* suitable ones are collected, and the scan returns when none is left.    *)
(* NetworkScan implements this specification.                              *)
(***************************************************************************)
CONSTANT Hosts            \* the hosts of the network

VARIABLES
  pending,                \* the hosts that are not decided yet
  found,                  \* the suitable ones among the others
  returned                \* whether the scan is over

vars == <<pending, found, returned>>

Init ==
  /\ pending = Hosts
  /\ found = {}
  /\ returned = FALSE

Decide(host) ==
  /\ host \in pending
  /\ pending' = pending \ {host}
  /\ found' \in {found, found \cup {host}}
  /\ UNCHANGED returned

Return ==
  /\ pending = {}
  /\ ~returned
  /\ returned' = TRUE
  /\ UNCHANGED <<pending, found>>

Next == (\E host \in Hosts : Decide(host)) \/ Return

Spec == Init /\ [][Next]_vars /\ WF_vars(Next)
=============================================================================
