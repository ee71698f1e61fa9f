--------------------------- MODULE MCKommpotCore ---------------------------
(***************************************************************************)
(* Instances of KommpotCore for TLC.                                       *)
(***************************************************************************)
EXTENDS KommpotCore

CONSTANTS c1, c2     \* application threads

OneClient  == {c1}
TwoClients == {c1, c2}
NoFailure  == {}
AllFailures == {"launch", "task"}
=============================================================================
