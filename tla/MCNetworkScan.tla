--------------------------- MODULE MCNetworkScan ---------------------------
(***************************************************************************)
(* Instances of NetworkScan for TLC: address spaces of a few addresses.    *)
(***************************************************************************)
EXTENDS NetworkScan
=============================================================================
