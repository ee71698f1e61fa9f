-------------------------- MODULE MCEthernetSocket --------------------------
(***************************************************************************)
(* Instances of EthernetSocket for TLC.                                    *)
(***************************************************************************)
EXTENDS EthernetSocket

CONSTANTS s1, s2, d1, d2     \* objects and descriptors

TwoSockets     == {s1, s2}
SecondSocket   == {s2}
TwoDescriptors == {d1, d2}

(* After a stray close the properties say nothing: TLC stops there.        *)
NotStrayed == ~strayed
=============================================================================
