----------------------------- MODULE MCEthernet -----------------------------
(***************************************************************************)
(* Instances of EthernetSearch and EthernetSocket for TLC.  They share no  *)
(* state: a search runs while the device objects are as they were made,    *)
(* and the objects move while one request waits for its search.            *)
(***************************************************************************)
EXTENDS MCEthernetSearch, MCEthernetSocket

Waiting == pc = "called" /\ asked[1] = Any

(* No object has a socket, nor has left one behind.                        *)
AllIdle ==
  /\ place = [s \in Sockets |-> "idle"]
  /\ link = [d \in Descriptors |-> "free"]

EthernetInit == Init /\ SocketInit

SearchStep ==
  /\ AllIdle
  /\ Next \/ (pc = "returned" /\ UNCHANGED vars)
  /\ UNCHANGED socketVars

ObjectStep ==
  /\ Waiting
  /\ SocketNext
  /\ UNCHANGED vars

EthernetSpec ==
  /\ EthernetInit
  /\ [][SearchStep \/ ObjectStep]_<<vars, socketVars>>
  /\ SocketFairness
=============================================================================
