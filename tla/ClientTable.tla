---------------------------- MODULE ClientTable ----------------------------
(***************************************************************************)
(* What TcpServer promises its program about connections: a connection     *)
(* enters the table once, and one at a time; onClose is called for those   *)
(* in the table only, and once for each as long as the server is not being *)
(* stopped; a connection leaves the table after onClose has been called    *)
(* and while none is being set up, and never comes back.  onClose may come *)
(* while onConnected still runs.                                           *)
(***************************************************************************)
EXTENDS Naturals

CONSTANT Conns

VARIABLES
  table,     \* the connections that the server owns
  opening,   \* the one whose onConnected has not returned yet
  closed,    \* how often onClose has been called for each connection
  stopping   \* stop() has been called

tableVars == <<table, opening, closed, stopping>>

TableInit ==
  /\ table = {} /\ opening = {}
  /\ closed = [c \in Conns |-> 0]
  /\ stopping = FALSE

Enters(c) ==
  /\ c \notin table /\ closed[c] = 0 /\ opening = {}
  /\ table' = table \cup {c} /\ opening' = {c}
  /\ UNCHANGED <<closed, stopping>>

(* onConnected has returned, or will not be called. *)
Opened ==
  /\ opening # {} /\ opening' = {}
  /\ UNCHANGED <<table, closed, stopping>>

Closes(c) ==
  /\ c \in table
  /\ closed[c] = 0 \/ stopping
  /\ closed' = [closed EXCEPT ![c] = @ + 1]
  /\ UNCHANGED <<table, opening, stopping>>

Leaves(c) ==
  /\ c \in table /\ closed[c] > 0 /\ opening = {}
  /\ table' = table \ {c}
  /\ UNCHANGED <<opening, closed, stopping>>

Stops ==
  /\ stopping' = TRUE
  /\ UNCHANGED <<table, opening, closed>>

TableNext ==
  \/ \E c \in Conns : Enters(c) \/ Closes(c) \/ Leaves(c)
  \/ Opened \/ Stops

TableSpec == TableInit /\ [][TableNext]_tableVars
=============================================================================
