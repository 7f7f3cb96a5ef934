------------------------------- MODULE MCTables -------------------------------
(***************************************************************************)
(* AdmissionControl, UDPSessionTable and UDPCheck in one run, one of them  *)
(* at a time: which is chosen at the start and the others stand still.     *)
(* Each keeps a table of what it serves: by client address, by local       *)
(* source, by player.  The handlers of the admission are the session slots *)
(* of the table, so that one symmetry reduces both.                        *)
(***************************************************************************)
EXTENDS AdmissionControl, UDPSessionTable, UDPCheck, TLC

CONSTANTS h1, h2, h3, ip1, ip2, s1, s2

MCHandlers == {h1, h2, h3}
MCSlots == {s1, s2}
MCIPs == {ip1, ip2}
Symmetry == Permutations(Handlers) \cup Permutations(Slots) \cup Permutations(IPs)

VARIABLE which

MCInit ==
  /\ which \in {"admission", "table", "check"}
  /\ Init /\ TableInit /\ CheckInit

MCNext ==
  \/ which = "admission" /\ Next /\ UNCHANGED <<which, tableVars, checkVars>>
  \/ which = "table" /\ TableNext /\ UNCHANGED <<which, vars, checkVars>>
  \/ which = "check" /\ CheckNext /\ UNCHANGED <<which, vars, tableVars>>

MCSpec == MCInit /\ [][MCNext]_<<which, vars, tableVars, checkVars>>
=============================================================================
