------------------------------- MODULE MCClient -------------------------------
(***************************************************************************)
(* ClientTunnel, and the liveness of UDPSessionTable and UDPCheck, in one  *)
(* run, one of them at a time: which is chosen at the start and the others *)
(* stand still, and only the one chosen is fair.                           *)
(***************************************************************************)
EXTENDS ClientTunnel, UDPSessionTable, UDPCheck

CONSTANTS w1, w2, s1, s2, a1

MCWorkers == {w1, w2}
MCNetworks == {"tcp", "udp"}
MCInitialDelays == {0}

VARIABLE which

MCVars == <<which, vars, tableVars, checkVars>>

MCInit ==
  /\ which \in {"tunnel", "table", "check"}
  /\ Init /\ TableInit /\ CheckInit
  /\ which # "tunnel" => network = "tcp"

MCNext ==
  \/ which = "tunnel" /\ Next /\ UNCHANGED <<which, tableVars, checkVars>>
  \/ which = "table" /\ TableNext /\ UNCHANGED <<which, vars, checkVars>>
  \/ which = "check" /\ CheckNext /\ UNCHANGED <<which, vars, tableVars>>

\* The conjuncts of Fairness, of the tunnel when it is chosen.
MCTunnelFairness ==
  /\ WF_vars(which = "tunnel" /\ Start) /\ WF_vars(which = "tunnel" /\ CloseTCP)
  /\ \A w \in Workers :
       /\ WF_vars(which = "tunnel" /\ WorkerStep(w))
       /\ WF_vars(which = "tunnel" /\ PingStep(w))
       /\ WF_vars(which = "tunnel" /\ CloseUDP(w))
       /\ \A c \in Copiers : WF_vars(which = "tunnel" /\ MustNotice(w, c) /\ CopierFails(w, c))

MCTableFairness ==
  /\ WF_tableVars(which = "table" /\ MainStep)
  /\ WF_tableVars(which = "table" /\ SweeperStep)
  /\ WF_tableVars(which = "table" /\ CloseSocket)
  /\ \A s \in Slots :
       WF_tableVars(which = "table" /\ ReaderStep(s)) /\ WF_tableVars(which = "table" /\ PingerStep(s))

MCCheckFairness ==
  /\ WF_checkVars(which = "check" /\ ServerStep)
  /\ \A p \in Players :
       /\ WF_checkVars(which = "check" /\ SenderStep(p))
       /\ WF_checkVars(which = "check" /\ AckStep(p))

MCSpec ==
  MCInit /\ [][MCNext]_MCVars /\ MCTunnelFairness /\ MCTableFairness /\ MCCheckFairness

-----------------------------------------------------------------------------
(* No worker is told from another by anything but its name, and no slot, so  *)
(* what eventually holds of one holds of each.  A model that stands still    *)
(* has the properties, but that its player ends.                             *)

\* A handler whose server is gone ends, and takes all its goroutines with it.
HandlersEnd == HandlerEndsOf(w1)

\* An idle session is closed unless it is used again (or the client stops).
IdleSessionSwept == IdleSessionSweptOf(s1)

\* A player of udp-check ends, whatever its sockets do.
MCPlayersEnd == which = "check" => PlayersEnd
=============================================================================
