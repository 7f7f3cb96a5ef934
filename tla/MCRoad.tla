-------------------------------- MODULE MCRoad --------------------------------
(***************************************************************************)
(* The four models of cmd/road in one run, one of them at a time: which   *)
(* is chosen at the start and the others stand still.                      *)
(***************************************************************************)
EXTENDS MCConsole, PublicServerLock, PublicServerWizard, MCCloudflaredSetup

VARIABLE which

roadVars == <<which, vars, lockVars, wizardVars, setupVars>>

RoadInit ==
  /\ which \in {"console", "lock", "wizard", "setup"}
  /\ Init /\ LockInit /\ WizardInit /\ SetupInit
  /\ which # "console" =>
       /\ files = CHOOSE f \in StartFiles : TRUE
       /\ environ = CHOOSE e \in [Consoles -> Environments] : TRUE
  /\ which # "lock" => path = NoFile
  /\ which # "setup" => cert = FALSE /\ account = {}

RoadNext ==
  \/ which = "console" /\ Next /\ UNCHANGED <<which, lockVars, wizardVars, setupVars>>
  \/ which = "lock" /\ LockNext /\ UNCHANGED <<which, vars, wizardVars, setupVars>>
  \/ which = "wizard" /\ WizardNext /\ UNCHANGED <<which, vars, lockVars, setupVars>>
  \/ which = "setup" /\ SetupNext /\ UNCHANGED <<which, vars, lockVars, wizardVars>>

\* Only the wizard chosen is fair.
RoadSpec ==
  /\ RoadInit /\ [][RoadNext]_roadVars
  /\ WF_wizardVars(which = "wizard" /\ WaiterStep)
  /\ WF_wizardVars(which = "wizard" /\ MainStep)
  /\ WF_wizardVars(which = "wizard" /\ ContextStops)
  /\ WF_wizardVars(which = "wizard" /\ (UrlReady \/ UrlGivenUp))
  /\ WF_wizardVars(which = "wizard" /\ EngineStopping)
  /\ \A s \in Stoppers : WF_wizardVars(which = "wizard" /\ StopStep(s))
=============================================================================
