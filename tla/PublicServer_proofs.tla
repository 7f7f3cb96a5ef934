------------------------- MODULE PublicServer_proofs -------------------------
(***************************************************************************)
(* Theorems about the Public Server Wizard: its lock, its cloudflared and  *)
(* what it sets up (cmd/road).  Each of the three is an invariant with its *)
(* strengthening, one step per action.                                     *)
(***************************************************************************)
EXTENDS PublicServerLock, PublicServerWizard, CloudflaredSetup, TLAPS

(***************************************************************************)
(* The lock does what it is for when no two acquisitions run at the same   *)
(* time, for any number of processes and any crashes (wizard_lock.go).     *)
(* When two do, it does not: the run lock_overlap.                         *)
(*                                                                         *)
(* The argument: what the path names is changed by creators and removers   *)
(* only.  A creator finds no file, a remover has seen the pid of nobody    *)
(* who runs, and as nobody else acquires meanwhile, neither meets a        *)
(* holder.  So a holder's pid stays what the path leads to, and two        *)
(* holders would both be that pid.                                         *)
(***************************************************************************)

\* One process at a time is in acquirePublicServerLock.
OneAcquirer == \A v, w \in Wizards : Acquiring(v) /\ Acquiring(w) => v = w

\* The path leads to the pid of whoever holds the lock, until it has released it.
HolderNamed == \A w \in Wizards : Holding(w) => PidAt(path) = w

\* The file a process has just created is the one the path names, and nobody
\* holds the lock.
CreatorAlone ==
  \A w \in Wizards : pc[w] = "write" => path = handle[w] /\ \A v \in Wizards : ~Holding(v)

\* A process that has read a pid has read the holder's, if there is one.
SeenIsHolder == \A v, w \in Wizards : pc[w] = "check" /\ Holding(v) => seen[w] = v

\* A process that is about to remove the path does so while nobody holds the lock.
RemoverAlone == \A w \in Wizards : pc[w] = "remove" => \A v \in Wizards : ~Holding(v)

LockInv ==
  LockTypeOK /\ OneAcquirer /\ HolderNamed /\ CreatorAlone /\ SeenIsHolder /\ RemoverAlone

\* No step leaves the types of the variables (any step of any process).
LEMMA LockTypeStep == ASSUME LockTypeOK, [LockNext]_lockVars PROVE LockTypeOK'
<1> USE LockAssumption DEF LockTypeOK, Moves, Finish, PidAt
<1>1. CASE UNCHANGED lockVars
  BY <1>1 DEF lockVars
<1>2. ASSUME NEW w \in Wizards, Acquire(w) PROVE LockTypeOK'
  BY <1>2 DEF Acquire
<1>3. ASSUME NEW w \in Wizards, CreateOk(w) PROVE LockTypeOK'
  BY <1>3 DEF CreateOk
<1>4. ASSUME NEW w \in Wizards, CreateExists(w) PROVE LockTypeOK'
  BY <1>4 DEF CreateExists
<1>5. ASSUME NEW w \in Wizards, WritePid(w) PROVE LockTypeOK'
  BY <1>5 DEF WritePid
<1>6. ASSUME NEW w \in Wizards, ReadPid(w) PROVE LockTypeOK'
  BY <1>6 DEF ReadPid
<1>7. ASSUME NEW w \in Wizards, CheckRunning(w) PROVE LockTypeOK'
  BY <1>7 DEF CheckRunning
<1>8. ASSUME NEW w \in Wizards, CheckStale(w) PROVE LockTypeOK'
  BY <1>8 DEF CheckStale
<1>9. ASSUME NEW w \in Wizards, RemoveStale(w) PROVE LockTypeOK'
  BY <1>9 DEF RemoveStale
<1>10. ASSUME NEW w \in Wizards, Release(w) PROVE LockTypeOK'
  BY <1>10 DEF Release
<1>11. ASSUME NEW w \in Wizards, ReleaseRead(w) PROVE LockTypeOK'
  BY <1>11 DEF ReleaseRead
<1>12. ASSUME NEW w \in Wizards, ReleaseRemove(w) PROVE LockTypeOK'
  BY <1>12 DEF ReleaseRemove
<1>13. ASSUME NEW w \in Wizards, WriteFail(w) PROVE LockTypeOK'
  BY <1>13 DEF WriteFail
<1>14. ASSUME NEW w \in Wizards, Dies(w) PROVE LockTypeOK'
  BY <1>14 DEF Dies
<1>15. QED
  BY <1>1, <1>2, <1>3, <1>4, <1>5, <1>6, <1>7, <1>8, <1>9, <1>10, <1>11, <1>12, <1>13, <1>14
  DEF LockNext, Continue

\* When acquisitions do not overlap, every step keeps the invariant.
LEMMA LockInvStep ==
  ASSUME Overlap = FALSE, LockInv, [LockNext]_lockVars PROVE LockInv'
<1>1. LockTypeOK'
  BY LockTypeStep DEF LockInv
<1>2. SUFFICES ASSUME ~ UNCHANGED lockVars
               PROVE  (OneAcquirer /\ HolderNamed /\ CreatorAlone /\ SeenIsHolder /\ RemoverAlone)'
  <2>1. CASE UNCHANGED lockVars
    BY <2>1 DEF LockInv, LockTypeOK, OneAcquirer, HolderNamed, CreatorAlone, SeenIsHolder, RemoverAlone,
                Acquiring, Holding, PidAt, lockVars
  <2>2. QED
    BY <1>1, <2>1 DEF LockInv
<1> USE LockAssumption
    DEF LockInv, LockTypeOK, OneAcquirer, HolderNamed, CreatorAlone, SeenIsHolder, RemoverAlone,
        Acquiring, Holding, PidAt, Moves
<1>3. PICK w \in Wizards : Acquire(w) \/ Continue(w) \/ Release(w) \/ WriteFail(w) \/ Dies(w)
  BY <1>2 DEF LockNext
<1>4. CASE Acquire(w)
  BY <1>4, <1>1 DEF Acquire
<1>5. CASE CreateOk(w)
  BY <1>5, <1>1 DEF CreateOk
<1>6. CASE CreateExists(w)
  BY <1>6, <1>1 DEF CreateExists
<1>7. CASE WritePid(w)
  BY <1>7, <1>1 DEF WritePid
<1>8. CASE ReadPid(w)
  BY <1>8, <1>1 DEF ReadPid
<1>9. CASE CheckRunning(w)
  BY <1>9, <1>1 DEF CheckRunning, Finish
<1>10. CASE CheckStale(w)
  BY <1>10, <1>1 DEF CheckStale, IsRunning
<1>11. CASE RemoveStale(w)
  BY <1>11, <1>1 DEF RemoveStale, Finish
<1>12. CASE Release(w)
  BY <1>12, <1>1 DEF Release
<1>13. CASE ReleaseRead(w)
  BY <1>13, <1>1 DEF ReleaseRead
<1>14. CASE ReleaseRemove(w)
  BY <1>14, <1>1 DEF ReleaseRemove
<1>15. CASE WriteFail(w)
  BY <1>15, <1>1 DEF WriteFail, Finish
<1>16. CASE Dies(w)
  BY <1>16, <1>1 DEF Dies
<1>17. QED
  BY <1>3, <1>4, <1>5, <1>6, <1>7, <1>8, <1>9, <1>10,
     <1>11, <1>12, <1>13, <1>14, <1>15, <1>16 DEF Continue

\* The invariant holds from the start on.
THEOREM LockInvHolds ==
  ASSUME Overlap = FALSE PROVE LockSpec => []LockInv
<1>1. LockInit => LockInv
  BY LockAssumption DEF LockInit, LockInv, LockTypeOK, OneAcquirer, HolderNamed, CreatorAlone, SeenIsHolder,
         RemoverAlone, Acquiring, Holding, PidAt
<1>2. LockInv /\ [LockNext]_lockVars => LockInv'
  BY LockInvStep
<1>3. QED
  BY <1>1, <1>2, PTL DEF LockSpec

\* Wizards that start one after the other never both hold the lock, whoever
\* crashes or fails to write meanwhile (acquirePublicServerLock, Release).
THEOREM LockExcludes ==
  ASSUME Overlap = FALSE PROVE LockSpec => []MutualExclusion
<1>1. LockInv => MutualExclusion
  BY DEF LockInv, HolderNamed, MutualExclusion
<1>2. QED
  BY <1>1, LockInvHolds, PTL

\* Whoever looks at the path while the lock is held finds its holder's pid there.
THEOREM HolderStaysOnDisk ==
  ASSUME Overlap = FALSE PROVE LockSpec => []HolderOnDisk
<1>1. LockInv => HolderOnDisk
  BY DEF LockInv, HolderNamed, HolderOnDisk, Holding
<1>2. QED
  BY <1>1, LockInvHolds, PTL

-----------------------------------------------------------------------------
(***************************************************************************)
(* The wizard never returns while its cloudflared runs.  Whoever learns of *)
(* the child's end learns it from the goroutine that has waited for it:    *)
(* from the process state or from the one value on proc.done.              *)
(***************************************************************************)

\* A child that was waited for, announced on proc.done, or for which a call of
\* Stop has returned does not run; the wizard goes on only after its own call.
EndIsKnown ==
  /\ waiter # "wait" => child # "running"
  /\ doneCh = 1 => waiter = "done"
  /\ \A s \in Stoppers : stop[s] = "done" => child # "running"
  /\ main \in {"cancel", "returned"} => stop["main"] = "done"

WizardInv == WizardTypeOK /\ EndIsKnown

\* Every step of the wizard, its goroutines and the child keeps the invariant.
LEMMA WizardInvStep == WizardInv /\ [WizardNext]_wizardVars => WizardInv'
<1> SUFFICES ASSUME WizardInv, [WizardNext]_wizardVars PROVE WizardInv'
  OBVIOUS
<1> USE DEF WizardInv, WizardTypeOK, EndIsKnown, Stoppers, procVars, engineVars, To
<1>1. CASE Exit
  BY <1>1 DEF Exit
<1>2. CASE WaiterStep
  BY <1>2 DEF WaiterStep, Reap, Cleanup, SendDone
<1>3. CASE CtrlC \/ UrlReady \/ UrlGivenUp
  BY <1>3 DEF CtrlC, UrlReady, UrlGivenUp
<1>4. CASE EngineStopping \/ EngineReturns
  BY <1>4 DEF EngineStopping, EngineReturns
<1>5. CASE CheckDone \/ CheckFails
  BY <1>5 DEF CheckDone, CheckFails
<1>6. CASE TunnelGone \/ EngineGone \/ EngineAwaited \/ EngineGivenUp
  BY <1>6 DEF TunnelGone, EngineGone, EngineAwaited, EngineGivenUp
<1>7. CASE DeferStop \/ StopReturned \/ Return
  BY <1>7 DEF DeferStop, StopReturned, Return
<1>8. CASE ContextStops
  BY <1>8 DEF ContextStops
<1>9. ASSUME NEW s \in Stoppers, CheckState(s) \/ Signal(s) \/ Timeout(s) PROVE WizardInv'
  BY <1>9 DEF CheckState, Signal, Timeout
<1>10. ASSUME NEW s \in Stoppers, Poll(s) \/ ReceiveDone(s) PROVE WizardInv'
  BY <1>10 DEF Poll, ReceiveDone
<1>11. ASSUME NEW s \in Stoppers, Kill(s) PROVE WizardInv'
  BY <1>11 DEF Kill
<1>12. CASE UNCHANGED wizardVars
  BY <1>12 DEF wizardVars
<1>13. QED
  BY <1>1, <1>2, <1>3, <1>4, <1>5, <1>6, <1>7, <1>8, <1>9, <1>10, <1>11, <1>12
  DEF WizardNext, MainStep, StopStep

\* Whichever of the two calls of Stop is first, and whatever ends the engine,
\* the wizard returns only when its cloudflared has ended (tunnelProcess.Stop).
THEOREM NoTunnelLeft == WizardSpec => []NoOrphanTunnel
<1>1. WizardInit => WizardInv
  <2> SUFFICES ASSUME WizardInit PROVE WizardInv
    OBVIOUS
  <2>1. \A s \in Stoppers : stop[s] = "none"
    BY DEF WizardInit
  <2>2. WizardTypeOK
    <3>1. stop \in [Stoppers -> {"none", "start", "poll", "signal", "select", "kill", "drain", "done"}]
      BY DEF WizardInit
    <3>2. doneCh \in 0 .. 1 /\ engineCh \in 0 .. 1
      BY DEF WizardInit
    <3>3. QED
      BY <3>1, <3>2, Zenon DEF WizardInit, WizardTypeOK
  <2>3. EndIsKnown
    BY <2>1 DEF WizardInit, EndIsKnown
  <2>4. QED
    BY <2>2, <2>3 DEF WizardInv
<1>2. WizardInv => NoOrphanTunnel
  BY DEF WizardInv, EndIsKnown, NoOrphanTunnel, Stoppers
<1>3. QED
  BY <1>1, <1>2, WizardInvStep, PTL DEF WizardSpec

-----------------------------------------------------------------------------
(***************************************************************************)
(* The set-up.  The types alone are not inductive: a tunnel is created     *)
(* under the name in job, so that name must have been given.               *)
(***************************************************************************)
Downloading == {"idle", "find", "sum", "get", "copy", "verify", "rename", "version", "mode"}
Naming == {"create", "route", "config", "start"}

\* Before the login no tunnel was named; after it the tunnel and the host are.
NameGiven ==
  /\ step \in Downloading \cup Naming \cup {"running"}
  /\ step \in Downloading => job.name = None
  /\ step \in Naming => job.name \in TunnelNames /\ job.host \in Hosts

SetupInv == SetupTypeOK /\ NameGiven

(***************************************************************************)
(* The binary: what goes on to the rename was verified, or its download    *)
(* had no checksum and the user had agreed to that.                        *)
(***************************************************************************)
WholeToBeRenamed ==
  /\ step \in {"verify", "rename"} => tmp \in {"release", "other"}
  /\ step = "verify" => job.checked
  /\ step = "rename" /\ job.checked => tmp = "release"

BinaryInv == SetupInv /\ WholeToBeRenamed /\ InstalledIsVerified

(***************************************************************************)
(* The named tunnel: what the wizard has found out at each step.  The      *)
(* account and the certificate are never taken away, and nobody else       *)
(* routes the host meanwhile.                                              *)
(***************************************************************************)
KnownSoFar ==
  /\ step \in Naming => cert
  /\ step \in {"route", "config", "start"} =>
       /\ job.name \in account
       /\ job.id # None => job.id \in account /\ job.name \in Shown[job.id]
  /\ step \in {"config", "start"} => dns[job.host] = job.name \/ job.kept
  /\ step = "start" => job.config \in account /\ job.name \in Shown[job.config]

NamedInv == SetupInv /\ KnownSoFar /\ NamedTunnelServes

\* The types hold before the first wizard runs.
LEMMA SetupInitInv == SetupInit => SetupInv
<1> SUFFICES ASSUME SetupInit PROVE SetupInv
  OBVIOUS
<1>1. dns \in [Hosts -> TunnelNames \cup {None, OtherRecord}]
  BY DEF SetupInit
<1>2. job \in [checked : BOOLEAN, name : TunnelNames \cup {None}, host : Hosts \cup {None},
               id : TunnelNames \cup {None}, config : TunnelNames \cup {None}, kept : BOOLEAN]
  BY DEF SetupInit, NoJob
<1>3. NameGiven
  BY DEF SetupInit, NameGiven, NoJob, Downloading, Naming
<1>4. QED
  BY <1>1, <1>2, <1>3 DEF SetupInit, SetupInv, SetupTypeOK

\* Every step of the set-up keeps the types, and asks for a name before it needs one.
LEMMA SetupInvStep == SetupInv /\ [SetupNext]_setupVars => SetupInv'
<1> SUFFICES ASSUME SetupInv, [SetupNext]_setupVars PROVE SetupInv'
  OBVIOUS
<1> USE SetupAssumption DEF SetupInv, SetupTypeOK, NameGiven, Downloading, Naming, binVars, accountVars,
                            StepTo, LeaveSetup, NoJob
<1>1. CASE Begin \/ Find
  BY <1>1 DEF Begin, Find
<1>1b. CASE OpenTmp \/ Copy
  BY <1>1b DEF OpenTmp, Copy
<1>1a. CASE SumFound
  BY <1>1a DEF SumFound
<1>1c. CASE GoOnUnchecked
  BY <1>1c DEF GoOnUnchecked
<1>2. CASE DownloadFails \/ End
  <2>1. job' = NoJob /\ NoJob \in [checked : BOOLEAN, name : TunnelNames \cup {None},
                   host : Hosts \cup {None}, id : TunnelNames \cup {None},
                   config : TunnelNames \cup {None}, kept : BOOLEAN]
    BY <1>2 DEF DownloadFails, End
  <2>2. QED
    BY <1>2, <2>1 DEF DownloadFails, End
<1>3. CASE Verify \/ Rename \/ Version \/ QuickOrToken \/ StartTunnel
  <2>1. accepted' \in BOOLEAN
    BY <1>3 DEF Verify, Rename, Version, QuickOrToken, StartTunnel
  <2>2. QED
    BY <1>3, <2>1 DEF Verify, Rename, Version, QuickOrToken, StartTunnel
<1>4. CASE Create
  <2>1. PICK id \in TunnelNames \cup {None} : job' = [job EXCEPT !.id = id]
    BY <1>4 DEF Create
  <2>2. QED
    BY <1>4, <2>1 DEF Create
<1>5. CASE Reuse
  <2>1. PICK id \in TunnelNames \cup {None} : job' = [job EXCEPT !.id = id]
    BY <1>5 DEF Reuse, Listed
  <2>2. QED
    BY <1>5, <2>1 DEF Reuse
<1>6. CASE RouteDNS
  BY <1>6 DEF RouteDNS
<1>7. CASE KeepDNS
  BY <1>7 DEF KeepDNS
<1>7a. CASE WriteConfig
  BY <1>7a DEF WriteConfig
<1>8. ASSUME NEW name \in TunnelNames, NEW host \in Hosts, Login(name, host) PROVE SetupInv'
  BY <1>8 DEF Login
<1>9. CASE UNCHANGED setupVars
  BY <1>9 DEF setupVars
<1>11. QED
  BY <1>1, <1>2, <1>3, <1>4, <1>5, <1>6, <1>7, <1>8, <1>9, <1>1a, <1>1b, <1>1c, <1>7a DEF SetupNext

\* Whatever earlier downloads left behind, the binary found or used is a whole
\* one, the release's unless the user went on without a checksum.
THEOREM InstalledVerified == SetupSpec => []InstalledIsVerified
<1>1. SetupInit => BinaryInv
  BY SetupInitInv DEF SetupInit, BinaryInv, WholeToBeRenamed, InstalledIsVerified
<1>2. BinaryInv /\ [SetupNext]_setupVars => BinaryInv'
  <2> SUFFICES ASSUME BinaryInv, [SetupNext]_setupVars
               PROVE  WholeToBeRenamed' /\ InstalledIsVerified'
    BY SetupInvStep DEF BinaryInv
  <2> USE DEF BinaryInv, SetupInv, SetupTypeOK, WholeToBeRenamed, InstalledIsVerified, binVars, StepTo
  <2>1. CASE Begin \/ Find \/ SumFound \/ GoOnUnchecked \/ OpenTmp
    BY <2>1 DEF Begin, Find, SumFound, GoOnUnchecked, OpenTmp
  <2>2. CASE Copy \/ Verify \/ Rename \/ Version
    BY <2>2 DEF Copy, Verify, Rename, Version
  <2>3. CASE DownloadFails \/ End
    BY <2>3 DEF DownloadFails, End, LeaveSetup
  <2>4. CASE QuickOrToken \/ Create \/ Reuse \/ RouteDNS \/ KeepDNS \/ WriteConfig \/ StartTunnel
    BY <2>4 DEF QuickOrToken, Create, Reuse, RouteDNS, KeepDNS, WriteConfig, StartTunnel
  <2>5. ASSUME NEW name \in TunnelNames, NEW host \in Hosts, Login(name, host)
        PROVE  WholeToBeRenamed' /\ InstalledIsVerified'
    BY <2>5 DEF Login
  <2>6. CASE UNCHANGED setupVars
    BY <2>6 DEF setupVars
  <2>7. QED
    BY <2>1, <2>2, <2>3, <2>4, <2>5, <2>6 DEF SetupNext
<1>3. BinaryInv => InstalledIsVerified
  BY DEF BinaryInv
<1>4. QED
  BY <1>1, <1>2, <1>3, PTL DEF SetupSpec

\* However many wizards died half-way, one that runs a named tunnel runs one of
\* the account, its host leads to it or to the record the user kept, and its
\* configuration names a tunnel of the account whose line contains the name
\* (runNamedCloudflarePublicServer, findTunnelUUIDByName), whatever the list of
\* tunnels shows.
THEOREM NamedTunnelFound == SetupSpec => []NamedTunnelServes
<1>1. SetupInit => NamedInv
  BY SetupInitInv DEF SetupInit, NamedInv, KnownSoFar, NamedTunnelServes, NoJob, Naming
<1>2. NamedInv /\ [SetupNext]_setupVars => NamedInv'
  <2> SUFFICES ASSUME NamedInv, [SetupNext]_setupVars
               PROVE  KnownSoFar' /\ NamedTunnelServes'
    BY SetupInvStep DEF NamedInv
  <2> USE SetupAssumption
      DEF NamedInv, SetupInv, SetupTypeOK, NameGiven, Downloading, Naming, KnownSoFar, NamedTunnelServes,
          accountVars, StepTo
  <2>1. CASE Begin \/ Find \/ SumFound \/ GoOnUnchecked \/ OpenTmp
    BY <2>1 DEF Begin, Find, SumFound, GoOnUnchecked, OpenTmp
  <2>2. CASE Copy \/ Verify \/ Rename \/ Version
    BY <2>2 DEF Copy, Verify, Rename, Version
  <2>3. CASE DownloadFails \/ End
    BY <2>3 DEF DownloadFails, End, LeaveSetup, NoJob
  <2>4. CASE QuickOrToken
    BY <2>4 DEF QuickOrToken
  <2>5. CASE Create
    BY <2>5 DEF Create
  <2>6. CASE Reuse
    BY <2>6 DEF Reuse, Listed
  <2>7. CASE RouteDNS
    BY <2>7 DEF RouteDNS
  <2>8. CASE KeepDNS
    BY <2>8 DEF KeepDNS
  <2>9. CASE WriteConfig \/ StartTunnel
    BY <2>9 DEF WriteConfig, StartTunnel
  <2>10. ASSUME NEW name \in TunnelNames, NEW host \in Hosts, Login(name, host)
         PROVE  KnownSoFar' /\ NamedTunnelServes'
    BY <2>10 DEF Login
  <2>11. CASE UNCHANGED setupVars
    BY <2>11 DEF setupVars, binVars
  <2>12. QED
    BY <2>1, <2>2, <2>3, <2>4, <2>5, <2>6, <2>7, <2>8, <2>9, <2>10, <2>11 DEF SetupNext
<1>3. NamedInv => NamedTunnelServes
  BY DEF NamedInv
<1>4. QED
  BY <1>1, <1>2, <1>3, PTL DEF SetupSpec
=============================================================================
