-------------------------- MODULE CloudflaredSetup --------------------------
(***************************************************************************)
(* How the Public Server Wizard gets cloudflared ready: the binary, which  *)
(* is downloaded into the user's home when there is none (cmd/road/        *)
(* tunnel_manager.go), and, for a domain of the user's own, the tunnel in  *)
(* the Cloudflare account and its DNS record (tunnel_token.go, wizard.go). *)
(* The wizard may be refused an answer, fail or die at any step, and be    *)
(* started again: the files, the account and the DNS stay as they were.    *)
(*                                                                         *)
(* One wizard runs at a time: those of one folder exclude each other       *)
(* (PublicServerLock); a home shared by several folders is not modelled,   *)
(* nor is a cloudflared of the user's own on the PATH, which is taken as   *)
(* it is.  A tunnel is identified by its name: the account has no two of   *)
(* one name.                                                               *)
(***************************************************************************)
EXTENDS Naturals, FiniteSets

CONSTANTS
  TunnelNames, Hosts, \* the tunnel names and host names a user types
  Shown,        \* the names that occur in the line of each tunnel in "tunnel list"
  Taken,        \* host names that have a DNS record of another kind
  None, OtherRecord

ASSUME SetupAssumption ==
  /\ Shown \in [TunnelNames -> SUBSET TunnelNames] /\ \A name \in TunnelNames : name \in Shown[name]
  /\ Taken \subseteq Hosts
  /\ {None, OtherRecord} \cap TunnelNames = {} /\ None # OtherRecord

VARIABLES
  tmp, dest,    \* the files cloudflared.tmp and cloudflared
  cert,         \* the certificate of a login is there
  account,      \* the tunnels of the account
  dns,          \* the tunnel each host name is routed to
  step,         \* where the wizard is
  job,          \* its local variables
  accepted      \* history: the user accepted what dest holds without a checksum

binVars == <<tmp, dest, accepted>>
accountVars == <<cert, account, dns>>
setupVars == <<binVars, accountVars, step, job>>

NoJob == [checked |-> FALSE, name |-> None, host |-> None, id |-> None, config |-> None,
          kept |-> FALSE]

SetupInit ==
  /\ tmp = "none" /\ dest = "none" /\ accepted = FALSE
  /\ cert \in BOOLEAN
  /\ account \in SUBSET TunnelNames
  /\ dns = [h \in Hosts |-> IF h \in Taken THEN OtherRecord ELSE None]
  /\ step = "idle" /\ job = NoJob

StepTo(label) == step' = label
LeaveSetup == StepTo("idle") /\ job' = NoJob

Begin ==
  /\ step = "idle"
  /\ StepTo("find")
  /\ UNCHANGED <<binVars, accountVars, job>>

-----------------------------------------------------------------------------
(* ensureCloudflared and downloadCloudflared. *)

Find ==
  /\ step = "find"
  /\ StepTo(IF dest # "none" THEN "mode" ELSE "sum")
  /\ UNCHANGED <<binVars, accountVars, job>>

\* The user agrees to the download, and the release tells its checksum.
SumFound ==
  /\ step = "sum"
  /\ job' = [job EXCEPT !.checked = TRUE]
  /\ StepTo("get")
  /\ UNCHANGED <<binVars, accountVars>>

\* It does not, and the user agrees to go on without.
GoOnUnchecked ==
  /\ step = "sum"
  /\ job' = [job EXCEPT !.checked = FALSE]
  /\ StepTo("get")
  /\ UNCHANGED <<binVars, accountVars>>

\* The file is emptied, or made, and then filled.
OpenTmp ==
  /\ step = "get"
  /\ tmp' = "torn"
  /\ StepTo("copy")
  /\ UNCHANGED <<dest, accepted, accountVars, job>>

Copy ==
  /\ step = "copy"
  /\ tmp' \in {"release", "other"}
  /\ StepTo(IF job.checked THEN "verify" ELSE "rename")
  /\ UNCHANGED <<dest, accepted, accountVars, job>>

\* Whatever goes wrong once tmp is open removes it.
DownloadFails ==
  /\ step \in {"copy", "verify", "rename"}
  /\ tmp' = "none"
  /\ LeaveSetup
  /\ UNCHANGED <<dest, accepted, accountVars>>

\* Mutant: the file is hashed, and the hash compared with nothing.
MutantNotCompared ==
  /\ step = "verify"
  /\ StepTo("rename")
  /\ UNCHANGED <<binVars, accountVars, job>>

Verify ==
  /\ step = "verify" /\ tmp = "release"
  /\ StepTo("rename")
  /\ UNCHANGED <<binVars, accountVars, job>>

Rename ==
  /\ step = "rename"
  /\ dest' = tmp /\ tmp' = "none" /\ accepted' = ~ job.checked
  /\ StepTo("version")
  /\ UNCHANGED <<accountVars, job>>

\* "cloudflared version" runs.  When it does not the wizard fails, and leaves
\* the binary where it is.
Version ==
  /\ step = "version"
  /\ StepTo("mode")
  /\ UNCHANGED <<binVars, accountVars, job>>

-----------------------------------------------------------------------------
(* runNamedCloudflarePublicServer. *)

\* The other two modes need no account.
QuickOrToken ==
  /\ step = "mode"
  /\ StepTo("running")
  /\ UNCHANGED <<binVars, accountVars, job>>

\* The certificate of an earlier login is used, or a new one is awaited; then
\* the user names the host and the tunnel.
Login(name, host) ==
  /\ step = "mode"
  /\ cert' = TRUE
  /\ job' = [job EXCEPT !.name = name, !.host = host]
  /\ StepTo("create")
  /\ UNCHANGED <<binVars, account, dns>>

\* The id is in what cloudflared prints, or stays unknown.
Create ==
  /\ step = "create" /\ job.name \notin account
  /\ account' = account \cup {job.name}
  /\ \E id \in {job.name, None} : job' = [job EXCEPT !.id = id]
  /\ StepTo("route")
  /\ UNCHANGED <<binVars, cert, dns>>

\* Mutant: the first tunnel listed is taken.
MutantAnyLine(name) == account

\* findTunnelUUIDByName: the tunnels whose line contains the name; the order
\* of the list decides which.
Listed(name) == {tunnel \in account : name \in Shown[tunnel]}

\* The name exists and the user agrees to reuse the tunnel.  Its id is in the
\* error, or is looked for in the list, or stays unknown when there is none.
Reuse ==
  /\ step = "create" /\ job.name \in account
  /\ \E id \in Listed(job.name) \cup {job.name, None} : job' = [job EXCEPT !.id = id]
  /\ StepTo("route")
  /\ UNCHANGED <<binVars, accountVars>>

RouteDNS ==
  /\ step = "route" /\ job.name \in account
  /\ dns[job.host] \in {None, job.name}
  /\ dns' = [dns EXCEPT ![job.host] = job.name]
  /\ StepTo("config")
  /\ UNCHANGED <<binVars, cert, account, job>>

\* The host has a record and the user agrees to keep it.
KeepDNS ==
  /\ step = "route" /\ dns[job.host] # None
  /\ job' = [job EXCEPT !.kept = TRUE]
  /\ StepTo("config")
  /\ UNCHANGED <<binVars, accountVars>>

\* writeNamedTunnelConfig: the tunnel is referred to by id, else by name.
WriteConfig ==
  /\ step = "config"
  /\ job' = [job EXCEPT !.config = IF job.id = None THEN job.name ELSE job.id]
  /\ StepTo("start")
  /\ UNCHANGED <<binVars, accountVars>>

StartTunnel ==
  /\ step = "start"
  /\ StepTo("running")
  /\ UNCHANGED <<binVars, accountVars, job>>

\* The wizard ends, is refused an answer, fails or dies.
End ==
  /\ step # "idle"
  /\ LeaveSetup
  /\ UNCHANGED <<binVars, accountVars>>

SetupNext ==
  \/ Begin \/ Find \/ SumFound \/ GoOnUnchecked \/ OpenTmp \/ Copy \/ DownloadFails
  \/ Verify \/ Rename \/ Version
  \/ QuickOrToken \/ Create \/ Reuse \/ RouteDNS \/ KeepDNS \/ WriteConfig \/ StartTunnel \/ End
  \/ \E name \in TunnelNames, host \in Hosts : Login(name, host)

SetupSpec == SetupInit /\ [][SetupNext]_setupVars

-----------------------------------------------------------------------------
SetupTypeOK ==
  /\ tmp \in {"none", "torn", "release", "other"} /\ dest \in {"none", "torn", "release", "other"}
  /\ accepted \in BOOLEAN /\ cert \in BOOLEAN
  /\ account \subseteq TunnelNames
  /\ dns \in [Hosts -> TunnelNames \cup {None, OtherRecord}]
  /\ job \in [checked : BOOLEAN, name : TunnelNames \cup {None}, host : Hosts \cup {None},
              id : TunnelNames \cup {None}, config : TunnelNames \cup {None}, kept : BOOLEAN]

(***************************************************************************)
(* docs/CLOUDFLARE-WIZARD-LIMITS.md:142-147.  Whatever earlier downloads   *)
(* left behind, the binary a wizard finds or uses is a whole one: that of  *)
(* the release, unless the user went on without a checksum.                *)
(***************************************************************************)
InstalledIsVerified ==
  dest # "none" => dest # "torn" /\ (dest = "release" \/ accepted)

(***************************************************************************)
(* However many wizards died between the tunnel, its DNS record and its    *)
(* configuration, one that runs a named tunnel runs a tunnel of the        *)
(* account, the host name leads to it, unless the user kept another        *)
(* record, and the configuration names it, unless another tunnel of the    *)
(* account is listed in a line that contains its name.                     *)
(***************************************************************************)
NamedTunnelServes ==
  step = "running" /\ job.name # None =>
    /\ job.name \in account /\ cert
    /\ job.config \in account /\ job.name \in Shown[job.config]
    /\ dns[job.host] = job.name \/ job.kept

(***************************************************************************)
(* docs/CLOUDFLARE-WIZARD-LIMITS.md:104: "If the tunnel name or DNS record *)
(* already exists, ROAD asks whether to reuse the existing object".  The   *)
(* tunnel that is configured is the one of that name.                      *)
(***************************************************************************)
ReusesTheNamedTunnel ==
  step = "running" /\ job.name # None => job.config = job.name
=============================================================================
