SPECIFICATION RoadSpec
CONSTANTS
  Wizards = {w1, w2, w3}
  Files = {f1, f2, f3, f4}
  NoFile = NoFile
  NoPid = NoPid
  Overlap = FALSE
  Faults = TRUE
  n1 = n1
  n2 = n2
  TunnelNames = {n1, n2}
  Hosts = {g1, g2, g3}
  Taken = {g3}
  None = None
  OtherRecord = OtherRecord
  Shown <- MCShown
  a = a
  b = b
  Nobody = Nobody
  Consoles = {a, b}
  Flows <- MCFlows
  Environments <- MCEnvironments
  Folders <- MCFolders
  Disk <- MCDisk
  StartFiles <- MCStartFiles
  Seeds <- MCSeeds
  ServerPaths <- MCServerPaths
  ClientPaths <- MCClientPaths
  HeaderMaps <- MCHeaderMaps
  HostIn <- MCHostIn
  Ports <- MCPorts
  Tokens <- MCTokens
  LocalNames <- MCLocalNames
  PublicHost <- MCPublicHost
  PublicURL <- MCPublicURL
  URLs <- MCURLs
  PromptTokens <- MCPromptTokens
  ServerAnswers <- MCServerAnswers
  ClientAnswers <- MCClientAnswers
  MaxFlows = 1
  MaxCrashes = 1
INVARIANTS PublicServerProtected NoSilentOpen ReadsBackItsOwn PreflightHolds MutualExclusion NoOrphanTunnel InstalledIsVerified NamedTunnelServes
PROPERTIES TunnelExitEndsWizard
CHECK_DEADLOCK FALSE
