SPECIFICATION Spec
CONSTANTS
  a = a
  b = b
  Nobody = Nobody
  Consoles = {a, b}
  Flows <- MCFlows
  Environments <- MCEnvironments
  Folders <- MCFolders
  Disk <- MCDisk
  StartFiles <- MCStartFiles
  Seeds <- MCSeeds
  ServerPaths <- MCServerPaths
  ClientPaths <- MCClientPaths
  HeaderMaps <- MCHeaderMaps
  HostIn <- MCHostIn
  Ports <- MCPorts
  Tokens <- MCTokens
  LocalNames <- MCLocalNames
  PublicHost <- MCPublicHost
  PublicURL <- MCPublicURL
  URLs <- MCURLs
  PromptTokens <- MCPromptTokens
  ServerAnswers <- MCServerAnswers
  ClientAnswers <- MCClientAnswers
  MaxFlows = 1
  MaxCrashes = 1
CHECK_DEADLOCK FALSE
INVARIANT ServerKeepsSecrets
