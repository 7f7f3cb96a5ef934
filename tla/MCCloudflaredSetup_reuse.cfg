\* The tunnel that is configured when a tunnel of the account is reused.
SPECIFICATION SetupSpec
CONSTANTS
  n1 = n1
  n2 = n2
  TunnelNames = {n1, n2}
  Hosts = {g1}
  Taken = {}
  None = None
  OtherRecord = OtherRecord
  Shown <- MCShown
INVARIANT ReusesTheNamedTunnel
CHECK_DEADLOCK FALSE
