SPECIFICATION Spec
CHECK_DEADLOCK FALSE
CONSTANTS
  alice = alice
  acme = acme
  plain = plain
  wild = wild
  platform = platform
  HostName = {plain, wild, platform}
  PlatformHost <- OwnHosts
  Client = {c1}
  Name = {plain, wild}
  WildcardName = {wild}
  Owner = {alice, acme}
  Limit <- OneAndUnlimited
  PublicIPs = FALSE
  PlatformHosts = TRUE
  TLSALPNAvailable = TRUE
  HTTPAvailable = FALSE
  RequestedChallenge = {"auto", "dns-01", "http-01", "tls-alpn-01", "other"}
  MaxDomains = 2
INVARIANTS
  EveryRecordReachable
  ResolverFollowsIndex
PROPERTIES
  ImplementsRegistry
