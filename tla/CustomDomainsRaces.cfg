SPECIFICATION Spec
CHECK_DEADLOCK FALSE
CONSTANTS
  alice = alice
  Client = {c1, c2}
  Name = {n1, n2}
  WildcardName = {}
  Owner = {alice}
  Limit <- OnlyOne
  PublicIPs = FALSE
  PlatformHosts = TRUE
  TLSALPNAvailable = FALSE
  HTTPAvailable = FALSE
  RequestedChallenge = {"auto", "dns-01"}
  MaxDomains = 2
SYMMETRY ClientNameSymmetry
INVARIANTS
  TypeOK
  OvershootBounded
  IndexSound
  ActiveOnlyIfVerified
  SSLNeedsVerification
PROPERTIES
  SettledStaysDeleted
