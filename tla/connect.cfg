SPECIFICATION FairSpec
CONSTANTS
  Authorities = {"a", "b"}
  Malformed = "malformed"
  MaxCalls = 3
  MaxDerived = 2
  MaxHead = 6
  MaxHeaders = 3
  MaxDomain = 2
  MaxData = 2
INVARIANT TrustAsAsked
INVARIANT SecuredAsAsked
INVARIANT TunnelInSync
PROPERTY SettingsKept
PROPERTY HandshakeEnds
\* A connection is made once.
CHECK_DEADLOCK FALSE
