SPECIFICATION FairSpec
CONSTANTS
  home = home
  other = other
  Home = home
  Origin <- TwoOrigins
  Requests <- ReadTimeoutRequests
PROPERTY ReadTimeoutEnds
\* send() returns.
CHECK_DEADLOCK FALSE
