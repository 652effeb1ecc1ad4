SPECIFICATION FairSpec
CONSTANTS
  home = home
  other = other
  Home = home
  Origin <- TwoOrigins
  Requests <- AllRequests
INVARIANT CredentialsStayHome
INVARIANT HopsFaithful
INVARIANT HooksBalanced
INVARIANT GivesUpLast
PROPERTY SendReturns
\* send() returns.
CHECK_DEADLOCK FALSE
