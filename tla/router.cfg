SPECIFICATION ServeSpec
CONSTANTS
  Slash = "/"
  Router = {"root", "sub", "leaf"}
  Root = "root"
  Trees <- MCTrees
  Requests <- MCRequests
  Setups <- MCSetups
  Offered <- MCOffered
  HasTimeout = TRUE
  MaxOthers = 2
INVARIANT NearestState
INVARIANT RightRoute
INVARIANT AgreesWithDispatch
INVARIANT IdsPair
INVARIANT BestOffer
\* A request is answered once.
CHECK_DEADLOCK FALSE
