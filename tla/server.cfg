SPECIFICATION FairSpec
CONSTANTS
  c1 = c1
  c2 = c2
  c3 = c3
  Conn <- ThreeConns
  Limits = {0, 1, 2}
INVARIANT PermitsConserved
INVARIANT ServedBounded
PROPERTY PlacesComeBack
PROPERTY AcceptNeverBlocks
PROPERTY RequestEnds
\* The program may exit after serve() has returned.
CHECK_DEADLOCK FALSE
