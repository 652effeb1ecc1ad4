SPECIFICATION Spec
CONSTANTS
  c1 = c1
  c2 = c2
  c3 = c3
  Conn <- TwoConns
  Limits = {2}
PROPERTY DrainsActiveRequests
\* The program may exit after serve() has returned.
CHECK_DEADLOCK FALSE
