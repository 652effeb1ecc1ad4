SPECIFICATION ReaderSpec
CONSTANTS
  Byte <- MCByte
  Utf8 <- MCUtf8
  Payloads <- SplitPayloads
  AppPayloads <- MCAppPayloads
  Limits = {1, 3}
  DefaultLimit = 3
  MIN_FRAME_PAYLOAD_CAP = 2
  Conforming = TRUE
  MaxFrames = 3
  MaxInFlight = 2
  MaxSends = 0
INVARIANT NoFalseRejection
INVARIANT ReassemblyInSync
PROPERTY DeliversInOrder
PROPERTY CloseTerminates
\* close() consumes the handle: after it nothing is left to run.
CHECK_DEADLOCK FALSE
