SPECIFICATION Spec
CONSTANTS
  Byte <- MCByte
  Utf8 <- MCUtf8
  Payloads <- SizedPayloads
  AppPayloads <- MCAppPayloads
  Limits = {1, 3}
  DefaultLimit = 3
  MIN_FRAME_PAYLOAD_CAP = 2
  Conforming = FALSE
  MaxFrames = 3
  MaxInFlight = 1
  MaxSends = 1
INVARIANT TypeOK
INVARIANT TextIsUtf8
INVARIANT RecvNeverSecondClose
INVARIANT PongsAnswerPings
PROPERTY WithinBudget
PROPERTY ClosedIsFinal
PROPERTY ControlFramesReadable
\* close() consumes the handle: after it nothing is left to run.
CHECK_DEADLOCK FALSE
