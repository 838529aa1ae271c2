\* A request that arrives in several segments.
CONSTANTS
  ReqLens <- MCReqLens
  RecvCap = 6
  ExtraCap = 3
  FrameUnits = 2
  Units <- MCUnits
  SendBuf = 3
  MaxIter = 2
  MaxFrames = 0
  MaxStray = 2
SPECIFICATION Spec
INVARIANT RequestUnderstood
