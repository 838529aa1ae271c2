\* Requests in one or several segments, every sequence of three frames in any
\* chunks, a send buffer that fills.
CONSTANTS
  ReqLens <- MCReqLens
  RecvCap = 6
  ExtraCap = 3
  FrameUnits = 2
  Units <- MCUnits
  SendBuf = 3
  MaxIter = 2
  MaxFrames = 3
  MaxStray = 2
SPECIFICATION FairSpec
INVARIANTS TypeOK NonBlockingFutures WholeRequestAnswered StreamWellFormed
INVARIANTS NothingLeftBehind ClosesAfterAnswer
PROPERTIES FramesAnswered ConnectionEnds
