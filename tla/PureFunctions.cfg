\* Length forms of 1 and 3 bytes, so that each is reached by short payloads.
CONSTANTS
  ExtBytes = 1
  LongBytes = 3
  None = None
  Streams <- MCStreams
  AnyBytes <- MCAnyBytes
  ChunkSizes <- MCChunkSizes
  Replies <- MCReplies
  Lengths <- MCLengths
  Requests <- MCRequests
  Numbers <- MCNumbers
  Argvs <- MCArgvs
  Handshakes <- MCHandshakes
  Sources <- MCSources
SPECIFICATION BytesSpec
INVARIANTS DecodesWhatWasSent AnyBytesParsed ServerFramesValid LegalLengthsWait
           KeyOfPrefix NumbersReadBack ListensWhereAsked
           AcceptsAsTheStandard Base64Faithful
