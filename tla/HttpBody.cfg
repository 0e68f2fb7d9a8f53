CONSTANTS
  Replies <- MCReplies
  MaxChunks = 3
  MaxChunk = 3
  BufSize = 2
SPECIFICATION Spec
INVARIANTS OnlyPayload ChunkedEndIsWhole WholeReplyIsRead
PROPERTY ReadingEnds
CHECK_DEADLOCK FALSE
