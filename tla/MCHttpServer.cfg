\* Two descriptors, the port's and read_file's: a third is never the lowest that
\* is free.  One page and one picture, and a
\* size that a document can lose bytes of.  The two loops end, and the server
\* can always go on.
SPECIFICATION HttpFairSpec
CONSTANTS
  Fds = {3, 4}
  Docs = {page, picture}
  Text = {page}
  MaxSize = 1
  None = None
INVARIANTS
  HttpTypeOK
  StaleOnlyAfterFailure
  AtMostOneLateCall
  PortClosedAtExit
  ReplyIsRequested
  NothingLeaks
PROPERTIES
  FailedStartWindsDown
  RequestAnswered
  ImplementsPort
