SPECIFICATION FairSpec
CHECK_DEADLOCK FALSE
CONSTANTS
  Source = {1, 2}
  Thread <- Senders
  SrcOf <- SenderSrc
  MsgLen <- Lengths
  CHUNK_SZ = 2
  WIDTH = 8
  Caller <- Callers
  Want <- WantOne
  ANY = ANY
  NULL = NULL
  UnackedInit <- Anything
INVARIANT MailboxConsistent
PROPERTIES ImplementsSafeMailbox EveryMessageReceived
