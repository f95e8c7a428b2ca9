SPECIFICATION FairSpec
CONSTANTS
  HeaderSize = 2
  MaxPayload = 1
  ExpectedVersion = 1
  MaxFrames = 2
  MaxSends = 2
  Frames <- MCFrames
INVARIANTS FramesIntact NothingStuck RegisteredIsLive WriteQueueServed
PROPERTY EndedIsClosed
CHECK_DEADLOCK FALSE
