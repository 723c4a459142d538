SPECIFICATION FairSpec
CONSTANTS
  NB = 2
  Modes <- AllBuilds
  None = None
  Listening = Listening
  MaxReply = 2
INVARIANTS TypeOK NeverDeaf
PROPERTIES NoOverlap ImplementsLink Answers FrameEnds
CHECK_DEADLOCK FALSE
