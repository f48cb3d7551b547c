CONSTANTS
  Threads = {t1, t2, t3}
  NoThread = NoThread
  Rounds = 2
SPECIFICATION FairSpec
INVARIANTS
  TypeOK
  AssertionHolds
  ChainShowsOccupants
PROPERTIES
  EveryMeetingEnds
  ImplementsBarrier
