CONSTANTS
  TableSize = 2
  Word = 7
  MaxDuration = 2
  MaxRand = 1
  Events <- MCEvents
  CancelTimes = {0, 4}
  MaxInputs = 4
SPECIFICATION FairSpec
INVARIANTS OneAtATime ParticipationTrue
PROPERTIES NoneDropped EventEnds
CHECK_DEADLOCK FALSE
