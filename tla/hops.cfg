SPECIFICATION FairSpec
CONSTANTS
  Links <- TwoEnds
  Floods = {"h1", "h2", "h3"}
  Path <- BothWays
  MaxIdle = 2
CHECK_DEADLOCK FALSE
INVARIANTS TypeOK NoReaderStranded
PROPERTY EveryHopTimed
