SPECIFICATION FairSpec
CONSTANTS
  Contents = {contentM, contentN}
  contentM = contentM
  contentN = contentN
  Suffixes = {1, 2}
  ContentKey <- OwnKeys
  Workers = {w1, w2, w3}
  Neighbours = {"A", "B"}
  Branches <- TwoContents
CHECK_DEADLOCK FALSE
INVARIANTS TypeOK OngoingPlayed NoRouteAbandoned
PROPERTY EveryReceiverTold
