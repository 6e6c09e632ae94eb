SPECIFICATION FairSpec
CONSTANTS
  Server = "S"
  Relays = {"A", "B"}
  Clients = {"C1"}
  Announces <- TwoAnnounces
  MayStop = {"A"}
  MaxStarts = 2
  RETRIES = 2
CHECK_DEADLOCK FALSE
INVARIANTS TypeOK NeighbourOnce AnswerIsTheAnswer
PROPERTIES NoFalseDeath MetForGood StaleForgotten EveryRequestResolved AskerGetsOffer
