SPECIFICATION Spec
CONSTANTS
  Contents = {"m"}
  Suffixes = {1, 2, 3, 4, 5, 6}
  ContentKey <- OwnKeys
  Server = "S"
  Relays = {"A", "B", "D"}
  Pops = {}
  Clients = {"C1"}
  NoClient = "none"
  Announces <- RingAnnounces
  Wants <- WantsM
  Available = {"m"}
  MayEnd = {}
  MayCrash = {}
  MaxRefresh = 0
  DialPorts = {2, 3, 4, 5}
CHECK_DEADLOCK FALSE
INVARIANTS NoFloodLoops ShortIds
