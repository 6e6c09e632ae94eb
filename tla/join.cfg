SPECIFICATION FairSpec
CONSTANTS
  Contents = {"m"}
  Suffixes = {1, 2, 3, 4, 5, 6}
  ContentKey <- OwnKeys
  Server = "S"
  Relays = {"A", "B", "P"}
  Pops = {"P"}
  Clients = {"C1"}
  NoClient = "none"
  Announces <- LinkedAnnounces
  Wants <- WantsM
  Available = {"m"}
  MayEnd = {}
  MayCrash = {}
  MaxRefresh = 0
  DialPorts = {2, 3, 4, 5}
CHECK_DEADLOCK FALSE
INVARIANT BranchHeldUpstream
PROPERTY EveryClientFed
