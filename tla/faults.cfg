SPECIFICATION FairSpec
CONSTANTS
  Contents = {"m"}
  Suffixes = {1, 2, 3, 4, 5, 6}
  ContentKey <- OwnKeys
  Server = "S"
  Relays = {"A", "B", "P"}
  Pops = {"P"}
  Clients = {"C1"}
  NoClient = "none"
  Announces <- ServedAnnounces
  Wants <- WantsM
  Available = {"m"}
  MayEnd = {"m"}
  MayCrash = {"A", "C1"}
  MaxRefresh = 0
  DialPorts = {2, 3, 4, 5}
CHECK_DEADLOCK FALSE
INVARIANTS TypeOK Solicited
PROPERTY RestoredByBackup
