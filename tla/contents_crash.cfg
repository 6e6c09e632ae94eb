SPECIFICATION Spec
CONSTANTS
  Contents = {m, n}
  Suffixes = {1, 2, 3, 4, 5, 6}
  ContentKey <- OwnKeys
  Server = "S"
  Relays = {"A", "B", "P"}
  Pops = {"P"}
  Clients = {C1, C2}
  NoClient = "none"
  Announces <- DiamondAnnounces
  Wants <- WantsOwn
  Available = {m, n}
  MayEnd = {}
  MayCrash = {"A"}
  MaxRefresh = 0
  DialPorts = {2, 3, 4, 5}
CHECK_DEADLOCK FALSE
SYMMETRY ClientsWithContents
INVARIANT ClientsGetTheirContent
PROPERTY FlowsOnDemand
