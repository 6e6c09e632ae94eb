SPECIFICATION Spec
CONSTANTS
  Relays = {"A", "B"}
  Clients = {"C1", "C2"}
  Branch = {"m-1", "m-2"}
  Routes <- TwoRoutes
  Out <- Tree
  LastFrame = 3
  SeqMod = 4
CHECK_DEADLOCK FALSE
INVARIANT OneHeader
