SPECIFICATION Spec
CONSTANTS
  c1 = c1  c2 = c2
  None = None
  Client = {c1, c2}
  Inst = {1, 2, 3, 4}
  Name = {"qwen", "big"}
  Slot <- Slots
  MatchesID <- Matching
  Fragile <- Doubtful
  Profile <- Layouts
  Boot <- BootOne
  BasePort = 9100
  Requests = {"load", "unload", "unloadAll", "ensure", "profile"}
INVARIANTS TypeOK Consistent NoLeak AutoPorts
PROPERTIES SwapClean ProfileExact
