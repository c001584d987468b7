SPECIFICATION ServableSpec
CONSTANTS
  s1 = s1  p1 = p1  p2 = p2  p3 = p3
  None = None
  Slot <- OneSlot
  Port = {9100}
  PortOf <- OnePort
  Proc <- TwoProcs
  Stopper = {"unload"}
  BackoffLimit = 3
PROPERTY AutoRestart
