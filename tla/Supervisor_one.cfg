SPECIFICATION FairSpec
CONSTANTS
  s1 = s1  p1 = p1  p2 = p2  p3 = p3
  None = None
  Slot <- OneSlot
  Port = {9100}
  PortOf <- OnePort
  Proc <- ThreeProcs
  Stopper = {"unload", "stopAll"}
  BackoffLimit = 2
INVARIANTS TypeOK OneProcess StopComplete HealthyServes
PROPERTIES StopEnds Recovers KeepsLifecycle
