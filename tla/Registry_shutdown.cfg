SPECIFICATION FairSpec
CONSTANTS
  c1 = c1  c2 = c2
  None = None
  Client = {c1}
  Inst = {1, 2}
  Name = {"qwen", "vllm"}
  Slot <- SlotsAndVllm
  MatchesID <- Matching
  Fragile <- Doubtful
  Profile <- Served
  Boot <- BootBoth
  BasePort = 9100
  Requests = {"load", "unload", "ensure", "profile", "stopAll"}
INVARIANT MemoAgrees
PROPERTIES UnloadStops PollerEnds MirrorsUpstream
