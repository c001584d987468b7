SPECIFICATION Spec
CONSTANTS
  n1 = n1  n2 = n2  n3 = n3
  None = None
  Node = {n1, n2, n3}
  Model = {"qwen-7b"}
  Handle = {"qwen-7b", "qwen"}
  NameMatch <- Matching
  IDMatch <- Matching
  Peers <- Triangle
  Token <- GatedLeaf
  PeerToken <- TokensOfOne
  Secret = {"t"}
  Events = {"roam", "flaky", "pin"}
INVARIANTS TypeOK RouteAdmitted
