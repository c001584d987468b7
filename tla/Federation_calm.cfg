SPECIFICATION CalmSpec
CONSTANTS
  n1 = n1  n2 = n2  n3 = n3
  None = None
  Node = {n1, n2}
  Model = {"m"}
  Handle = {"m", "x"}
  NameMatch <- NickName
  IDMatch <- NickName
  Peers <- Mutual
  Token <- Open
  PeerToken <- NoTokens
  Secret = {}
  Events = {"slots", "roam", "fallback", "flaky", "pin"}
PROPERTIES Converges Answered RoutesEnd
