SPECIFICATION CalmSpec
CONSTANTS
  n1 = n1  n2 = n2  n3 = n3
  None = None
  Node = {n1, n2}
  Model = {"coder-7b", "coder-32b"}
  Handle = {"coder-7b", "coder-32b", "coder"}
  NameMatch <- Aliases
  IDMatch <- NoMatch
  Peers <- Mutual
  Token <- Open
  PeerToken <- NoTokens
  Secret = {}
  Events = {"pin"}
PROPERTY NoEndlessLoop
