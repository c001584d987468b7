SPECIFICATION CalmSpec
CONSTANTS
  None = None
  Node = {1, 2}
  Model = {"m"}
  TTL = 1
  Late = 1
  Grants <- TwoOrOne
  Revocable = {1}
  Events = {"slots", "restart", "loss", "stall"}
INVARIANTS TypeOK OnlyContributors
PROPERTIES KeepsRoutes Converges
