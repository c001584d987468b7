SPECIFICATION Spec
CONSTANTS
  p1 = p1
  p2 = p2
  Pull = {p1, p2}
  Tag = {1, 2}
  Needed <- Archives
  Has <- OfRelease
  Contents <- InArchive
  Server = "llama-server"
  NoTag = NoTag
  NoModel = "none"
  NoSpec = NoSpec
  Gguf <- Files
  Contains <- Handles
  ConfigFile <- Confs
  Scan <- Scans
  UrlPort = 18020
  Reaps = FALSE
  Nothing = Nothing
SYMMETRY Pulls
INVARIANTS TypeOK PassesWhole ServesWhole  PortsApart ChoosesNewest
