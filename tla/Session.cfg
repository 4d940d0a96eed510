SPECIFICATION FairSpec
CONSTANTS
  p1 = p1
  p2 = p2
  c1 = c1
  c2 = c2
  None = None
  Missing = Missing
  Garbled = Garbled
  HUB = "hub"
  Empty = ""
  Processes <- MCProcesses
  Conns <- MCConns
  Diligent <- MCDiligent
  Rosters <- MCRosters
  Hellos <- MCHellos
  StartupMayFail = TRUE
  AuditMayFail = TRUE
INVARIANTS
  TypeOK
  SpeakersAreProved
  GenerationsDoNotInterleave
  AuditTrail
  OneVerbOneAnswer
PROPERTY
  StalledPeersHarmNobody
\* Connections and processes of an instance run out.
CHECK_DEADLOCK FALSE
