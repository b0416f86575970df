SPECIFICATION MCSpec
CONSTANTS
  Template <- MCTemplate
  maxPort = 6
  Limit = 3
  MaxOthers = 2
  EditPort = {2, 7}
  CutPort = {1}
  Undecided = {2, 3}
  MaxActive = 2
  Installer = {r1}
  Release = {protoc, timestamp, empty}
  Binary = protoc
  Absent = Absent
  MaxFaults = 3
INVARIANTS
  ToolsTypeOK
  Usable
  Settles
  MatchesReference
  AcceptedIsWhole
  RepairsItself
PROPERTIES
  RunningStackKept
