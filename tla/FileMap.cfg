SPECIFICATION MapSpec
CONSTANTS
  Bases = 5
  Paths <- MCPaths
  Upper <- MCUpper
  TooLong = {4}
  NoDataset = {20}
  MaxPaths = 4
INVARIANTS TableIsRight OneFilePerMember
