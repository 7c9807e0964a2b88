SPECIFICATION Spec
CONSTANTS
  a = a
  b = b
  c = c
  Files = {a, b, c}
  Table <- MCTable
  MaxLines = 2
INVARIANTS CopiedIsComplete FilesKeptApart EveryFileTried
PROPERTIES CopyEnds
