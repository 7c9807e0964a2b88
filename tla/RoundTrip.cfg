SPECIFICATION SpecBoth
CONSTANTS
  Datasets <- MCDatasets
  RecLens <- MCRecLens
  MaxRecords = 3
  MaxLens = {2}
INVARIANTS WrittenIsWellFormed ReadBack
