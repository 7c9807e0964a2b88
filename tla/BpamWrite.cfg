SPECIFICATION Spec
CONSTANTS
  Datasets <- MCDatasets
  RecLens <- MCRecLens
  MaxRecords = 4
INVARIANTS TypeOK BlockFits BlockChain MediumChain MediumOrder MemStart
PROPERTIES ImplementsLog
