SPECIFICATION Spec
CONSTANTS
  Datasets <- MCDatasets
  MaxLens = {1, 3}
  MaxReads = 8
INVARIANTS CursorInBlock
PROPERTIES ImplementsCursor LoopsEnd
