SPECIFICATION Spec
CONSTANTS
  Smdes <- MCSmdes
  MaxEntries = 3
  MaxBuffers = 2
INVARIANTS StringsOwnedOnce ListsWhatItCan
PROPERTY ImplementsDirStream
