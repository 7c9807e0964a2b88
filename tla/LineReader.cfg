\* Up to four reads, the last one shorter or empty; Lrecl cuts lines that the
\* buffers scatter.
SPECIFICATION LineSpec
CONSTANTS
  REC_LEN = 3
  Lrecl = 4
  Capacity = 2
  MaxSize = 10
INVARIANTS BuffersTypeOK CopiedIffFits CutIsReportedV
PROPERTIES EveryFileEnds
