SPECIFICATION StatsSpec
CONSTANTS
  FirstDays <- MCFirstDays
  LaterDays <- MCLaterDays
  Times <- MCTimes
  Lines <- MCLines
  MaxReads = 2
INVARIANTS CreatedIsKept ChangedIsTold StatsAreKept
