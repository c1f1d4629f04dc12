SPECIFICATION ReportingSpec
CONSTANTS
  t1 = t1
  t2 = t2
  Threads = {t1, t2}
  NoThread = NoThread
  Threshold = 1
  MaxLines = 3
  MaxTime = 1
  Counters <- MCCounters
  NoCounter = NoCounter
  MaxCalls = 2
INVARIANTS LinesKept SizeBound FileUsable CountsExact
PROPERTIES LogReturns
