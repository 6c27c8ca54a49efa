SPECIFICATION StoreSpec
CONSTANTS
  r1 = r1
  r2 = r2
  c1 = c1
  c2 = c2
  Record = {r1, r2}
  Handler = {c1}
  Sweeper = c2
  NoCaller = NoCaller
  Capacities = {1, 2}
  QueueCapacity = 2
  MaxLines = 1
  MaxCrashes = 1
INVARIANTS ErasedIsNowhere VectorsOutliveRecords
PROPERTIES ExpiredNeverReturns
SYMMETRY RecordSymmetry
