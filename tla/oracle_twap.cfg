SPECIFICATION Spec
CONSTANTS
  Prices = {7, 11}
  Scale = 77
  NanosPerSecond = 2
  Periods = {1, 2, 3}
  BufferDepth = 3
  MaxTime = 10
INVARIANTS TypeOK CheckpointsExact NeverStuck FullHistory RangeAverages
