SPECIFICATION FairSpec
CONSTANTS
  QueueLength = 2
  CountWrap = 2
  Requests <- MCRequests
  Counts <- MCCounts
  Dwells <- MCDwells
  Caps <- MCCaps
INVARIANTS CycleInv SafeAtRest HeatBounded CutoffEndsBatch OnlyAStopLeavesACase
PROPERTIES ImplementsBatch StopEndsRun
