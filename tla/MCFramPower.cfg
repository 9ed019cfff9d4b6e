SPECIFICATION Spec
CONSTANTS
  limit_addr_top = 16
  Radix = 8
  Cuts = 3
  Telemetry <- MCTelemetry
INVARIANTS TypeOK CutIsAtomicUnlessTorn
PROPERTY PointersHeal
