SPECIFICATION Spec
CONSTANTS
  limit_addr_top <- MCLimit
  Telemetry <- MCTelemetry
INVARIANTS TypeOK RingInv
PROPERTY ImplementsFifo
