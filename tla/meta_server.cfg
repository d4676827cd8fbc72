SPECIFICATION Spec
CONSTANTS
  NumClients = 3
  MaxRetries = 2
  MaxTimeouts = 2
INVARIANTS TypeOK UniqueIds AddsAccumulate BarrierSafe
