SPECIFICATION FairSpec
CONSTANTS
  NumEngines = 2
  WorkersPerEngine = 1
  MaxStep = 2
INVARIANTS TypeOK NoOversubscription MappingIsLive ServesOneStep SignalsConsumed
PROPERTIES Completes ImplementsExchange
