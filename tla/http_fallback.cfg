SPECIFICATION RelaySpec
CONSTANTS
    Scripts <- Handovers
INVARIANTS FallbackExact
