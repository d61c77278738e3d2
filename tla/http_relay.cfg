SPECIFICATION RelayFairSpec
CONSTANTS
    Scripts <- AllScripts
INVARIANTS RelayTypeOK SameMessages FallbackComplete
PROPERTIES MessageReachesPeer ChunkReachesServer EndOfStream
