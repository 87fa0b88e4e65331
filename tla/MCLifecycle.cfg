SPECIFICATION FairSpec
CONSTANTS
    NumNuma = 3
    MaxIndexes = 3
INVARIANTS SearchLayersReady CombinerFindsWorkers NoLayerLeft
PROPERTY StartAndStopEnd
