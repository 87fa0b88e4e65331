SPECIFICATION Spec
CONSTANTS
    r1 = r1  r2 = r2  none = none
    Readers = {r1, r2}
    ReadKeys = {0,1}
    Pairs <- MCPairs
    Hash <- HashOf
    MaxEntries = 4
    ScanRange = 2
    Fillings <- MCFillings
    Batches <- MCBatches
    MaxVersion = 12
    ReadVersion = 4
    NoReader = none
SYMMETRY ReaderSymmetry
INVARIANTS SlotsAreAMap
PROPERTIES ValidatedReadsAreExact WritesTakeEffect
CHECK_DEADLOCK FALSE
