SPECIFICATION Spec
CONSTANTS
    Readers = {r1}
    Bytes = {0, 1, 2, 3, 4}
    KeyOf <- MCKeys
    MaxStored = 1
    Capacity <- MCCapacity
    CompactMax <- MCCompactMax
    ShrinkAt <- MCShrinkAt
    Loads <- MCLoads
INVARIANTS TreeIsMap LookupIsNear NullOnlyIfTurned
CHECK_DEADLOCK FALSE
