SPECIFICATION Spec
CONSTANTS
    Writers = {w1, w2}
    Readers = {r1}
    Keys = {1, 2, 3, 4, 5, 6, 7, 8}
    Values = {v}
    NoValue = none
    LeafMax = 2
    InnerMax = 5
    Range = 2
    Loads <- MCLoads
    SetupValue = v0
    MaxVersion = 10
SYMMETRY Symmetry
INVARIANTS TreeIsMap LookupsLinearize ScansAreSnapshots
CHECK_DEADLOCK FALSE
