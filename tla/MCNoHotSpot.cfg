SPECIFICATION Spec
CONSTANTS
    w1 = w1  w2 = w2  Bg = Bg
    Workers = {w1, w2}
    Loads <- MCLoads
SYMMETRY Symmetry
INVARIANTS ListShape IndexShape EntriesStay
PROPERTY AnswersLinearize
