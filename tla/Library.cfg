SPECIFICATION MCSpec
CONSTANTS
    Key <- MCKey
    hash <- MCHash
    Value = {d1, d2, d3}
    Node = {d1, d2, d3}
    Item = {x, y}
    Size = 2
    MaxChain = 4
    Char = {c, d}
    Chunk = 2
    MaxLen = 6
    Address = {n1, n2, n3, n4}
    Null = Null
    DescMax = 2
SYMMETRY Addresses
INVARIANTS EveryKeyFound ListsWhole StringsKept RequestsJudged
PROPERTIES KeptUntilRemoved ImplementsSequencing
CHECK_DEADLOCK FALSE
