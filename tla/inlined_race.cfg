SPECIFICATION Spec
CONSTANTS
    w1 = w1
    w2 = w2
    w3 = w3
    w4 = w4
    w5 = w5
    Writer = {w1, w2, w3, w4, w5}
    Work <- Mixed
    Existing = 2
    Inlined = {2}
    Apart <- Nobody
    Victims = {}
    Crashes = 0
CHECK_DEADLOCK FALSE
INVARIANTS
    RowsAreFound
