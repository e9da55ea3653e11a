CONSTANTS
    k1 = k1
    k2 = k2
    k3 = k3
    h1a = h1a
    h1b = h1b
    h2 = h2
    h3 = h3
    Hash = {h1a, h1b, h2, h3}
    Key = {k1, k2, k3}
    KeyOf <- MCKeyOf
    Request = {r1, r2, r3, r4}
    MaxAcceptances = 2
    MaxRestarts = 1
    None = None
SPECIFICATION Spec
SYMMETRY RequestSymmetry
INVARIANTS FilesAccounted ReplaysAreHarmless
CHECK_DEADLOCK FALSE
