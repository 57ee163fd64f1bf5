SPECIFICATION Spec
CONSTANTS
    Keys = {k1, k2, k3}
    Images = {i1, i2}
    Weights = {1, 2, 3}
    Capacity = 3
    MaxBytes = 8
SYMMETRY Symmetry
INVARIANTS
    TypeOK
    ExactAccount
    EvictionSuffices
