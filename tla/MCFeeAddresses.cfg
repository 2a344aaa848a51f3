CONSTANTS
    k1 = k1
    k2 = k2
    k3 = k3
    Keys = {k1, k2, k3}
    FirstKey = k1
    InvalidChild <- Invalid
    Requests = {q1, q2}
    MaxIndex = 8
    Stopped = Stopped
SPECIFICATION Spec
SYMMETRY RequestSymmetry
INVARIANTS
    AddressTypeOK
    HandedRecoverable
PROPERTIES
    RetiredStays
    AddressesFresh
