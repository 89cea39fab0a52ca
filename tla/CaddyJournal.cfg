SPECIFICATION Spec
CONSTANTS
    Sites = {p1, p2}
    Hosts = {h1, h2}
    MaxDisturbances = 1
SYMMETRY Symmetry
INVARIANTS Revertible LoadsValidated RemovedStaysGone
PROPERTIES WrittenOrTakenBack
