SPECIFICATION Spec
CONSTANTS
    Handlers = {h1, h2}
    Deliveries = {d1, d2}
    Known = {d1}
    Contents = {c1, c2}
    Codes = {timeout, conflict}
    Conflict = conflict
    Budget = 2
    MaxOps = 3
    MaxDeaths = 1
CHECK_DEADLOCK FALSE
INVARIANTS Consistent InsertedOnce
PROPERTY StoredIsImmutable
SYMMETRY HandlerSymmetry
