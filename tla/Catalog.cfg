SPECIFICATION Spec
CONSTANTS
    Admins = {a1, a2}
    Readers = {r}
    Variants = {v1, v2}
    Offered = {v1}
    Prices = {p, q}
    FirstPrice = p
    NoPrice = NoPrice
    Unborn = Unborn
    Gone = Gone
    Absent = Absent
CHECK_DEADLOCK FALSE
INVARIANTS
    CatalogInv
    StaleHasCause
    EditsHold
