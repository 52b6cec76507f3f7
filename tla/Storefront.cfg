SPECIFICATION StorefrontSpec
CONSTANTS
    Calls = {c1, c2, c3}
    Variants = {v1, v2}
    Quantities = {1}
    NoRow = NoRow
    Keys = {k1, k2}
    None = None
    MaxEvents = 4
    MaxFlights = 2
INVARIANTS
    CartInv
    QuietCartIsExact
    QuietStoreIsCart
    OrderedIsShown
SYMMETRY Symmetry
CHECK_DEADLOCK FALSE
