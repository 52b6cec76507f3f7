SPECIFICATION FairSpec
CONSTANTS
    o1 = o1  f1 = f1  f2 = f2
    owner = owner  stranger = stranger  admin = admin
    Orders = {o1}
    Tasks = {f1, f2, owner, admin}
    Kind <- MCKindOf
    OrderOf <- MCOrderOf
    Charge <- MCPaid
    MaxErrors = 1
    MaxCrashes = 1
CHECK_DEADLOCK FALSE
INVARIANTS
    LifecycleInv
PROPERTIES
    ImplementsOrderRecord
    CancelsByRaceOnly
    AcceptedIsFinalizedUnlessError
