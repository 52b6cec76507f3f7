SPECIFICATION Spec
CONSTANTS
    o1 = o1  f1 = f1  f2 = f2
    owner = owner  stranger = stranger  admin = admin
    Orders = {o1}
    Tasks = {f1, owner}
    Kind <- MCKindOf
    OrderOf <- MCOrderOf
    Charge <- MCPaid
    MaxErrors = 0
    MaxCrashes = 0
PROPERTY
    CustomersCancelOnlyPending
CHECK_DEADLOCK FALSE
