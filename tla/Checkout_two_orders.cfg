SPECIFICATION Spec
CONSTANTS
    c1 = c1  c2 = c2  c3 = c3
    u1 = u1
    k1 = k1  k2 = k2
    None = None
    Calls = {c1, c2, c3}
    Keys = {k1, k2}
    Users = {u1}
    Lines = {l1}
    UserOf <- MCUserOf
    KeyOf <- MCKeyOf
    LockOutlivesCheckout = FALSE
INVARIANT
    OneOrderPerKey
CHECK_DEADLOCK FALSE
