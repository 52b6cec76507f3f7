SPECIFICATION AccountsSpec
CONSTANTS
    Requests = {r1, r2}
    Verifies = {v1, v2, v3}
    None = None
    MaxAttempts = 2
    RequestLimit = 1
    Registers = {h, g1}
    Seeds = {s1, s2}
    Logins = {n1}
    Assigns = {a1, a2}
    Holder = h
    Forms <- MCForms
    AdminForm <- MCAdminForm
    MaxCodes = 4
    MaxCalls = 3
    MaxMixed = 2
SYMMETRY Symmetry
CHECK_DEADLOCK FALSE
INVARIANTS
    OtpInv
    AttemptsAreItsOwn
    AccountsInv
    RegisteredCanLogIn
    AdminIsAlone
    RolesAsAssigned
