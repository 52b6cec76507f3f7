SPECIFICATION WebSpec
CONSTANTS
    Calls = {c1, c2, c3}
    Tabs = {tab1, tab2}
    None = None
SYMMETRY Symmetry
CHECK_DEADLOCK FALSE
INVARIANTS
    BrowserInv
    RevocationsHold
    LogoutEndsSession
    NoTabReusesItsToken
    CookieIsGood
PROPERTIES
    OverStaysOver
