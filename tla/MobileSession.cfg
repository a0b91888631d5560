SPECIFICATION Spec
CONSTANTS
    Requests = {r1}
    LoginCall = LoginCall
    MeCall = MeCall
    MaxPairs = 2
INVARIANTS
    TypeOK
    SignedOutStaysOut
PROPERTIES
    FreshTokenPerRefresh
    CallsSettleUnlessWedged
CHECK_DEADLOCK FALSE
