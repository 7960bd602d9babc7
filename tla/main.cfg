SPECIFICATION Spec
CONSTANTS
    MaxQueue = 2
    MaxDialogs = 1
    MaxTimers = 1
INVARIANTS
    FlagsAreFresh
    OursOffersStop
    IdentityNeedsConnection
    ButtonIsPending
