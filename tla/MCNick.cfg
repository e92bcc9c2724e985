SPECIFICATION Spec
CONSTANTS
    Preferred <- MCPreferred
    Contested <- MCContested
    Guest <- MCGuest
    NoNick <- MCNoNick
    MaxGen = 2
    MaxSetNick = 1
    MaxEarly = 1
    MaxQueue = 1
INVARIANTS NickAgree ISupportComplete
PROPERTIES Registers PreferredRestored
