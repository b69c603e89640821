SPECIFICATION Spec
CONSTANTS
    left = left
    right = right
    c1 = c1
    c2 = c2
    c3 = c3
    Tab = {left, right}
    Call = {c1, c2, c3}
    TabOf <- MCTabOf
    MaxPairs = 3
    MaxLoads = 1
    MaxLost = 1
    MaxExpired = 1
INVARIANTS
    TypeOK
    WaitersHaveALeader
    ForksNeedTwoPages
    OwnTokenIsGood
PROPERTY
    SignInLasts
SYMMETRY Interchangeable
CHECK_DEADLOCK FALSE
