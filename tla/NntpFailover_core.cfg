SPECIFICATION FSpec
CONSTANTS
    P1 = P1  P2 = P2
    Provs = {P1, P2}
    Order <- MCOrder
    Max <- OneEach
    Ids = {1, 2}
    Hands <- MCHands
    Nil = Nil
    Callers = {a1, a2}
    Workers = {}
    Backbone <- SharedBackbone
    Retries = 0
    Faults = {"reap"}
SYMMETRY CallerSymmetry
INVARIANTS
    SlotsAccounted
    NoSlotLeak
CHECK_DEADLOCK FALSE
