SPECIFICATION FairSpec
CONSTANTS
    P1 = P1  P2 = P2
    Provs = {P1, P2}
    Order <- MCOrder
    Max <- OneEach
    Ids = {1, 2}
    Hands <- MCHands
    Nil = Nil
    Callers = {a1}
    Workers = {w1}
    Backbone <- SharedBackbone
    Retries = 0
    Faults = {"close", "deadline", "panic", "decode"}
INVARIANTS
    ConnBound
    OneOwner
PROPERTIES
    UsesPool
    CallReturns
