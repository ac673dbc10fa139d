SPECIFICATION FairSpec
CONSTANTS
    c1 = c1 c2 = c2 c3 = c3 c4 = c4 w1 = w1 w2 = w2 w3 = w3 w4 = w4 k1 = k1 k2 = k2
    m1 = m1 g1 = g1 g2 = g2 NoCeiling = NoCeiling NoGate = NoGate Gate = {g1, g2}
    Chief = {c1}
    Worker = {w1, w2}
    Nested = {k1}
    Comms = {m1}
    boss <- SoloBoss
    host <- SoloHost
    MinLiveSeats = 2
    HardMax = 3
    UserPrefs = {9}
    Ceilings = {NoCeiling, 0}
INVARIANT NoHolderWedge
PROPERTIES SeatGranted 
CHECK_DEADLOCK FALSE
