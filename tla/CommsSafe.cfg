SPECIFICATION Spec
CONSTANTS
    k1 = k1
    m1 = m1
    m2 = m2
    Source = {k1}
    Message = {m1, m2}
    Of <- MCOf
    Secret = {m2}
    Workspace = {w1, w2}
    Loop = loop
    Web = {web1}
    AutoCurate = TRUE
    MaxDecisions = 2
    MaxFaults = 1
INVARIANTS
    TypeOK
    RevokedForGood
    OnlyGranted
    

    
    
