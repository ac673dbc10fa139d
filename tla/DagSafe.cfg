SPECIFICATION Spec
CONSTANTS
    i1 = i1 i2 = i2 s = s x = x
    Node = {i1, i2, s, x}
    Initial = {i1, i2, s}
    Wave = {x}
    Synth = {s}
    Producing = {i1, i2, s, x}
    needsOf <- Fanout
    LiveNodes = 2
    MaxLives = 1
INVARIANTS TypeOK CompletedMeansSettled NeverUnresolved OneVerdict
PROPERTIES StopFailsNothing 
SYMMETRY Symmetric
CHECK_DEADLOCK FALSE
