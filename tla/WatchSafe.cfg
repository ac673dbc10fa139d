SPECIFICATION Spec
CONSTANTS
    N = 4
    Cloud <- MCCloud
    Broken <- MCBroken
    Unfit <- MCUnfit
    Cap = 2
    Web = {w1}
    MaxAttempts = 5
    MaxFailures = 1
    MaxEvents = 1
INVARIANTS TypeOK CapPerBeat SeenIsDealtWith IngestedOnce
 
CHECK_DEADLOCK FALSE
