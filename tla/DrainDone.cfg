SPECIFICATION Spec
CONSTANTS
    N = 2
    Rail <- MCRail
    Poll = poll
    Kick = {k1}
    MaxFaults = 1
    MaxDeaths = 1
INVARIANTS DoneMeansCompleted
CHECK_DEADLOCK FALSE
