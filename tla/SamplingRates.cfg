SPECIFICATION Spec
CONSTANTS
    Slots = 4
    Interval = 4
    Budget = 2
    MaxStall = 6
    MaxTroubles = 3
INVARIANT RatesAreAdjacent
CHECK_DEADLOCK FALSE
