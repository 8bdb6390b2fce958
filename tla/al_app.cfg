SPECIFICATION FairSpec
CONSTANTS
    main = main
    signal = signal
    Callers = {main, signal}
    Modes = {"plain", "housekeeping", "pool"}
    MaxCalls <- CallBounds
INVARIANTS
    IInv
    QuietAfterClose
PROPERTIES
    TombstoneStands
    CallsReturn
CHECK_DEADLOCK FALSE
