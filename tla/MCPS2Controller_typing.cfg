\* A key is pressed during the initialisation, which ends.
SPECIFICATION TypingSpec
CONSTANTS
    MaxResends = 0
    MaxTyped = 1
INVARIANT KeyboardReady
CHECK_DEADLOCK FALSE
