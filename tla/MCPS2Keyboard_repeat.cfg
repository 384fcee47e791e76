\* A Shift key is held until it repeats.
SPECIFICATION Spec
CONSTANTS
    SIZE = 2
    Events <- MCEvents
    NoEvent <- MCNoEvent
    Keys = {"A", "LSHIFT"}
    Repeating = {"A", "LSHIFT"}
    MaxLine = 3
PROPERTY DecodesFaithfully
