SPECIFICATION Spec
CONSTANTS
    SIZE = 2
    Events <- MCEvents
    NoEvent <- MCNoEvent
    Keys <- MCKeys
    Repeating = {"A", "CAPS_LOCK"}
    MaxLine = 3
PROPERTIES DecodesFaithfully ImplementsKeyQueue
