SPECIFICATION StartUpSpec
CONSTANTS
    MaxResends = 3
    MaxTyped = 0
    OtherLines = {3, 8}
    Frequency = 1000
    BufferSize = 2
INVARIANTS KeyboardReady ConfigUnharmed
           RightHandler NothingLeftInService AnswersReachInit ByteAnnounced
PROPERTIES InitTerminates KeysArePrinted
