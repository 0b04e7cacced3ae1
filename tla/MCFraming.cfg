CONSTANTS
    Word = 8
    MaxFrame = 6
    Requests <- MCRequests
    Payloads <- MCPayloads
    Strange <- MCStrange
    MaxSent = 2
    Arrivals = {1, 2, 6}
SPECIFICATION FairSpec
INVARIANTS NoSliceOutside MessagesIntact
PROPERTIES FramesHandled
