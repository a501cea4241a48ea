CONSTANTS
    op1 = op1
    e1 = e1
    Ops = {op1}
    Senders = {e1}
    MaxTime = 2
    MaxSequence = 4
    MaxResults = 1
    PollAnswers = {TRUE, FALSE}
    SoftEnabled = TRUE
    MaxSignals = 2
SPECIFICATION LoopFairSpec
PROPERTIES
    
    EveryOpHandled
    SignalEndsServer
