SPECIFICATION Spec
CONSTANTS
    w1 = w1
    w2 = w2
    email = email
    NoWorker = NoWorker
    NoClaim = NoClaim
    Outboxes = {1, 2}
    Administrative = {}
    Channels <- MCChannels
    ChannelOf <- MCChannelOf
    DailyLimit <- MCTwoPerDay
    Workers <- MCWorkers
    ConfiguredMaxAttempts <- MCSameAttempts
    LeaseLength = 2
    DayLength = 4
    WindowStart = 0
    WindowEnd = 3
    MinSpacing = 2
    RetryBase = 1
    RetryMax = 2
    MaxTime = 3
    MaxCycle = 1
SYMMETRY Symmetry
INVARIANTS
    StartsSpaced
PROPERTIES
    ImplementsLedger
