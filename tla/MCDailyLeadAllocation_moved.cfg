SPECIFICATION BatchSpec
CONSTANTS
    w1 = w1
    w2 = w2
    email = email
    NoWorker = NoWorker
    NoClaim = NoClaim
    Outboxes = {1, 2}
    Administrative = {}
    Channels <- MCChannels
    ChannelOf <- MCChannelOf
    DailyLimit <- MCDailyLimit
    Workers <- MCWorkers
    ConfiguredMaxAttempts <- MCMaxAttempts
    DailyLeadLimit <- MCDailyLeadLimit
    LeaseLength = 1
    DayLength = 2
    WindowStart = 0
    WindowEnd = 1
    MinSpacing = 0
    RetryBase = 1
    RetryMax = 2
    MaxTime = 2
    MaxCycle = 1
SYMMETRY Symmetry
INVARIANTS
    StartedOnAllocatedDay
