SPECIFICATION Spec
CONSTANTS
    w1 = w1
    w2 = w2
    email = email
    NoWorker = NoWorker
    NoClaim = NoClaim
    Outboxes = {1, 2}
    Administrative = {}
    Channels <- MCChannels
    ChannelOf <- MCChannelOf
    DailyLimit <- MCOnePerDay
    Workers <- MCWorkers
    ConfiguredMaxAttempts <- MCSameAttempts
    LeaseLength = 1
    DayLength = 3
    WindowStart = 0
    WindowEnd = 2
    MinSpacing = 1
    RetryBase = 1
    RetryMax = 2
    MaxTime = 3
    MaxCycle = 1
SYMMETRY Symmetry
INVARIANTS
    TypeOK
    QuotaExact
    AttemptsExact
    DeadLetterChain
    OutcomeMatchesExecution
PROPERTIES
    LiveLeaseIsExclusive
