SPECIFICATION FairSpec
CONSTANTS
    api = api
    vps = vps
    r1 = r1
    r2 = r2
    loop = loop
    NoExecutor = NoExecutor
    NoKey = NoKey
    Keys = {k1}
    Slots <- MCSlots
    Executors = {api, vps}
    ExecutorOf <- MCExecutorOf
    Primary = {api, vps}
    Keyed = {r1, r2}
    LeadershipLease = 1
    InvocationLease = 1
    TimeBudget = 1
    BatchSize = 2
    MaxTime = 1
    MaxGeneration = 3
INVARIANTS
    GenerationIsOneBatch
PROPERTIES
    LeadershipIsNotTaken
    ItemsFollowTheNewestLeader
    CompletedInvocationStays
    LapsedLeadershipIsTaken
