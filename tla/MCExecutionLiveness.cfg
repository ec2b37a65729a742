SPECIFICATION FairSpec
CONSTANTS
    Owners = {o1}
    Sweepers = {s1}
    NoGen = NoGen
    NoTtl = NoTtl
    MalformedTtl = MalformedTtl
    Ttls = {NoTtl}
    TicksPerMs = 2
    Lease = 2
    MaxRetries = 1
    MaxTokens = 1
    MaxTime = 5
INVARIANTS
    CompletedTailIsDurable
PROPERTIES
    LiveLeaseIsNotRecovered
    RenewalIsVisible
    ImplementsFairContract
CHECK_DEADLOCK FALSE
