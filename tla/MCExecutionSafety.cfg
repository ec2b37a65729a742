SPECIFICATION Spec
CONSTANTS
    Owners = {o1, o2}
    Sweepers = {s1}
    NoGen = NoGen
    NoTtl = NoTtl
    MalformedTtl = MalformedTtl
    Ttls = {NoTtl, 1, MalformedTtl}
    TicksPerMs = 1
    Lease = 1
    MaxRetries = 1
    MaxTokens = 1
    MaxTime = 3
SYMMETRY PartySymmetry
INVARIANTS
    TypeOK
    LocalOutcomeIsDurable
    OneWinner
PROPERTIES
    ImplementsContract
CHECK_DEADLOCK FALSE
