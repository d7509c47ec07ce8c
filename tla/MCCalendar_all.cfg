SPECIFICATION MCSpec
CONSTANTS
    s1 = s1  s2 = s2  dev = dev  prod = prod
    Null = Null
    Server = {s1, s2}
    Env = {dev, prod}
    EnvOf <- OneEach
    Instants <- Moments
    TicksPerDay = 2
    PlanDates <- PlanDays
    GivenDates <- WrittenDays
    NSteps = 4
    CertDates <- CertDays
    Dates <- ActivityDays
    Weeks <- Asked
\* Time ends with the last instant: nothing may change after it.
CHECK_DEADLOCK FALSE
INVARIANTS
    TypeOK
    NoGaps
    StepsTile
    WiderShowsMore
    RedIsExpired
    YellowIsListed
PROPERTIES
    PatchedOnRunDay
    TimeOnlyWorsens
