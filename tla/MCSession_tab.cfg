SPECIFICATION Spec
CONSTANTS
    c1 = c1  c2 = c2
    None = None
    Call <- TwoCalls
    MaxTokens = 3
INVARIANTS
    TypeOK
    OneRefresh
PROPERTIES
    RefreshKept
    BouncedForGood
    DemotedCannotWrite
    CallsSettle
