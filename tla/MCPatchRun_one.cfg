SPECIFICATION Spec
CONSTANTS
    e1 = e1  e2 = e2  prod = prod
    Exec <- Rows
    Env <- OneEnv
    EnvOf <- AllInProd
    MaxSteps = 2
    MaxAborts = 1
SYMMETRY RowsAlike
CONSTRAINT OneGivenUp
INVARIANT ClockMatchesSteps
PROPERTIES
    StatusPartsByClient
    RunningKeepsSnapshot
    DriftsOnlyInFlight
