SPECIFICATION Spec
CONSTANTS
    w1 = w1  w2 = w2  e1 = e1  e2 = e2
    Worker <- TwoWorkers
    Exec <- TwoRows
    Ops <- Activating
    Faults = FALSE
    MaxSteps = 1
    MaxAborts = 2
SYMMETRY BothAlike
INVARIANTS OneActive AttemptsNumbered
