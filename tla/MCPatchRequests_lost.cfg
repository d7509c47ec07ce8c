SPECIFICATION Spec
CONSTANTS
    w1 = w1  w2 = w2  e1 = e1  e2 = e2
    Worker <- TwoWorkers
    Exec <- OneRow
    Ops <- Marking
    Faults = FALSE
    MaxSteps = 2
    MaxAborts = 0
INVARIANT NeverStuckDone
