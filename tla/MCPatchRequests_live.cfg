SPECIFICATION FairSpec
CONSTANTS
    w1 = w1  w2 = w2  e1 = e1  e2 = e2
    Worker <- TwoWorkers
    Exec <- OneRow
    Ops <- Waiting
    Faults = TRUE
    MaxSteps = 1
    MaxAborts = 0
PROPERTY RequestsFinish
