SPECIFICATION HistorySpec
CONSTANTS
    w1 = w1  e1 = e1
    Worker <- OneWorker
    Exec <- OneRow
    Ops <- AllOps
    Faults = TRUE
    MaxSteps = 2
    MaxAborts = 1
INVARIANT TypeOK
PROPERTY RefinesPatchRun
