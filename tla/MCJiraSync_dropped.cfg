SPECIFICATION Spec
CONSTANTS
    o1 = o1  o2 = o2  r1 = r1  r2 = r2  r3 = r3  j1 = j1  j2 = j2
    Null = Null  Absent = Absent  Idle = Idle
    Org <- TwoOrgs
    Row <- Rows
    Job <- OneJob
    PageSize = 1
    MaxCount = 1
    MaxChanges = 1
SYMMETRY Alike
PROPERTY ListedIsKept
