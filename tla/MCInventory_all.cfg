SPECIFICATION Spec
CONSTANTS
    s1 = s1  s2 = s2  prod = prod  base = base  app = app  r1 = r1  r2 = r2
    None = None  Absent = Absent  Idle = Idle
    MaxDeleted = 1
    Server <- Servers
    Env = {prod}
    Basket = {base}
    Software = {app}
    Release <- Releases
    EnvOf <- InProd
    ReleaseOf <- OfApp
SYMMETRY Alike
CONSTRAINT DeletedBetweenRequests
INVARIANTS
    TypeOK
    OneLatest
    YesMeansCheckFinds
    RollupsAgree
    HistoryIsTrue
PROPERTIES
    RecordedStateWins
    FinalizedIsNotStale
    PeersAnswerAlike
