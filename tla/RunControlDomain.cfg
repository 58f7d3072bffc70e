\* Any clients: three requests on two runs, one key, one restart.
CONSTANTS
    Requests = {q1, q2, q3}
    Runs = {n1, n2}
    Keys = {k1}
    Clusters = {}
    NoRun = NoRun
    NoKey = NoKey
    NoThread = NoThread
    MaxCreates = 3
    MaxRestarts = 1
    MaxDrifts = 0
SPECIFICATION HSpec
SYMMETRY Symmetry
INVARIANTS
    ConflictChecked
    ReplayedCreateIsOneRun
CHECK_DEADLOCK FALSE
