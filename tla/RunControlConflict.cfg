\* Two creates at once.
CONSTANTS
    Requests = {q1, q2}
    Runs = {n1, n2}
    Keys = {k1}
    Clusters = {c1}
    NoRun = NoRun
    NoKey = NoKey
    NoThread = NoThread
    MaxCreates = 2
    MaxRestarts = 0
    MaxDrifts = 0
SPECIFICATION Spec
INVARIANTS
    OneActiveRun
CHECK_DEADLOCK FALSE
