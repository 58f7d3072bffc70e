\* Any clients: one run, and two requests that compete for its lock.
CONSTANTS
    Requests = {q1, q2, q3}
    Runs = {n1}
    Keys = {}
    Clusters = {}
    NoRun = NoRun
    NoKey = NoKey
    NoThread = NoThread
    MaxCreates = 1
    MaxRestarts = 0
    MaxDrifts = 1
SPECIFICATION FairHSpec
INVARIANTS
    SingleWriterUnlessRaced
    NoLostUpdate
    JournalGapFree
PROPERTIES
    EveryRequestAnswered
CHECK_DEADLOCK FALSE
