\* Any clients: three requests on one run, one restart, one corpus drift.
CONSTANTS
    Requests = {q1, q2, q3}
    Runs = {n1}
    Keys = {}
    Clusters = {c1}
    NoRun = NoRun
    NoKey = NoKey
    NoThread = NoThread
    MaxCreates = 1
    MaxRestarts = 1
    MaxDrifts = 1
SPECIFICATION Spec
SYMMETRY Symmetry
INVARIANTS
    TypeOK
    SynthesisIsRatified
    JournalAccountsForStore
PROPERTIES
    ImplementsLifecycle
    NothingRatifiedOnMovedCorpus
    OrphanOnlyPausesAndResumes
CHECK_DEADLOCK FALSE
