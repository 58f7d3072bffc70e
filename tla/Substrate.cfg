\* Two ingestions, each called at most twice, dying at any step.
CONSTANTS
    r1 = r1
    r2 = r2
    Runs = {r1, r2}
    Corpora <- MCCorpora
    Queries <- MCQueries
    HashRank <- MCHashRank
    Lexical <- MCLexical
    Semantic <- MCSemantic
    MaxTokens = 4
    Overlap = 30
    MaxAttempts = 2
SPECIFICATION Spec
INVARIANTS
    SearchIsSettled
    RecordsAreIndexed
    CorpusIsSearchable
CHECK_DEADLOCK FALSE
