SPECIFICATION Spec
CONSTANTS
    word = word
    plain = plain
    code = code
    name = name
    harm = harm
    folded = folded
    masked = masked
    Phrases = {word, plain, code, name, harm}
    Pattern = {code}
    TitleCase = {name}
    Lexicon = {harm}
    Respelt <- MCRespelt
    Paths <- MCPaths
    Pages <- MCPages
    Histories <- MCHistories
    Editions <- MCEditions
    OnTopic <- MCOnTopic
    Licence <- MCLicence
    Classifiers = {"default", "scout"}
    Readable <- Parsable
    Records <- ParseDocument
    MaxAssemblies = 2
INVARIANTS
    AdmittedIsFit
    OneSnapshot
    RecordsDescribeContract
CHECK_DEADLOCK FALSE
