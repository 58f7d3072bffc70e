SPECIFICATION Spec
CONSTANTS
    word = word
    plain = plain
    code = code
    name = name
    harm = harm
    folded = folded
    masked = masked
    Phrases = {word, plain, code, name, harm}
    Pattern = {code}
    TitleCase = {name}
    Lexicon = {harm}
    Respelt <- MCRespelt
    Paths <- MCPaths
    Pages <- MCPages
    Histories <- MCRepeats
    Editions <- MCOneEdition
    OnTopic <- MCOnTopic
    Licence <- MCPermitted
    Classifiers = {"default"}
    Readable <- Parsable
    Records <- ParseDocument
    MaxAssemblies = 2
INVARIANTS
    CorpusHashIsStable
CHECK_DEADLOCK FALSE
