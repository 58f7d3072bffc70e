SPECIFICATION MappingSpec
CONSTANTS
    Irs <- MCIrs
    Specs <- MCSpecs
    CanonicalTypes <- MCCanonicalTypes
    N = 2
    Seeds <- MCSeeds
    Days <- MCDays
    CaseMode <- MCCaseMode
    Numerals <- MCNumerals
    Offset <- MCOffset
    Patterns <- MCPatterns
    Templates <- MCTemplates
INVARIANTS
    NoSilentLoss
    PassedPlansReverse
    TypeInferenceSound
    CompiledMapsDecide
