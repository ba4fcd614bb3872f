SPECIFICATION Spec
CONSTANTS
    MaxClients = 2
    Faulty = {1}
    Modes <- MCModes
INVARIANTS
    TypeOK
    NeverMismatched
    FlagTruthful
    NoStandstill
    EndToldOnce
    EndIsTrue
    EndToldElsewhere
PROPERTIES
    PurelySequential
    MatchEnds
    UsesControl
    ExchangeSpec
