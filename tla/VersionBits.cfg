SPECIFICATION Spec
CONSTANTS
    NoBlock = NoBlock
    Blocks <- MCBlocks
    Parent <- MCParent
    Outdated <- MCOutdated
    Indexed <- AllButLast
    Histories <- MCHistories
    nPeriod = 2
    nThreshold = 2
INVARIANTS
    TypeOK
    AnswersAreBIP9
    StatisticsTell
PROPERTIES
    DeployedOnlyWhenActive
