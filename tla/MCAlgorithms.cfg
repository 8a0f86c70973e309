SPECIFICATION AlgorithmsSpec
CONSTANTS
    Outside = Outside
    HashSize = 1024
    Audiences = {0, 1, 2, 3, 50, 99, 100}
    Weights = {0, 1, 33, 34, 50, 66, 99, 100}
    MaxVariants = 4
    Rows <- MCRows
    Quantile <- MCQuantile
    NaN = NaN
    Values <- MCValueSet
    Variants <- MCVariants
    Metrics <- MCMetrics
    MaxSource = 4
    MaxRule = 7
    MaxMetric = 9
    MaxFilter = 14
    One = 4
    Precision = 2
    MaxRows = 3
INVARIANTS
    SharesAreAsked
    LexemesAreOfTheGrammar
    ParsersFollowGrammars
    
    FiguresAgree
CHECK_DEADLOCK FALSE
