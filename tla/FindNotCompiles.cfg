SPECIFICATION AlgorithmsSpec
CONSTANTS
    Outside = Outside
    HashSize = 1024
    Audiences = {0}
    Weights = {100}
    MaxVariants = 4
    Rows <- MCRows
    Quantile <- MCQuantile
    NaN = NaN
    Values <- MCValueSet
    Variants <- MCVariants
    Metrics <- MCMetrics
    MaxSource = 1
    MaxRule = 2
    MaxMetric = 1
    MaxFilter = 1
    One = 4
    Precision = 2
    MaxRows = 1
INVARIANTS
    RulesCompile
CHECK_DEADLOCK FALSE
