SPECIFICATION Spec
CONSTANTS
    k1 = k1
    k2 = k2
    Keys <- TwoKeys
    TVKeys <- OneTvKey
    NoKey = NoKey
    MaxFaults = 0
    MaxCrashes = 0
INVARIANT
    ExecutedRowIsNotDuplicate
