SPECIFICATION FairSpec
CONSTANTS
    k1 = k1
    k2 = k2
    Keys <- TwoKeys
    TVKeys <- OneTvKey
    NoKey = NoKey
    MaxFaults = 1
    MaxCrashes = 1
INVARIANTS
    TypeOK
    StatusAndJournalAgree
PROPERTIES
    JournalRowKept
    ExecutedAtMostOnce
    ReceivedIsSettled
