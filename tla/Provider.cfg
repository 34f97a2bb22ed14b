\* Any of the three adapters, and answers of up to three events.
CONSTANTS
    MaxEvents = 3
    MaxTokens = 2
    MaxLines = 4
SPECIFICATION FairSpec
INVARIANTS
    EofMeansWhole
    RelayedInOrder
    BlameIsEarned
    BodyReleased
PROPERTIES
    RecvReturns
