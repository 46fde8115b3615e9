SPECIFICATION FairSpec
CONSTANTS
    Size = 4
    Total = 6
INVARIANT TypeOK
PROPERTIES
    ImplementsStream
    EverySubmissionExecuted
