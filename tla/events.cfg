SPECIFICATION FairSpec
CONSTANTS
    Feed <- MCFeed
    Workers = {w1, w2}
    BatchMax = 2
    MaxFaults = 2
INVARIANTS OneWriterPerRepository ProviderOrder AcknowledgedIsDurable SequencesFollowFeed
PROPERTY EveryEventHandled
