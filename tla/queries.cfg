\* Two jobs, one stream, one listing at a time; pages of one and two rows.
SPECIFICATION FairSpec
CONSTANTS
    j1 = j1
    j2 = j2
    Job = {j1, j2}
    NoJob = NoJob
    MaxAttempts <- MCMaxAttempts
    Stamp <- MCStamp
    Stream = {s1}
    PageSizes <- MCPageSizes
    DefaultPage = 1
    MaxPage = 2
    StateFilters <- MCFilters
    Among <- MCAmong
INVARIANTS
    TypeOK
    EndTellsOutcome
    ListingComplete
    RepeatsBounded
PROPERTIES
    FinalReplyStable
    OutcomeDelivered
    WatchKeepsUp
