SPECIFICATION FairSpec
CONSTANTS
    u1 = u1
    u2 = u2
    NoUrl = NoUrl
    Urls = {u1, u2}
    FirstUrls = {NoUrl, u1}
    MaxTasks = 2
    MaxChanges = 1
    MaxRuns = 2
    MaxCrashes = 1
INVARIANT TypeOK
INVARIANT OneUpdateUnlessOverlapped
INVARIANT UpdatesAreProcessed
INVARIANT LatestWinsUnlessOverlapped
INVARIANT TrustedUnlessOverlapped
PROPERTY BecomesReadyUnlessCleared
CHECK_DEADLOCK FALSE
