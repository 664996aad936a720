\* Requests that do not overlap, authors the AI does not publish, and a worker
\* that is never killed.
SPECIFICATION FairSpec
CONSTANTS
    Pubs = {p1}
    Texts = {t1}
    DigestTexts = {}
    Verifiable = {}
    Clients = {c1}
    Workers = {w1}
    MaxRevision = 2
    MaxAttempts = 2
    Crashes = FALSE
    None = None
INVARIANT
    SchedulerRuns
PROPERTIES
    ScheduledIsPublished
    QueuesSettle
