\* Two passes over one restarted pool, fair threads: two workers, three jobs each, a limiter
\* that narrows and widens, every kind of reply, a user who may cancel.
CONSTANTS
  RequestedMax = 2
  MaxParallelRequests = 100
  RaiseAfter = 2
  NumJobs = 3
  Rounds = 2
  Offered = {"Ok", "RateLimited", "Network", "Panicked"}
SPECIFICATION FairSpec
INVARIANTS TypeOK NothingResent ReportedIffSent NothingLeftBehind
PROPERTIES ImplementsJobPool ScanEnds
