CONSTANTS
  Urls = {"u", "v", "w"}
  Analysis <- HTTPAnalysis
  Fetcher = "HTTPArticleFetcher"
  Requests = {r1, r2, r3}
  Concurrent = TRUE
  OpenAfter = 2
  Cooldown = 1
  MaxRuns = 2
  MaxTime = 3
SPECIFICATION FairSpec
INVARIANTS RunMatchesWorkflow
PROPERTIES ImplementsLedger
CHECK_DEADLOCK FALSE
