CONSTANTS
  Urls = {"u", "v"}
  Analysis <- WeChatAnalysis
  Fetcher = "WeChatArticleFetcher"
  Requests = {r1}
  Concurrent = FALSE
  OpenAfter = 2
  Cooldown = 1
  MaxRuns = 4
  MaxTime = 2
SPECIFICATION Spec
INVARIANTS UrlImportedOnce CircuitCanClose
CHECK_DEADLOCK FALSE
