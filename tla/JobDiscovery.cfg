CONSTANTS
  Requests = {r1, r2}
  Ids = {s1, s2}
  Names = {"a", "b"}
  Kinds = {"university", "wechat", "official"}
  OfferioName = "b"
  MaxItems = 1
  Statuses = {"verified", "expired"}
  MaxCommits = 3
SPECIFICATION MCSpec
SYMMETRY Symmetry
INVARIANTS SucceededRunIsComplete PagesComplete
PROPERTIES JobOfLeadIsFinal
CHECK_DEADLOCK FALSE
