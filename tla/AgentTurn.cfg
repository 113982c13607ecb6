CONSTANTS
  Paths = {"a", "b", "c"}
  Tools = {"external.web_search", "artifact.export", "database.company_update"}
  Loaded <- MCLoaded
  Searches = {"external.web_search"}
  ModelInputs <- MCInputs
  Plans <- MCPlans
  MaxEdits = 1
SPECIFICATION MCSpec
INVARIANTS OpenWriteIsNotAnswered CardMatchesCall StepsMatchLog SkillPoliciesHold
PROPERTIES ChangedAsApproved
CHECK_DEADLOCK FALSE
