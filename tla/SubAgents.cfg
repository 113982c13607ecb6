SPECIFICATION MCSpec
CONSTANTS
  Delegs = {d1}
  Requested = {"page", "click", "list", "query", "read", "write", "skill", "mail"}
  Registered = {"page", "click", "list", "query", "read", "write", "skill", "mail"}
  Chrome = {"page", "click"}
  Dbx = {"list", "query"}
  Mail = {"mail"}
  Discovery = "list"
  SkillTools = {"skill"}
  FileReads = {"read"}
  FileWrites = {"write"}
  Confirm = {"click", "write"}
  Caps = {"agent.google_chrome", "agent.dbx_readonly", "agent.qq_mail_readonly", "skill.filesystem", "resume.tailor", "external.web_search", "application.find_apply_entry"}
  MaxCalls = 3
  MaxItems = 2
  Parts = {"delegation", "gateway"}
  Turns = {t1, t2}
  ServerTools = {"query"}
  Declarations <- MCDeclarations
  CacheTTL = 2
  MaxClock = 2
  MaxSessions = 2
INVARIANTS EvidenceBacksSuccess ApprovedCallsOnly DiscoveryFirst ServedTasksNotRepeated EnvironmentKept RefusalsAreFresh
PROPERTIES EveryDelegationAnswers EveryMcpCallAnswers
CHECK_DEADLOCK FALSE
