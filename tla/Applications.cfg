CONSTANTS
  Requests = {r1}
  Mails = {m, n}
  Companies = {{1}, {1, 2}}
  Titles = {{1}}
  Statuses = {"applied", "offer"}
  MatchLimit = 1
  MaxApps = 2
  MaxEvents = 4
  Starts = {0, 3}
  Deadlines = {0, 2}
  Offsets = {0, 1}
  Zones = {0}
SPECIFICATION MCSpec
SYMMETRY Symmetry
INVARIANTS TimelineTellsStatus MailAppliedOnce RejectedNeverApplied TimesOrdered
PROPERTIES MailJoinsApplication
CHECK_DEADLOCK FALSE
