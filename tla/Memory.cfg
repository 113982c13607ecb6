SPECIFICATION Spec
CONSTANTS
    Requests = {r1, r2}
    NoRequest = NoRequest
    Tools = {search}
    LowRisk = {search}
    MaxMessages <- MCMaxMessages
    MaxSummaries = 2
    MaxCandidates <- MCMaxCandidates
    MaxClock <- MCMaxClock
    MaxTurns = 2
    ListLimit = 5
    MaxRecent = 4
    Window = 3
    Reserve = 1
    Keep = 1
    Keeps = {0, 2}
    Others = {0, 1}
INVARIANTS ContextIsPaired NothingForgotten PreferencesLearnt LessonsMerged
SYMMETRY Symmetry
