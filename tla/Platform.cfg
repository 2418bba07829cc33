SPECIFICATION PlatformSpec
CONSTANTS
  Terms = {a, b}
  Actors = {p}
  NoActor = n
  MaxContracts = 2
  Figures = {a, b}
  MaxLedgers = 2
  BlockerIds = {b1}
  Milestones = {m}
  MaxWorkflows = 2
  MaxBlockers = 1
  MaxEvidence = 1
  Updates = {"complete"}
  EvidenceKeys = {"kickoff"}
  Claims <- SampleClaims
  Starts <- SampleStarts
  DemoReady = TRUE
  Claimed <- SampleClaimed
  MaxMoves = 1
  MaxRequests = 2
  Pages = {p, q}
  MaxRecords = 2
  MaxPresses = 2
  Customers = {"a", "b", "c", "d"}
  Treatments = {"offer"}
  OutcomeFiles <- SampleOutcomes
  Results <- SampleResults
  OutcomeWindow = 1
  Margin <- SampleMargin
  MinSample = 2
  LeastPerArm = 1
  LeastExpected = 1
  MaxDay = 3
  MaxOutcomes = 1
  Files <- SampleFiles
  Lifecycles <- SampleLifecycles
  Cutoffs = {0}
  Exclusions <- SampleExclusions
  RetentionCalls = {r, s}
  MaxAnalyses = 2
  MaxShadowRuns = 1
  UsualCycle = 2
  Users = {u, v}
  Orgs = {o}
  NoOrg = no
  Calls = {r, s}
  SessionTtl = 1
  MaxClock = 1
  MaxSessions = 1
  MaxPasswords = 2
  Callers = {c, d}
  Allowed = 2
  Window = 2
  Sweeps = 1
  MaxTime = 4
  Tenants = {o, p}
  Payloads = {a, b}
  MaxLog = 4
  Artifacts = {a, b}
  Handlers = {h, g}
  NoArtifact = none
  MaxBackups = 2
  Keep = 1
  LastDay = 2
  Versions = {v1, v2}
  Checksums = {c, d}
  NoChecksum = n
  Starters = {s, t}
  NoStarter = ns
  Models = {m1, m2}
  NoModel = none
  Torn = torn
  NoFile = nofile
  HistoryLimit = 1
  Programs = {p, q}
  Clients = {c}
  Runs = {r1, r2}
  Generators = {g, h}
  LastMonth = 2
  MaxExamples = 1
  MaxEvents = 1
  Costs = {1}
  Unit = 2
  Requests = {r1, r2}
  Readings <- SampleReadings
  Drifts = {2}
  Threshold = 1
  Absent = absent
  MaxRuns = 3
CHECK_DEADLOCK FALSE
INVARIANT PlatformTypeOK
INVARIANT EvidenceEarned
INVARIANT EvidenceWasTrue
INVARIANT ScaleClimbedTheLadder
INVARIANT AudiencePermitted
INVARIANT FreshIsCurrent
INVARIANT TwiceTheLimit
INVARIANT ChainTellsTheTruth
INVARIANT ArtifactsAccounted
INVARIANT BackupsRestorable
INVARIANT ReadyOnItsSchema
INVARIANT ProductionPassedGate
INVARIANT NothingBilledTwice
INVARIANT LeaksBounded
INVARIANT TripLogged
PROPERTY ClickKeepsItsWord
PROPERTY AccessHolds
PROPERTY MovesAsSeen
PROPERTY ResetHolds
