SPECIFICATION Spec
CONSTANTS
  caller1 = caller1
  caller2 = caller2
  f1 = f1
  f2 = f2
  f3 = f3
  w1 = w1
  w2 = w2
  OpPhones = {"p1", "p2"}
  OpKeys = {"k1", "k2"}
  FingerprintKeys = {"fk"}
  MaxOnWire = 2
  MaxReconfigured = 1
  SuppressionTypes = {"OPT_OUT_GLOBAL", "OPT_OUT_CHANNEL"}
  Migrations <- MigrationList
  Validated = {"m2"}
  Fate <- FateOfObjects
  FirstRelease = 1
  MaxOperations = 3
  ProspectCallers = {caller1, caller2}
  ProspectFingerprints = {f1, f2, f3}
  ProspectCampaigns = {"c1"}
  ProspectMetrics <- CountsOfRuns
  LastCity = 3
  MaxCityVersion = 4
  CollectWorkers = {w1, w2}
  CollectJobs = {1, 2, 3}
  LegacyJobs = {1}
  OsmElements <- Elements
  CollectLimit = 1
  MaxOverpassTries = 2
  MaxWorkerStarts = 2
  EmailSignals <- Signals
  Evidences <- EvidenceOfLeads
  LabNiches <- NichesOfLab
  Environments <- EnvironmentFiles
INVARIANTS
  OperatorLinkIsAuthorised
  ReleaseRunsOnItsSchema
  RestoreKeepsSuppressions
  CampaignMovesWhenEarned
  JobCollectedOnce
  PilotUnderControl
  DecisionsFailClosed
CHECK_DEADLOCK FALSE
