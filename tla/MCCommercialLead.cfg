SPECIFICATION Spec
SYMMETRY Symmetry
CONSTANTS
  c1 = c1
  c2 = c2
  r1 = r1
  r2 = r2
  FirstStages = {"PROPOSTA"}
  MaxCrmVersion = 3
  MaxTimeline = 3
  MaxFingerprint = 2
  CrmClients = {c1, c2}
  CrmKeys = {"k1", "k2"}
  MaxQuoted = 2
  PilotRuns = {r1, r2}
  MaxResults = 4
  MaxReviews = 1
  MaxInstant = 2
  MaxSeatVersion = 2
  MessageKeys = {"m1"}
  MessageRun = r1
  Operators = {"ana"}
INVARIANTS
  TimelineTellsTheState
  CrmKeyAppliedOnce
  FunnelNarrows
  PilotClaimsAreExclusive
  LinkRestsOnTheRecord
PROPERTIES
  MessageRecordedWhileEligible
CHECK_DEADLOCK FALSE
