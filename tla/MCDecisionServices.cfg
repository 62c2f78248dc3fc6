CONSTANTS
  Requesters = {r1, r2}
  RateWindow = 2
  RateMax = 2
  LastTime = 3
  Targets = {50, 90, 100}
  WindowHours = 48
  MaxEvents = 3
  MaxMoves = 2
  MapServices = {"a", "b"}
  EdgeProtocols = {"sql"}
  EntryBatches <- MCEntryBatches
  MaxRowChanges = 2
  Trials = {"e1", "e2"}
  HashOf <- MCHashes
  TrafficSplits = {5, 10}
  RateScale = 1000
  TrialOutcomes <- MCTrialOutcomes
  MaxOutcomes = 3
  Inquirers = {i1, i2}
SYMMETRY CallerSymmetry
SPECIFICATION DecisionSpec
INVARIANTS
  RateIsBounded
  MapsAreCoherent
  ExperimentsAreFair
PROPERTY BudgetsFollowTraffic
\* The clock of the limit is bounded.
CHECK_DEADLOCK FALSE
