\* A paragraph and a relation, two rebuilds, a damaged pool, two crashes.
SPECIFICATION FairSpec
CONSTANTS
  p1 = p1
  r1 = r1
  Paragraph = {p1}
  Relation = {r1}
  Rank <- MCRank
  Beginnings = {"new", "single", "dual", "leftover", "copying"}
  MaxCrashes = 2
  MaxRebuilds = 2
  MaxDamages = 1
  MaxEvents = 4
  CrashInFreshSwitch = FALSE
INVARIANTS PairOfOneGeneration LastCopyKept RebuiltIsComplete
PROPERTIES PendingEnds
CHECK_DEADLOCK FALSE
