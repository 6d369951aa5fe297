SPECIFICATION Spec
CONSTANTS
  m1 = m1
  m2 = m2
  m3 = m3
  Migration = {m1, m2, m3}
  Rank <- MCRank
  Runner = {r1, r2}
  Commands = {"up", "down"}
  Faults = {"body", "mongo"}
  MaxRuns = 6
INVARIANT OnceInv
INVARIANT UpInv
PROPERTY RollsBackLast
SYMMETRY MCSymmetry
CHECK_DEADLOCK FALSE
