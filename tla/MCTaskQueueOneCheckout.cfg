CONSTANTS
  t1 = t1
  t2 = t2
  t3 = t3
  t4 = t4
  None = None
  Tasks = {t1, t2, t3}
  Rank <- MCRank
  Adders = {a1, a2}
  BatchIds = {b1, b2}
  MaxSize = 2
  MaxResults = 2
  SharedTasks = TRUE
SPECIFICATION AllSpec
INVARIANTS
  OneCheckout
