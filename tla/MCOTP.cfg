SPECIFICATION FairSpec
CONSTANTS
  g = g  a = a  b = b  c = c  f = f  outside = outside
  Tasks = {g, a, b, c, f}
  Dep <- ForkDep
  Prereqs = {"body", "receipts"}
  Adders = {w1, w2}
  w1 = w1  w2 = w2
  Dangling = FALSE
  MaxDepth = 1
  MaxTasks = 2
  MaxCall = 2
  MaxResults = 2
  LateRegister = FALSE
  AheadDeclare = FALSE
  Redeclare = TRUE

INVARIANTS
  NothingStuck
  EmittedOnce
  DependencyFirst
  Tracked
  Bounded
  NoForgottenAdder
PROPERTIES
  AdderResumes
