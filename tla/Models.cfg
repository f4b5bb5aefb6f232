SPECIFICATION DiffSpec
CONSTANTS
  s0 = s0
  s1 = s1
  s2 = s2
  ping = ping
  fin = fin
  hello = hello
  aes = aes
  gcm = gcm
  chacha = chacha
  ok = ok
  err = err
  Suites <- SuitesDef
  AnySuite = AnySuite
  NoSuite = NoSuite
  AnyWait = "any"
  Cases <- CasesDef
  Solvers = {"umfpack", "smt"}
  StartNode = StartNode
  First = s0
  Blank = Blank
  Threshold = 2
  TopScore = 3
  None = None
INVARIANTS OptimisedIsLearned DiffIsExact
