SPECIFICATION FairSpec
CONSTANTS
  Jobs = {j1}
  Workers = {w1, w2}
  Callers = {c1}
  Inline = FALSE
  Raising = {}
  Spinning = {}
  MaxJobs = 1
  MaxInputs = 2
  j1 = j1
  w1 = w1
  w2 = w2
  c1 = c1
  None = None
PROPERTIES InputIsRead
CHECK_DEADLOCK FALSE
