SPECIFICATION FairSpec
CONSTANTS
  Jobs = {j1, j2}
  Workers = {w1}
  Callers = {c1}
  Inline = FALSE
  Raising = {}
  Spinning = {}
  MaxJobs = 2
  MaxInputs = 2
  j1 = j1
  j2 = j2
  w1 = w1
  c1 = c1
  None = None
PROPERTIES SubmittedIsDriven InputIsRead
CHECK_DEADLOCK FALSE
