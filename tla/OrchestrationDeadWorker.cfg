SPECIFICATION FairSpec
CONSTANTS
  Jobs = {j1, j2}
  Workers = {w1}
  Callers = {c1}
  Inline = FALSE
  Raising = {j1}
  Spinning = {}
  MaxJobs = 2
  MaxInputs = 0
  j1 = j1
  j2 = j2
  w1 = w1
  c1 = c1
  None = None
PROPERTIES SubmittedIsDriven
CHECK_DEADLOCK FALSE
