SPECIFICATION FairSpec
CONSTANTS
  Jobs = {j1, j2}
  Workers = {}
  Callers = {c1, c2}
  Inline = TRUE
  Raising = {j1, j2}
  Spinning = {j1}
  MaxJobs = 1
  MaxInputs = 3
  j1 = j1
  j2 = j2
  c1 = c1
  c2 = c2
  None = None
PROPERTIES ClaimIsReleased CompletionIsPublished
CHECK_DEADLOCK FALSE
