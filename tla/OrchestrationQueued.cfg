SPECIFICATION Spec
CONSTANTS
  Jobs = {j1, j2}
  Workers = {w1, w2}
  Callers = {c1}
  Inline = FALSE
  Raising = {j1, j2}
  Spinning = {j1, j2}
  MaxJobs = 2
  MaxInputs = 2
  j1 = j1
  j2 = j2
  w1 = w1
  w2 = w2
  c1 = c1
  None = None
SYMMETRY Symmetry
INVARIANTS TypeOK  ExclusiveDrive TransitionsAreValid 
CHECK_DEADLOCK FALSE
 
