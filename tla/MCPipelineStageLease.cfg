\* Every kind of statement of the table, two runs and two owners.
CONSTANTS
  Runs = {r1, r2}
  Owners = {o1, o2}
  Cursors = {c1}
  None = None
  Stages <- ThreeStages
SPECIFICATION Spec
SYMMETRY Symmetry
INVARIANT TypeOK
PROPERTY LeaseIsFenced SuccessIsFinal LiveRunIsNotReplaced LearningKeepsItsRun
