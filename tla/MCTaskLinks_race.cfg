\* Two attempts per creation, so that three creations can exhaust them.
SPECIFICATION Spec
CONSTANTS
  c1 = c1
  c2 = c2
  c3 = c3
  r1 = r1
  r2 = r2
  Create <- MCCreate
  Run <- MCRun
  Trigger <- MCTrigger
  Existing = 1
  MaxAttempts = 2
INVARIANTS
  TypeOK
  NumbersDense
  OnlyInFlightRunsUnlinked
CHECK_DEADLOCK FALSE
