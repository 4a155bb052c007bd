SPECIFICATION Spec
CONSTANTS
  t1 = t1
  Tab <- MCTab
  MaxSeq = 2
  MaxChanges = 1
  MaxReads = 2
  MaxMishaps = 1
INVARIANT ViewsAreFaithful
PROPERTY MarkerOnlyAdvances
CHECK_DEADLOCK FALSE
