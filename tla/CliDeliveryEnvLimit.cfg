SPECIFICATION Spec
CONSTANTS
  Dags <- MCDags
  Severities <- MCSeverities
  Invocations <- MCInvocations
  MaxListed = 3
INVARIANT ContradictionRejected
CHECK_DEADLOCK FALSE
