SPECIFICATION Spec
CONSTANTS
  Dags <- MCDags
  Severities <- MCSeverities
  Invocations <- MCInvocations
  MaxListed = 3
INVARIANTS
  SuccessIsComplete
  OutcomesDelivered
  PolicyAsAsked
  DiscoveryOrdered
  DoctorTruthful
\* A command that has ended stays ended.
CHECK_DEADLOCK FALSE
