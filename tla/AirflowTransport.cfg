SPECIFICATION Spec
CONSTANTS
  MaxRetries = 2
  MaxCalls = 3
INVARIANTS
  AttemptsBounded
  RejectedNotResent
  UnauthorizedIsGenuine
  LoginsAreEarned
PROPERTY
  ImplementsAuthorizedCall
\* The client may stop calling and every credential may be revoked.
CHECK_DEADLOCK FALSE
