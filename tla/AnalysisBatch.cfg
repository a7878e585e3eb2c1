SPECIFICATION Spec
CONSTANTS
  a = a
  b = b
  c = c
  blank = blank
  Dags <- MCDags
  Blank <- MCBlank
  MaxSize = 3
  MaxWidth = 3
INVARIANTS
  TypeOK
  ResourcesBounded
PROPERTIES
  NoStartInShutdown
  ImplementsContract
\* A batch that has ended stays ended.
CHECK_DEADLOCK FALSE
