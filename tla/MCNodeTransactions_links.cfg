\* Two nodes and what joins them: waiting, failing and deadlock of two requests that never retry.
SPECIFICATION FairSpec
CONSTANTS
  Requests = {r1, r2}
  Handlers <- Linking
  Statuses = {open}
  NoStatus = open
  Types = {task}
  Null = null
  MaxNode = 2
INVARIANTS
  TypeNamesUnique
  OnlyDeletionsDeadlock
PROPERTIES
  AtomicGraph
  RequestsEnd
\* The ids may run out with no node left to ask for.
CHECK_DEADLOCK FALSE
