\* One node and the values of its row, two requests at a time.
SPECIFICATION Spec
CONSTANTS
  Requests = {r1, r2}
  Handlers <- Editing
  Statuses = {open, done}
  NoStatus = open
  Types = {task, bug}
  Null = null
  MaxNode = 1
SYMMETRY RequestSymmetry
INVARIANTS
  TypeOK
PROPERTIES
  AtomicGraph
\* The ids may run out with no node left to ask for.
CHECK_DEADLOCK FALSE
