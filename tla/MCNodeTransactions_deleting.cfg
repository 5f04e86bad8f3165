\* Two nodes, who watches them and who deletes them, two requests at a time.
SPECIFICATION Spec
CONSTANTS
  Requests = {r1, r2}
  Handlers <- Deleting
  Statuses = {open}
  NoStatus = open
  Types = {task}
  Null = null
  MaxNode = 2
SYMMETRY RequestSymmetry
INVARIANTS
  LocksProtectSnapshots
PROPERTIES
  AtomicGraph
\* The ids may run out with no node left to ask for.
CHECK_DEADLOCK FALSE
