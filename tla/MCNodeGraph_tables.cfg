\* Two nodes, which may be named ahead: links joined, patched and removed, hooks and notices.
SPECIFICATION Spec
CONSTANTS
  u1 = u1
  u2 = u2
  Users = {u1}
  Managed = {}
  NoUser = none
  Callers <- OneCaller
  Tags = {t1}
  Filters <- EveryKind
  Accesses <- ReadOnly
  Statuses = {open}
  Metas = {meta}
  Positions = {p1}
  Contents = {}
  Substances = {digest}
  Labels = {plain, other}
  Patches <- WithNoop
  DefaultLabel = plain
  Origin = origin
  Null = null
  NodeIds = {n1, n2}
SYMMETRY Symmetry
INVARIANTS
  HooksWatchNodes
  SourcesExist
PROPERTIES
  DeletionTakesLinks
  DoublesOnlyAhead
  SubscribersAreTold
\* With both ids used up and both nodes deleted nothing is left to do.
CHECK_DEADLOCK FALSE
