SPECIFICATION Spec
CONSTANTS
  a = a
  b = b
  padded = padded
  p1 = p1
  p2 = p2
  MaxId = 4
  Values = {a, b, padded, Absent}
  Absent = Absent
  Trim <- Trims
  Typed = {b}
  Places = {p1, p2}
  Area <- Windows
  Project = 1
  Group = 2
  Filters <- StatusFilters
  Created <- NewNode
  NoText = NoText
  Gone = Gone
  NoData = NoData
  Missing = Missing
  Idle = Idle
  Asked = Asked
  Types = {a, b, Untyped}
  UNTYPED_VALUE = Untyped
  ALL_NODE_TYPES = {a, Untyped}
  Statuses = {a, b}
  DEFAULT_STATUS_SELECTION = {a}
  Unset = Unset
  Scenarios <- SmallScenarios
INVARIANTS
  TypeOK
  CacheTellsTheTruth
  ChildOfItsPage
  CanvasAgrees
PROPERTIES
  FormsSendWhatIsShown
  DraggedStays
  SelectedOnce
  LeftByDropsOnly
CHECK_DEADLOCK FALSE
