\* One node, two subscribers who may read or write it and then may not: notices and rights.
SPECIFICATION Spec
CONSTANTS
  u1 = u1
  u2 = u2
  Users = {u1, u2}
  Managed = {u2}
  NoUser = none
  Callers <- WithAdmin
  Tags = {t1}
  Filters <- SomeKinds
  Accesses <- EitherWay
  Statuses = {open}
  Metas = {meta}
  Positions = {p1}
  Contents = {body}
  Substances = {}
  Labels = {plain}
  Patches <- Relabels
  DefaultLabel = plain
  Origin = origin
  Null = null
  NodeIds = {n1}
INVARIANTS
  TypeOK
PROPERTIES
  OthersNodesStay
  RevocationIsTold
  NoticesOnlyToReaders
  NoSelfGrant
