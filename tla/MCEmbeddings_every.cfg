\* A node whose status is patched during the backfill stays without a vector.
SPECIFICATION Spec
CONSTANTS
  Processes = {p1, p2}
  Models = {gemma}
  Legacy = gemma
  Names = {name}
  Texts = {text}
  Blobs = {}
  Empty = empty
  Null = null
  MaxNode = 2
  MaxStamp = 2
SYMMETRY ProcessSymmetry
INVARIANTS
  BackfillEmbedsEveryNode
