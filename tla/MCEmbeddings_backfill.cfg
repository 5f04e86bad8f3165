\* Two nodes: a backfill against an instance.
SPECIFICATION Spec
CONSTANTS
  Processes = {p1, p2}
  Models = {gemma}
  Legacy = gemma
  Names = {name}
  Texts = {text}
  Blobs = {image}
  Empty = empty
  Null = null
  MaxNode = 2
  MaxStamp = 2
SYMMETRY ProcessSymmetry
INVARIANTS
  TypeOK
  FreshVectors
  BackfillEmbedsUntouched
