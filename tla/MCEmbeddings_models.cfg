\* Three processes, two models, one node: starts, refusals and switches.
SPECIFICATION Spec
CONSTANTS
  Processes = {p1, p2, p3}
  Models = {gemini, gemma}
  Legacy = gemini
  Names = {name}
  Texts = {}
  Blobs = {}
  Empty = empty
  Null = null
  MaxNode = 1
  MaxStamp = 1
SYMMETRY ProcessSymmetry
INVARIANTS
  OneModelPerDatabase
