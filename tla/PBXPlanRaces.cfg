SPECIFICATION Spec

CONSTANTS
  Writer = {w1, w2}
  Reader = {}
  Kind = {extension}
  Key = {1, 2}
  MaxLen = 2
  MaxID = 2

SYMMETRY WriterSymmetry

VIEW SlicesOnly

INVARIANTS
  NoBlankShown
