CONSTANTS
  Sizes = {3, 4}
  Hulls <- HullsMC
  Outlines <- OutlinesMC

SPECIFICATION Spec

INVARIANTS
  PastedShowsOther
  GhostNeedsSameSize
