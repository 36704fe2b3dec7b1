SPECIFICATION Spec
CONSTANTS
  l1 = l1
  l2 = l2
  Loaders <- MCLoaders
  NoLoader = NoLoader
  MaxFrames = 3
  MaxClicks = 2
SYMMETRY MCSymmetry
INVARIANT ModelUsable
INVARIANT DetectorBeforeFrames
INVARIANT DestroyedIsOff
INVARIANT NoUnaskedPhoto
