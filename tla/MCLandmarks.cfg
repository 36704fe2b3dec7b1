CONSTANTS
  small = small
  wide = wide
  long = long
  Models <- ModelsMC
  Shape <- ShapeMC
  Cascades <- CascadesMC
  Remains <- RemainsMC
  Forest <- ForestMC
  Forests <- ForestsMC

SPECIFICATION LandmarksSpec

INVARIANTS
  LoadedIsWhole
  LeafExists
  LeafIsPath
  WalksLoadedModel
PROPERTIES
  LoadsPoseModel
