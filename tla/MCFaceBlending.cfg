CONSTANTS
  Frames <- FramesMC
  Faces <- FacesMC
  Scenes <- ScenesMC
  Border = 2

SPECIFICATION SwapSpec

INVARIANTS
  CutsInside
  FacesCropped
  OrderKept
  Matched
  FeatherStaysIn
  BlendStaysBetween

\* The computation ends with the blended frame.
CHECK_DEADLOCK FALSE
