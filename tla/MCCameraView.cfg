SPECIFICATION FairViewSpec
CONSTANTS
  w1 = w1
  w2 = w2
  Workers <- MCWorkers
  NoWorker = NoWorker
  Cameras <- MCCameras
  MaxFrames = 3
INVARIANT TypeOK
INVARIANT OneWorker
INVARIANT FrameIntact
INVARIANT FrameForgottenOnlyInPortrait
INVARIANT BitmapValid
INVARIANT StoppedIsReleased
PROPERTY ImplementsListener
PROPERTY HandlersReturn
PROPERTY FrameTaken
