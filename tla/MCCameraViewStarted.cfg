SPECIFICATION ViewSpec
CONSTANTS
  w1 = w1
  w2 = w2
  Workers <- MCWorkers
  NoWorker = NoWorker
  Cameras <- MCCameras
  MaxFrames = 2
INVARIANT StartedMeansPreview
