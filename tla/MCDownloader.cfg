SPECIFICATION FairSpec
CONSTANTS
  t1 = t1
  t2 = t2
  f1 = f1
  f2 = f2
  Tasks <- MCTasks
  NoTask = NoTask
  Inodes <- MCInodes
  NoFile = NoFile
  Size = 2
INVARIANT FlagTruthful
INVARIANT OneReporter
PROPERTY FlagRaisedByWholeDownload
PROPERTY ProgressEnds
