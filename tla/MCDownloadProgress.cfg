SPECIFICATION FairSpec
CONSTANTS
  Percents <- MCPercents
  Size = 4
INVARIANT PathFits
INVARIANT DoneIsRead
PROPERTY ErrorStays
PROPERTY ProgressShown
