\* More writes than a pipe or the stream window holds, descendants on the pipes,
\* a code that an int32 holds and one that it does not.
SPECIFICATION FairSpec
CONSTANTS
  MaxWrites = 3
  PipeCap = 2
  Window = 2
  Half = 4
  Codes = {0, 3, 4}
  Forks = TRUE
INVARIANTS TypeOK OneSender PrintedInOrder ReportIsTrue
PROPERTIES ImplementsCommandOutput CallEnds
CHECK_DEADLOCK FALSE
