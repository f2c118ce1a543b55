SPECIFICATION Spec
CONSTANTS
  BagFolders <- MCBagFolders
  Descriptions <- MCDescriptions
  ServiceTopics = {"service"}
  Compressors = {c1, c2}
  FileShapes <- MCFileShapes
  BagLength = 3
  Namings <- MCNamings
  Shares <- MCShares
  Asks <- MCAsks
  MaxDepth = 4
  MaxAsk = 3
  NanosPerSecond = 10
  NanosPerMilli = 5
  MaxInt64 = 127
  MaxInt32 = 5
  Seconds <- MCSeconds
  Nanos <- MCNanos
  Roundings <- MCRoundings
  Objects = {"player", "recorder"}
  Signals = {"SIGINT", "SIGTERM"}
  Timeouts <- MCTimeouts
  CheckInterval = 2
INVARIANTS
  BagIsDescribed
  FilesComeBack
  DefinitionsAreWhole
  
  SignalsTakeEffect
\* Every question comes to an end.
CHECK_DEADLOCK FALSE
