SPECIFICATION FairSpec
CONSTANTS
  MaxVersion = 2
  Files = 2
  MaxChanges = 2
  MaxMishaps = 1
INVARIANTS TypeOK CheckedBundleLoads StartFailureIsKnown TerminalIsQuiet OwnBundleFirst
PROPERTY TerminalCollects
