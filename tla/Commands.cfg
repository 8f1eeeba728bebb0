SPECIFICATION Spec
CONSTANTS
  Most <- MCMost
  MaxCommands <- MCMaxCommands
INVARIANTS
  NothingFetchedInVain
  MixOnlyAfterInterruption
  AllLeavesOneRun
CHECK_DEADLOCK FALSE
