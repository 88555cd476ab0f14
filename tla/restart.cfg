\* Two files, Trace is started twice.
CONSTANTS
  Path = {f, g}
  MaxGen = 2
  None = None
SPECIFICATION FairSpec
INVARIANTS TypeOK FateShared SenderHasMonitor
PROPERTIES SoleSenderIsSafe EntriesDrain
