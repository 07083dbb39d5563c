SPECIFICATION FairSpec
CONSTANTS
  Setups <- MCSetups
  MaxJobs = 1
  MaxOut = 2
  MaxIn = 1
  MaxWatches = 2
  Crashes = TRUE
INVARIANTS RefsCounted ReadyOverTransport
PROPERTY MirrorsVpnd
