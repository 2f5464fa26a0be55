SPECIFICATION FairSyncSpec
CONSTANTS
  Account = {a1}
  Run = {job, manual}
  None = None
  Keep = Keep
  Aspire = TRUE
  MaxFailures = 1
  MaxTx = 2
PROPERTIES SyncEnds
