SPECIFICATION FairSyncSpec
CONSTANTS
  Account = {a1}
  Run = {job, manual}
  None = None
  Keep = Keep
  Aspire = FALSE
  MaxFailures = 2
  MaxTx = 2
CONSTRAINT Bounded
INVARIANTS SyncTypeOK OneStatePerAccount
PROPERTIES SinceCoversStored SyncEnds
