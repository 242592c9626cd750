CONSTANTS
  plain = plain
  download = download
  digest = digest
  Requests <- MCRequests
  Media <- MCMedia
  HashOf <- MCHashOf
  Quota = 2
  MaxInterrupts = 1
  MaxCrashes = 1
SPECIFICATION FairSpec
CHECK_DEADLOCK FALSE
INVARIANTS
  CacheInv
  StopsArrive
PROPERTIES
  OnlyVerified
  ExecuteReturns
