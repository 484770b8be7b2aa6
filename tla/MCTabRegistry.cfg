CONSTANTS
  k1 = k1  k2 = k2  t1 = t1
  Keys = {k1, k2}
  Unnamed = {k2}
  Busy = {k1}
  Tasks = {t1}
  Payloads <- MCPayloads
  NoKey = NoKey
  NoFile = NoFile
  Torn = Torn
  MaxSeq = 1
  MaxFails = 1
SPECIFICATION FairSpec
INVARIANTS TypeOK PendingIsFlagged TabListOnDisk
PROPERTIES RenameReachesDisk
