CONSTANTS
  k1 = k1
  k2 = k2
  v1 = v1
  v2 = v2
  Keys = {k1, k2}
  Values = {v1, v2}
  Absent = Absent
  Untouched = Untouched
  NoTxn = NoTxn
  None = None
  Ranges <- MCRanges
SPECIFICATION Spec
INVARIANT TypeOK
PROPERTIES RefinesKVStore DiskChangesOnlyByCommit SnapshotStable
