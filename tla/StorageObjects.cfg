\* Two calls on the same rows, one query that fails or process that dies.
SPECIFICATION StorageSpec
CONSTANTS
  MaxUploads = 2
  StorageCalls = {c1, c2}
  MaxStorageFailures = 1
INVARIANTS
  NothingDangles
CHECK_DEADLOCK FALSE
