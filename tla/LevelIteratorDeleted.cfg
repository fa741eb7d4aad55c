\* One key that is written, flushed, deleted and scanned.
SPECIFICATION Spec
CONSTANTS
  Key = {1, 2}
  Value = {0, 1}
  None = None
  ScanIds = {0, 7}
  SstKeys = 1
  MaxWrites = 3
INVARIANT
  DeletedStayDeleted
