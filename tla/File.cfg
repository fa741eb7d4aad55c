\* Writes of up to three bytes, three of which do not use the buffer, ending at or
\* before offset 4.
SPECIFICATION Spec
CONSTANTS
  Data <- MCData
  MaxSize = 4
  Direct = 3
  None = None
INVARIANTS
  TypeOK
  AcceptedIsThere
  SyncTells
PROPERTY
  ImplementsByteFile
