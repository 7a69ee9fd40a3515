CONSTANTS
  None = None
  Flow = {"t", "s", "u", "i"}
  Proto <- MCProto
  NAPT_MAX = 2
  Timeout <- MCTimeout
  Wrap = 8
  Horizon = 6
SPECIFICATION Spec
INVARIANTS
  TypeOK
  LiveKeysUnique
PROPERTIES
  MappingsLast
  KeepsPromise
