SPECIFICATION Spec
CONSTANTS
  k1 = k1
  k2 = k2
  v1 = v1
  v2 = v2
  t1 = t1
  t2 = t2
  Key = {k1, k2}
  Value = {v1, v2}
  Task = {t1, t2}
  None = None
  Torn = Torn
  NoTask = NoTask
  EmptyKey = EmptyKey
  FieldLen <- MCFieldLen
  Calls = {"set", "delete"}
  Faults = {"kill", "powerloss", "ioerr", "cancel"}
  FlushAlone = TRUE
  Created = TRUE
  MaxCalls = 4
SYMMETRY TaskKeySymmetry
INVARIANT ReadsExplained
PROPERTY ImplementsStore
