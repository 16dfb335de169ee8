SPECIFICATION Spec
CONSTANTS
  k1 = k1
  k2 = k2
  v1 = v1
  v2 = v2
  t1 = t1
  t2 = t2
  Key = {k1}
  Value = {v1}
  Task = {t1}
  None = None
  Torn = Torn
  NoTask = NoTask
  EmptyKey = EmptyKey
  FieldLen <- MCFieldLen
  Calls = {"set"}
  Faults = {"powerloss", "torn"}
  FlushAlone = TRUE
  Created = TRUE
  MaxCalls = 1
INVARIANT Reopenable
