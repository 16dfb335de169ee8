SPECIFICATION Spec
CONSTANTS
  k1 = k1
  v1 = v1
  c1 = c1
  c2 = c2
  Key = {k1}
  Value = {v1}
  Task = {c1, c2}
  None = None
  Requests <- MCRequests
  MaxSent = 2
  MaxFrames = 3
  Window = 1
  MaxFaults = 1
INVARIANT TypeOK
 
INVARIANT AnswersInOrder
INVARIANT ReadsRegular
PROPERTY Answered
