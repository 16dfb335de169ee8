SPECIFICATION Spec
CONSTANTS
  Radix = 12
  ArrayTag = 6
  W16 = 1
  W32 = 2
  W64 = 3
  NonAscii = 10
  Magic <- MCMagic
  MetaKey <- MCMetaKey
  DbMagic = 17
  DbName <- MCDbName
  Keys <- MCKeys
  Fields <- MCFields
  Alphabet = {0, 1, 3, 7, 9, 10, 11}
  MaxPayload = 5
  MaxItems = 3
  Counts = {13}
INVARIANT TypeOK
INVARIANT FilesDecode
 
INVARIANT AcceptedReplayable
INVARIANT AnswersArrive
 
