\* Two callers, a channel with two places, failing commands.
SPECIFICATION FairSpec
CONSTANTS
  a = a
  b = b
  c1 = c1
  c2 = c2
  Byte = {a, b, Zero}
  Zero = Zero
  Err = Err
  NoAnswer = NoAnswer
  Client = {c1, c2}
  Command <- MCCommand
  Capacity = 2
  IoErrors = TRUE
  MaxCmds = 3
INVARIANT TypeOK
PROPERTY ImplementsAtomicFile
PROPERTY CallsAnswered
PROPERTY DrainsAndStops
