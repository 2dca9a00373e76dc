\* Two workers, localid 3 has none; two commands, in one message or in two.
SPECIFICATION FairSpec
CONSTANTS
  power = power
  getfile = getfile
  Localids = {2, 3, 4}
  Workers = {2, 4}
  Ops = {power, getfile}
  Handles <- MCHandles
  SemMax = 2
  MaxBatch = 2
  MaxCommands = 2
INVARIANTS
  AnswersTheQuestion
PROPERTIES
  ImplementsCalls
  EveryMessageAnswered
  EveryCommandExecuted
