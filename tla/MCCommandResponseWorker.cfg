\* Two workers that know the same operation.
SPECIFICATION Spec
CONSTANTS
  power = power
  getfile = getfile
  Localids = {2, 3, 4}
  Workers = {2, 4}
  Ops = {power, getfile}
  Handles <- MCHandles
  SemMax = 2
  MaxBatch = 2
  MaxCommands = 2
INVARIANT
  AppropriateWorker
