\* Two workers, two records of each kind; the size limit of a packet leaves the
\* second clientData record behind, and one local record does not fit at all.
SPECIFICATION FairSpec
CONSTANTS
  Workers = {w1, w2}
  Main = main
  ClientSizes = {1}
  LocalSizes = {2, 6}
  Prologue = 1
  TableSize = 1
  SizeLimit1 = 2
  MaxDataSize = 6
  SemMax = 2
  MaxClient = 2
  MaxLocal = 2
INVARIANTS
  NoLostWakeup
PROPERTIES
  ImplementsQueue
  EveryRecordTaken
