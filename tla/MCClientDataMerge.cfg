SPECIFICATION Spec
CONSTANTS
  Workers = {w1, w2}
  Main = main
  ClientSizes = {1}
  LocalSizes = {2, 6}
  Prologue = 1
  TableSize = 1
  SizeLimit1 = 3
  MaxDataSize = 6
  SemMax = 2
  MaxClient = 3
  MaxLocal = 0
PROPERTY
  TakenIsCarried
