SPECIFICATION Spec
CONSTANTS
  Workers = {w1}
  Main = main
  ClientSizes = {1}
  LocalSizes = {2, 6}
  Prologue = 1
  TableSize = 1
  SizeLimit1 = 3
  MaxDataSize = 6
  SemMax = 2
  MaxClient = 1
  MaxLocal = 0
PROPERTY
  AsideIsCarried
