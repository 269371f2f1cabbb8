CONSTANTS
  NULL = NULL
  NOVAL = NOVAL
  JUNK = JUNK
  BADESC = BADESC
  Ints = {0, 1}
SPECIFICATION SpecDamaged
\* A parse ends when ParseClassAd returns.
CHECK_DEADLOCK FALSE
CONSTRAINT ListBound
PROPERTY ParseYieldsTree
