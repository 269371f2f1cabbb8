CONSTANTS
  NULL = NULL
  NOVAL = NOVAL
  JUNK = JUNK
  BADESC = BADESC
  Ints = {0, 1}
SPECIFICATION Spec
\* A parse ends when ParseClassAd returns; Terminates checks that it does.
CHECK_DEADLOCK FALSE
INVARIANTS
  RoundTrip
PROPERTY
  Terminates
