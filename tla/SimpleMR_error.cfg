CONSTANTS
  Recs = 3
  Key <- MCKey
  InCap = 2
  OutCap = 1
  Mappers = {m1, m2}
  MapErrs = {2}
  ReduceErrs = {}
  Cancellers = {}
  HasTimeout = TRUE
  Uses = {"runp"}
SPECIFICATION UseSpec
INVARIANTS ErrorKept
