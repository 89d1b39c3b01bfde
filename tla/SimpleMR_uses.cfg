CONSTANTS
  Recs = 3
  Key <- MCKey
  InCap = 2
  OutCap = 1
  Mappers = {m1, m2}
  MapErrs = {2}
  ReduceErrs = {}
  Cancellers = {}
  HasTimeout = TRUE
  Uses = {"inside", "outside", "timeout", "runp"}
SPECIFICATION UseSpec
INVARIANTS ReducedRight OutputTold
PROPERTIES AllEnd
