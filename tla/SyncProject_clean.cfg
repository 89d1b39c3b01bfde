CONSTANTS
  A = A
  B = B
  Order <- Two
  Top = 2
  Bases = {0, 1}
  Commands <- AllCommands
  Targets = {1}
  Places = {A, "JIRI_HEAD"}
  MaxFaults = 1
SPECIFICATION Spec
INVARIANT CleanedAsTold
