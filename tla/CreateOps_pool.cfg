CONSTANTS
  o1 = o1
  o2 = o2
  o3 = o3
  o4 = o4
  o5 = o5
  Ops <- MCOps
  Part <- MCPart
  Dest <- MCDest
  Root <- MCRoot
  Occupied <- MCOccupied
  Workers = {w1, w2}
SPECIFICATION FairSpec
INVARIANTS NoBlockedSend
PROPERTIES CreatedStays ImplementsOrder Terminates
