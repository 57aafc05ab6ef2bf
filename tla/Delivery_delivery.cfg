SPECIFICATION Spec
CONSTANTS
  f1 = f1
  f2 = f2
  Files = {f1, f2}
  MaxRequests = 3
  MaxEdits = 2
SYMMETRY FileSymmetry
CHECK_DEADLOCK FALSE
INVARIANTS
  
  
  SharesAreAccounted
