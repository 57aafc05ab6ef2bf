SPECIFICATION FairSpec
CONSTANTS
  Proposals = {1, 2}
  Paths = {"a", "b"}
  Folder = "folder"
  Inside = {"a"}
  Manifest <- ReadsB
  Deciders = {"d1", "d2"}
  BatchMax = 2
  Budget = 1
  MaxRows = 2
  MaxChanges = 1
  MaxCrashes = 1
CHECK_DEADLOCK FALSE
INVARIANTS
  NothingWithoutGrant
PROPERTIES
  BatchLandsWhole
  
  PromotionDisplacesNothing
  DecisionsEnd
