CONSTANTS
  Listings <- MCListings
  MaxGiven = 2
SPECIFICATION SelSpec
INVARIANTS EachNodeOnce WholeSubtree ClimbsEnd JobsAreSelection OnePlacePerFile
PROPERTY ToggleIsLocal
CHECK_DEADLOCK FALSE
