CONSTANTS
  Listings <- MCListings
  MaxGiven = 2
SPECIFICATION SelSpec
INVARIANT FilesUnderIsSubtree
CHECK_DEADLOCK FALSE
