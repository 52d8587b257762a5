\* Pages of one row; one edit and one tick of the clock during a walk.
SPECIFICATION StorefrontSpec
CONSTANTS
  None = None
  BasisPoints = 10000
  Courses = {1, 2, 3}
  Owner <- MCOwner
  Rating <- MCRating
  FirstRows <- MCFirstRows
  Coupons <- MCCoupons
  Viewers = {"anonymous", "ann", "admin"}
  Traits = {"ops"}
  Prices = {2, 5}
  Limit = 1
  MaxClock = 2
  MaxEdits = 1
INVARIANTS WalkIsExact QuotesAddUp
CHECK_DEADLOCK FALSE
