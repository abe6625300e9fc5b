\* Does the end of its lease free the reservation of an ambiguous dispatch?
CONSTANTS
  Runs = {t1, t2}
  Owners = {}
  Cursors = {}
  None = None
SPECIFICATION DispatchSpec
PROPERTY LeaseExpiryFreesReservation
CHECK_DEADLOCK FALSE
