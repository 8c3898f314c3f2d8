SPECIFICATION EitherSpec
CONSTANTS
  own = own
  other = other
  theirs = theirs
  r1 = r1
  r2 = r2
  Entities = {own, other, theirs}
  CompanyOf <- OwnOrOther
  Foundings <- OneFounding
  Members0 = {own}
  Requests = {r1, r2}
  Limit = 2
  MaxTx = 1
  MaxWrites = 1
  MaxEvents = 1
  Known0 = {FALSE}
  MaxSaves = 2
  OutboxEvents = 2
SYMMETRY Symmetry
CHECK_DEADLOCK FALSE
PROPERTY NoSilentOverwrite
