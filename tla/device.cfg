SPECIFICATION EitherSpec
CONSTANTS
  own = own
  other = other
  theirs = theirs
  r1 = r1
  r2 = r2
  Entities = {own, other, theirs}
  CompanyOf <- OwnOrOther
  Foundings <- OneFounding
  Members0 = {own}
  Requests = {r1, r2}
  Limit = 2
  MaxTx = 3
  MaxWrites = 1
  MaxEvents = 1
  Known0 = {TRUE, FALSE}
  MaxSaves = 3
  OutboxEvents = 3
SYMMETRY Symmetry
CHECK_DEADLOCK FALSE
INVARIANTS TypeOK CopyIsTrue QueueIsSound
PROPERTIES NoChangePassedOver EditsLand
