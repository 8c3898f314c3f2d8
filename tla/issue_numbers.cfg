SPECIFICATION Spec
CONSTANTS
  t1 = t1
  t2 = t2
  t3 = t3
  t4 = t4
  Txns = {t1, t2, t3, t4}
  Queued = {t4}
  MaxPeriod = 2
  Guard = 2
  PlanLimit = 3
  CreditLimit = 3
  MaxSaves = 1
  MaxJump = 1
SYMMETRY Symmetry
CHECK_DEADLOCK FALSE
INVARIANTS TypeOK NumbersUnique Gapless
PROPERTY InvoiceNumbersNeverReused
