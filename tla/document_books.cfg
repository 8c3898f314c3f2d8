SPECIFICATION AllSpec
CONSTANTS
  s1 = s1
  s2 = s2
  p1 = p1
  p2 = p2
  p3 = p3
  inv = inv
  cn1 = cn1
  cn2 = cn2
  dn = dn
  a1 = a1
  a2 = a2
  n1 = n1
  n2 = n2
  Accounts = {a1, a2}
  Sessions = {s1, s2}
  DocSeq <- AllNotes
  Invoices <- OneInvoice
  CreditNotes = {cn1, cn2}
  DebitNotes = {dn}
  Source <- SourceOf
  Total <- Totals
  Payments = {p1, p2, p3}
  Inputs <- ReceiptsAndPaidOut
  RefundAmounts = {1, 2}
  Ops = {"create", "save", "remove", "refund", "finalize", "cancel"}
  Opening = 0
  MayTurn = FALSE
  MaxRequests = 4
SYMMETRY Symmetry
CHECK_DEADLOCK FALSE
INVARIANTS AllTypeOK NothingOversettled BooksAgree PaymentsNeverDeadlock GoodsAreRight AmountsAddUp
PROPERTIES PaysOutWhatItHeld IssuedAndDecidedForGood
