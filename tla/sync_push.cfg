SPECIFICATION Spec
CONSTANTS
  parent = parent
  child = child
  final = final
  edit = edit
  cParent = cParent
  p1 = p1
  p2 = p2
  Queue <- AllFour
  Pushes = {p1, p2}
  Posts = {parent, child, final}
  Cids = {cParent}
  NoCid = NoCid
  CidOf <- Makes
  Uses <- Refers
  Base <- FirstVersion
  NoBase = NoBase
  Invalid = {}
  MaxFaults = 2
  MaxEdits = 1
SYMMETRY Symmetry
CHECK_DEADLOCK FALSE
INVARIANTS TypeOK RepeatsOnlyWhatWasLost PostRunByOne ReportsAreTrue
