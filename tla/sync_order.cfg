SPECIFICATION Spec
CONSTANTS
  parent = parent
  child = child
  final = final
  edit = edit
  cParent = cParent
  p1 = p1
  p2 = p2
  Queue <- ParentThenChild
  Pushes = {p1, p2}
  Posts = {parent, child}
  Cids = {cParent}
  NoCid = NoCid
  CidOf <- Makes
  Uses <- Refers
  Base <- FirstVersion
  NoBase = NoBase
  Invalid = {}
  MaxFaults = 1
  MaxEdits = 0
SYMMETRY Symmetry
CHECK_DEADLOCK FALSE
INVARIANT OrderedAfterParents
