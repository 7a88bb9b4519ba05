SPECIFICATION Spec
CONSTANTS
  NR_TASKS = 4
  Page = {page0, page1}
  PageZero = page0
  Frame = {f1, f2, f3, f4, f5, f6}
  Data = {d0, d1}
  Zero = d0
SYMMETRY Symmetry
INVARIANTS CountsAreReferences TlbIsCurrent WritableIsPrivate
PROPERTIES ImplementsAddressSpaces
CHECK_DEADLOCK FALSE
