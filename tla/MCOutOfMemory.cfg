SPECIFICATION Spec
CONSTANTS
  NR_TASKS = 3
  Page = {page0, page1}
  PageZero = page0
  Frame = {f1, f2, f3, f4}
  Data = {d0, d1}
  Zero = d0
SYMMETRY Symmetry
INVARIANTS OomEndsTheProcess
CHECK_DEADLOCK FALSE
