SPECIFICATION Spec
CONSTANTS
  Proc = {p1, p2}
  Block = {k1, k2, k3}
  Data = {d0, d1}
  MaxSize = 2
  NoBlock = NoBlock
  None = None
SYMMETRY Symmetry
INVARIANTS TypeOK OneBufferPerBlock HolderHasItsBlock CountIsUsers
PROPERTIES ImplementsBlockStore
