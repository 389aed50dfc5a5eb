CONSTANTS
  Instruments = {A, B}
  Prices = {1, 2}
  MaxQty = 1
  None = None
  Programs = {"coin", "btsp", "btcc"}
  Known = {A}
  Room = 2
  MaxChanges = 3
  Deep = {B}
  Products = {A}
  Ids = {o1, o2, o3}
  Lots = {1, 2}
SYMMETRY Symmetry
SPECIFICATION Spec
INVARIANTS TypeOK DepthFollows TopsFollow
