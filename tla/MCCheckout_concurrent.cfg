\* Two overlapping requests.
SPECIFICATION Spec
CONSTANTS
  Product = {p1}
  Price = {1}
  MaxStock = 1
  Cart = {c1, c2}
  Item = {i1, i2}
  Quote = {q1, q2}
  Order = {o1, o2}
  Worker = {w1, w2}
  MaxTokens = 1
  None = None
SYMMETRY Alike
INVARIANTS TypeOK ConvertedByOrder OrderIsItsQuote NothingForNothing
CHECK_DEADLOCK FALSE
