\* A cart that changes between its quote and the confirmation.
SPECIFICATION Spec
CONSTANTS
  Product = {p1}
  Price = {1}
  MaxStock = 2
  Cart = {c1, c2}
  Item = {i1, i2}
  Quote = {q1}
  Order = {o1, o2}
  Worker = {w1}
  MaxTokens = 1
  None = None
SYMMETRY Alike
INVARIANT OrderIsWorthItsLines
CHECK_DEADLOCK FALSE
