\* Two overlapping confirmations of one quote.
SPECIFICATION Spec
CONSTANTS
  Product = {p1}
  Price = {1}
  MaxStock = 1
  Cart = {c1, c2}
  Item = {i1, i2}
  Quote = {q1}
  Order = {o1, o2}
  Worker = {w1, w2}
  MaxTokens = 1
  None = None
SYMMETRY Alike
INVARIANT OneOrderPerQuote
CHECK_DEADLOCK FALSE
