\* One request at a time, while the merchant changes price and stock.
SPECIFICATION Spec
CONSTANTS
  Product = {p1}
  Price = {1, 2}
  MaxStock = 2
  Cart = {c1, c2}
  Item = {i1, i2}
  Quote = {q1}
  Order = {o1, o2}
  Worker = {w1}
  MaxTokens = 1
  None = None
SYMMETRY Alike
INVARIANTS OneActiveCart OneRowPerProduct OneOrderPerQuote PricesWereShown
PROPERTY ImplementsCartLifecycle
CHECK_DEADLOCK FALSE
