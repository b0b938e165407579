\* One request at a time on three orders, one of them too large to be paid.
SPECIFICATION Spec
CONSTANTS
  o1 = o1
  o2 = o2
  o3 = o3
  p1 = p1
  p2 = p2
  p3 = p3
  f1 = f1
  w1 = w1
  w2 = w2
  w3 = w3
  None = None
  Order = {o1, o2, o3}
  Payment = {p1, p2, p3}
  Foreign = {f1}
  Worker = {w1}
  Event <- AllKinds
  Anonymous <- CapturedOfP1
  Mismatched <- FailedOfP1
  Oversized = {o3}
  MaxCopies = 2
  MaxCrashes = 1
INVARIANTS OnePaymentPerOrder OrderAgreesWithPayment
PROPERTIES SettledIsFinal ImplementsLifecycle
CHECK_DEADLOCK FALSE
