\* A customer who retries POST /payments after losing its answer.
SPECIFICATION RetrySpec
CONSTANTS
  o1 = o1
  o2 = o2
  o3 = o3
  p1 = p1
  p2 = p2
  p3 = p3
  f1 = f1
  w1 = w1
  w2 = w2
  w3 = w3
  None = None
  Order = {o1}
  Payment = {p1, p2}
  Foreign = {}
  Worker = {w1}
  Event <- Outcomes
  Anonymous <- NoEvents
  Mismatched <- NoEvents
  Oversized = {}
  MaxCopies = 1
  MaxCrashes = 0
PROPERTY PaymentReachesCustomer
CHECK_DEADLOCK FALSE
