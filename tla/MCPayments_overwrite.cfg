\* Two overlapping webhooks of one payment.
SPECIFICATION Spec
CONSTANTS
  o1 = o1
  o2 = o2
  o3 = o3
  p1 = p1
  p2 = p2
  p3 = p3
  f1 = f1
  w1 = w1
  w2 = w2
  w3 = w3
  None = None
  Order = {o1}
  Payment = {p1}
  Foreign = {f1}
  Worker = {w1, w2}
  Event <- OnePayment
  Anonymous <- NoEvents
  Mismatched <- NoEvents
  Oversized = {}
  MaxCopies = 1
  MaxCrashes = 0
PROPERTY SettledIsFinal
CHECK_DEADLOCK FALSE
