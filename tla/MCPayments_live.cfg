\* Redelivery and crashes: two overlapping requests, one order, one payment.
SPECIFICATION FairSpec
CONSTANTS
  o1 = o1
  o2 = o2
  o3 = o3
  p1 = p1
  p2 = p2
  p3 = p3
  f1 = f1
  w1 = w1
  w2 = w2
  w3 = w3
  None = None
  Order = {o1}
  Payment = {p1}
  Foreign = {f1}
  Worker = {w1, w2}
  Event <- OnePayment
  Anonymous <- NoEvents
  Mismatched <- NoEvents
  Oversized = {}
  MaxCopies = 1
  MaxCrashes = 2
PROPERTY CapturedIsStored
CHECK_DEADLOCK FALSE
