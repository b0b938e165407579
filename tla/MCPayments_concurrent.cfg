\* Three overlapping requests on one order that may get up to three payments.
SPECIFICATION Spec
CONSTANTS
  o1 = o1
  o2 = o2
  o3 = o3
  p1 = p1
  p2 = p2
  p3 = p3
  f1 = f1
  w1 = w1
  w2 = w2
  w3 = w3
  None = None
  Order = {o1}
  Payment = {p1, p2, p3}
  Foreign = {}
  Worker = {w1, w2, w3}
  Event <- Outcomes
  Anonymous <- NoEvents
  Mismatched <- NoEvents
  Oversized = {}
  MaxCopies = 1
  MaxCrashes = 0
SYMMETRY WorkersAndPayments
INVARIANTS TypeOK EventOnce SettledByEvent OrderOutcomeEarned PaymentRowsMoveOrder AckedIsStored
CHECK_DEADLOCK FALSE
