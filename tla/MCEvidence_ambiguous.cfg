SPECIFICATION EvidenceSpec
CONSTANTS
  o1 = o1
  o2 = o2
  p1 = p1
  p2 = p2
  Order = {o1, o2}
  Payment = {p1, p2}
  Case <- Shops
  LastTime = 3
  Window = 2
  Delay = 1
INVARIANT AmbiguousIsNotClean
CHECK_DEADLOCK FALSE
