SPECIFICATION EvidenceSpec
CONSTANTS
  o1 = o1
  o2 = o2
  p1 = p1
  p2 = p2
  Order = {o1, o2}
  Payment = {p1, p2}
  Case <- DisturbedShop
  LastTime = 6
  Window = 10
  Delay = 1
INVARIANT AlertIsReal
CHECK_DEADLOCK FALSE
