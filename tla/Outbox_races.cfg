CONSTANTS
  la = la
  lb = lb
  ld = ld
  ka = ka
  kb = kb
  p1 = p1
  p2 = p2
  t1 = t1
  t2 = t2
  t3 = t3
  Letters = {la, lb}
  Keys = {ka}
  OwnerKeys = {ka}
  SealedTo <- MCOneTo
  Defect <- MCOneDefect
  NeedsStep = {}
  Procs = {p1, p2}
  Tokens = {t1, t2, t3}
  NoToken = NoToken
  DefaultCapacity = 2
  MaxCapacity = 2
  MaxRefusalsKept = 1
  MaxQueued = 3
  MaxRefused = 0
SPECIFICATION Spec
INVARIANTS TypeOK SpanIsHeld FirstInFirstOut LeftOnce SentWasDelivered NoOvertaking
PROPERTY IsMailQueue
CHECK_DEADLOCK FALSE
SYMMETRY MCRaceSymmetry
