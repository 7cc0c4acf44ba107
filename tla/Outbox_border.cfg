CONSTANTS
  la = la
  lb = lb
  ld = ld
  ka = ka
  kb = kb
  p1 = p1
  p2 = p2
  t1 = t1
  t2 = t2
  t3 = t3
  Letters = {lb, ld}
  Keys <- MCKeys
  OwnerKeys = {ka}
  SealedTo <- MCSealedTo
  Defect <- MCDefect
  NeedsStep = {lb}
  Procs = {p1}
  Tokens = {t1, t2}
  NoToken = NoToken
  DefaultCapacity = 1
  MaxCapacity = 1
  MaxRefusalsKept = 1
  MaxQueued = 2
  MaxRefused = 2
SPECIFICATION LiveSpec
INVARIANTS  RefusalsAreNewest
PROPERTY Drains
CHECK_DEADLOCK FALSE
