SPECIFICATION Spec
CONSTANTS
  a = a
  c = c
  u = u
  r1 = r1
  r2 = r2
  r3 = r3
  NoTx = NoTx
  Tx = {a, c, u}
  Ref = {r1, r2, r3}
  Spends <- MCSpends
  Collateral <- MCCollateral
  Failed = {c}
  Undecodable = {u}
  PruneEvery = 2
  SeenMax = 1
  MaxBlock = 2
  MaxEvents = 2
  MaxFaults = 1
INVARIANTS
    IndexSound
    CollisionsRight
    ConfirmedStands
PROPERTIES
    EnrichmentKept
    PendingObserved
CHECK_DEADLOCK FALSE
