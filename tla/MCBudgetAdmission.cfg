\* Five concurrent requests, three permits, an allowance of three.
CONSTANTS
  r1 = r1
  r2 = r2
  r3 = r3
  r4 = r4
  r5 = r5
  Requests <- MCRequests
  Cost <- MCCost
  ActualCosts <- MCActualCosts
  Allowance = 3
  Permits = 3
SPECIFICATION Spec
SYMMETRY MCSymmetry
INVARIANTS
  TypeOK
  SpendIsReserved
  NoReservationWithoutAPermit
  OverspendIsBounded
