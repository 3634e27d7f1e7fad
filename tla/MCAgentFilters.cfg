SPECIFICATION Spec
CONSTANTS
  Agents = {a1, a2}
  Messages = {m1}
  Registrations = {first, again, package, trusted}
  First = {first, again}
  SystemTrust = {trusted}
  d1 = d1
  d2 = d2
  Deliveries = {d1, d2}
SYMMETRY Symmetry
INVARIANTS
  EveryFilterPassed
  LostToOverlap
  RiskyNeverPlain
  BlockedNeverDelivered
