SPECIFICATION MCSpec
CONSTANTS
  Account = {u1}
  Shop = {s1, s2}
  Call = {c1, c2}
  NoAccount = NoAccount
  NoShop = NoShop
  MaxSeats = 2
  Event = {e1}
  Writer = {w1, w2}
  Reader = {r1}
  Grace = 1
  Ttl = 1
  MaxNow = 2
  MaxWrites = 1
  MaxRestarts = 1
  NoEvent = NoEvent
SYMMETRY Symmetry
INVARIANTS SeatsSafe FreemiusSafe
PROPERTIES OwnRowsOnly
CHECK_DEADLOCK FALSE
