SPECIFICATION SeatsSpec
CONSTANTS
  Account = {u1}
  Shop = {s1}
  Call = {c1, c2}
  NoAccount = NoAccount
  NoShop = NoShop
  MaxSeats = 1
  Event = {e1}
  Writer = {w1}
  Reader = {r1}
  Grace = 1
  Ttl = 1
  MaxNow = 1
  MaxWrites = 1
  MaxRestarts = 0
  NoEvent = NoEvent
SYMMETRY Symmetry
PROPERTY BillingEndsItsOwn
