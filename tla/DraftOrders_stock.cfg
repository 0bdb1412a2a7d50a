SPECIFICATION LiveSpec
CONSTANTS
  s1 = s1
  s2 = s2
  c1 = c1
  c2 = c2
  p1 = p1
  p2 = p2
  t1 = t1
  t2 = t2
  Session = {s1, s2}
  Customer = {c1, c2}
  CustomerOf <- OneCustomer
  Product = {p1, p2}
  ItemsOf <- Crossed
  Stock <- TwoEach
  Cap = 1
  Run = {t1, t2}
  MaxDrafts = 2
  Env = {"overlap", "fail", "expire"}
INVARIANTS StockConserved PlacedOnce CapHolds PlacedStays
PROPERTIES RunsEnd WithdrawnNotPlaced
CHECK_DEADLOCK FALSE
