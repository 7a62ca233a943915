CONSTANTS
  c1 = c1
  c2 = c2
  c3 = c3
  u1 = u1
  u2 = u2
  t1 = t1
  t2 = t2
  t3 = t3
  p1 = p1
  NoConn = NoConn
  NoUrl = NoUrl
  UrlOf <- MCUrlOf
  Tasks = {t1, t2}
  Pricers = {p1}
  Conns = {c1, c2}
  Urls = {u1, u2}
  Contract = "legacy"
  Offline = FALSE
  Others = FALSE
  MaxReq = 2
  MaxPhase = 2
  MaxGen = 1
  MaxOv = 0
  MaxNonce = 0
SPECIFICATION Spec
SYMMETRY MCSymmetry
INVARIANTS TypeOK CommitsInTurn
PROPERTY ImplementsBoard
CHECK_DEADLOCK FALSE
