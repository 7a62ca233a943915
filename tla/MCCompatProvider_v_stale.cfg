CONSTANTS
  c1 = c1
  c2 = c2
  c3 = c3
  u1 = u1
  u2 = u2
  t1 = t1
  t2 = t2
  t3 = t3
  p1 = p1
  NoConn = NoConn
  NoUrl = NoUrl
  UrlOf <- MCUrlOf
  Tasks = {t1, t2}
  Pricers = {}
  Conns = {c1, c3}
  Urls = {u1, u2}
  Contract = "publish"
  Offline = FALSE
  Others = FALSE
  MaxReq = 2
  MaxPhase = 2
  MaxGen = 2
  MaxOv = 0
  MaxNonce = 1
SPECIFICATION Spec
INVARIANT StaleMeansForeign
CHECK_DEADLOCK FALSE
