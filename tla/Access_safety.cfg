SPECIFICATION Spec
CONSTANTS
  t1 = t1
  t2 = t2
  ann = ann
  bob = bob
  cyd = cyd
  apikey = apikey
  svc = svc
  tiers = tiers
  policy = policy
  on = on
  off = off
  None = None
  Tenant = {t1, t2}
  User = {ann, bob, cyd}
  Key = {apikey, svc}
  Item = {item}
  Code = {c1, c2}
  Group = {g1, g2}
  Name = {n1, n2}
  Field = {tiers, policy}
  Value = {on, off}
  Request = {r1, r2}
  Service = {svc}
  FirstAdmins = {ann, cyd}
  HomeOf <- MCHomeOf
  KeyTenant <- MCKeyTenant
  DefaultOf <- MCDefaultOf
  Callers <- MCCallers
  Menus <- MCMenus
  Role = {"admin", "consumer"}
  MaxArrivals = 3
INVARIANTS
  ApprovalTakesEffect
  RedeemedOnce
  ConfigIsLastSet
PROPERTIES
  ReviewsByOwnAdmins
  BooksKeptByOwn
