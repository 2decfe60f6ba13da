SPECIFICATION Spec
CONSTANTS
  u1 = u1
  u2 = u2
  u3 = u3
  e1 = e1
  e2 = e2
  e3 = e3
  p1 = p1
  p2 = p2
  s1 = s1
  s2 = s2
  Ids = {u1, u2, u3}
  Emails = {e1, e2, e3}
  Passwords = {p1, p2}
  DefaultEmail = e1
  SeedPassword = p1
  Table <- TwoAdmins
  Slots = {s1, s2}
  MaxRequests = 3
SYMMETRY SlotSymmetry
INVARIANTS TypeOK AdminRemains RoleIsAsDecided PasswordIsLastSet OneAccountPerEmail
PROPERTY DeletedStaysDeleted
