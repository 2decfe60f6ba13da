SPECIFICATION Spec
CONSTANTS
  ann = ann
  root = root
  bob = bob
  b1 = b1
  b2 = b2
  s1 = s1
  s2 = s2
  Users = {ann, bob, root}
  Admins = {root}
  Books = {b1, b2}
  Slots = {s1, s2}
  MaxRequests = 1
INVARIANT ListAnswers
