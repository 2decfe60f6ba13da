SPECIFICATION Spec
CONSTANTS
  r1 = r1
  r2 = r2
  b1 = b1
  b2 = b2
  s1 = s1
  s2 = s2
  Readers = {r1}
  Ebooks = {b1}
  Slots = {s1}
  Overlap = FALSE
  Limit <- NoFault
  MaxPage = 2
  Lengths = {2}
PROPERTY FlushKeepsCompletion
