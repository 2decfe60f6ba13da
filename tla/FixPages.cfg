SPECIFICATION FixSpec
CONSTANTS
  r1 = r1
  b1 = b1
  b2 = b2
  s1 = s1
  Readers = {r1}
  Ebooks = {b1}
  Slots = {s1}
  Overlap = FALSE
  MaxPage = 3
  Lengths = {0, 1, 2, 3}
  Limit <- WithFault
  Actual <- TwoPages
  MaxRuns = 2
PROPERTIES FixHolds CappedOnce
