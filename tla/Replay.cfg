SPECIFICATION ReplaySpec
CONSTANTS
  References = {r1, r2, r3, r4}
  Capacity = 3
  Levels = 2
  IntMax = 9
  Prices = {1, 2, 3}
  Shares = {1, 2}
  MaxOverflow = 1
SYMMETRY ReferenceSymmetry
INVARIANTS BooksAgree
PROPERTY DropMeansDeeper
CHECK_DEADLOCK FALSE
