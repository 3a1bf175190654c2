SPECIFICATION StageSpec
CONSTANTS
  References = {r1, r2, r3}
  Capacity = 3
  Levels = 2
  IntMax = 6
  Prices = {1, 2, 3}
  Shares = {1, 2}
  MaxOverflow = 1
SYMMETRY ReferenceSymmetry
INVARIANTS LevelsBacked LevelsMatchOrders QuoteIsBest
