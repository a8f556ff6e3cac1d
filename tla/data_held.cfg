SPECIFICATION Spec
CONSTANTS
  Symbols = {a, b, c}
  Size = 2
  MaxPromotions = 1
  Persistence = 2
  ChurnMargin = 15
  Scores <- ScoreValues
  Capacity = 3
SYMMETRY Symmetry
INVARIANT HeldIsFed
CHECK_DEADLOCK FALSE
