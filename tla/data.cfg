SPECIFICATION Spec
CONSTANTS
  Symbols = {a, b, c}
  Size = 2
  MaxPromotions = 1
  Persistence = 2
  ChurnMargin = 15
  Scores <- ScoreValues
  Capacity = 2
SYMMETRY Symmetry
INVARIANTS TypeOK FeedsAlive
PROPERTIES HeldKeepsItsFeed SwapsAreEarned
CHECK_DEADLOCK FALSE
