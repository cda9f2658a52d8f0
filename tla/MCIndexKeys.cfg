CONSTANTS
  Base = 2
  IntDigits = 3
  IdDigits = 2
  Texts <- MCTexts
  RowIds = {1, 2}
SPECIFICATION Spec
INVARIANTS FindsExactly KeysTellRows
