CONSTANTS
  t1 = t1
  t2 = t2
  Tables = {t1}
  Columns <- MCColumns
  ColType <- MCColType
  Ints <- MCInts
  Texts <- MCTexts
  TextOf <- MCTextOf
  IntOf <- MCIntOf
  NotANumber = NotANumber
  Exprs <- MCExprs
  Statements <- RowStatements
  IndexNames = {"ia", "ib"}
  MaxId = 2
  NoSchema = NoSchema
  NoRow = NoRow
  NoSnapshot = NoSnapshot
SPECIFICATION FairSpec
INVARIANTS TypeOK IndexInSync FreshIds IndexTransparent ItemsCurrent
PROPERTIES RefinesSQLDatabase StatementsEnd
