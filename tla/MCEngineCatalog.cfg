CONSTANTS
  t1 = t1
  t2 = t2
  Tables = {t1, t2}
  Columns <- MCColumns
  ColType <- MCColType
  Ints <- MCInts
  Texts <- MCTexts
  TextOf <- MCTextOf
  IntOf <- MCIntOf
  NotANumber = NotANumber
  Exprs <- MCExprs
  Statements <- CatalogStatements
  IndexNames = {"ia", "ib"}
  MaxId = 1
  NoSchema = NoSchema
  NoRow = NoRow
  NoSnapshot = NoSnapshot
SPECIFICATION Spec
INVARIANTS IndexInSync
PROPERTY RefinesSQLDatabase
