CONSTANTS
  t1 = t1
  t2 = t2
  t3 = t3
  Columns <- MCColumns
  ColType <- MCColType
  Ints <- MCInts
  Texts <- MCTexts
  TextOf <- MCTextOf
  IntOf <- MCIntOf
  NotANumber = NotANumber
  Exprs <- MCExprs
  Tables = {t1, t2}
  ColumnsOf <- MCColumnsOf
  IndexedOf <- MCIndexedOf
  Place <- MCPlace
  Contents <- MCContents
  Queries <- MCQueries
  Havings <- MCHavings
  Exact = 4
  MaxInt = 5
  NoLimit = NoLimit
SPECIFICATION Spec
INVARIANTS TypeOK RowsComplete RowsSorted GroupsPartition TotalsAgree HavingNumeric
PROPERTY PlanAsExecuted
