\* The access and the settings may change for ever, but a form may be done
SPECIFICATION AllSpec
CONSTANTS
  Requests = {q1}
  Limit = 1
  MaxRows = 2
  Submissions = {s1, s2}
  Fetches = {f1, f2}
  MaxChanges = 1
  RefSchemas = {"a", "b"}
  RefTables = {"t", "u"}
  Own = "a"
  Loads = {l1, l2}
  ColumnNames = {"a", "b"}
  MaxColumns = 2
  MaxForeign = 2
  MaxEdits = 6
  DataTypes = {"int", "text", "varchar"}
  Fallback = "varchar"
  Defaults = {"0"}
  Comments = {"c"}
  MaxTries = 2
  Runs = {r1, r2}
  MaxMade = 2
  MaxRight = 2
  HistoryLimit = 1
  Items = {"t", "u"}
  Tabs = {t1, t2}
  MaxToggles = 4
INVARIANTS
  TypeOK WholeOrTold OneEntryPerRun StatementsFit
PROPERTIES
  MissedForCause EveryQuerySettles WorkbenchTold
CHECK_DEADLOCK FALSE
