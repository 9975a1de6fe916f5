SPECIFICATION MCSpec
CONSTANTS
  Windows = {first, second, limit}
  Manual = {limit}
  MaxRequests = 2
  MaxRows = 2
  r1 = r1
  r2 = r2
  r3 = r3
  k1 = k1
  k2 = k2
  GridRows = {r1, r2}
  Rows = {r1, r2, r3}
  Keys = {k1, k2}
  KeyOf <- SharedKey
  Values = {"new"}
  Initial = "old"
  MaxEntries = 2
  Saves = {s1, s2}
  Conditions = {"c", "d"}
  RawTexts = {"r", "s"}
  MaxChips = 2
  LastPage = 1
  LiteralTexts <- SomeTexts
  TableTabs = {"t"}
  RoutineTabs = {"f"}
  DesignTabs = {"s"}
  LastTime = 1
INVARIANTS
  TypeOK NoMixedRows SuccessIsWhole ShownIsDone
PROPERTIES
  WrongTotalOvertaken LoadingEnds EditsReach AskedAndKept
CHECK_DEADLOCK FALSE
