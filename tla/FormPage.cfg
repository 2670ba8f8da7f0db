CONSTANTS
  Forms <- MCForms
  Related = {"a", "b", "c"}
  Fresh = {"c"}
  MaxRecords = 2
  MaxLinks = 3
  MaxLines = 2
  MaxOps = 4
  MaxFaults = 1
SPECIFICATION Spec
INVARIANT StagedTagsReachServer
INVARIANT WidgetsShowRows
INVARIANT FlagTellsFile
INVARIANT LogAccountsForRecord
CHECK_DEADLOCK FALSE
