SPECIFICATION FSSpec
CONSTANTS
  Names <- MCNames
  Root = "."
  Parent <- MCParent
  Long = {"long"}
  Overlong = {"overlong"}
  OutputEntries = 3
  OutputBytes = 2
  MaxWrite = 1
  Handles = {h1, h2}
  None = none
SYMMETRY Symmetric
INVARIANTS BudgetsHold NamesWellFormed
PROPERTIES StepsAccounted
CHECK_DEADLOCK FALSE
