SPECIFICATION AllSpec
CONSTANTS
  Ua = {"u1", "u2"}
  Account <- MCAccounts
  Commands <- MCCommands
  Keys <- MCKeys
  Digits = {"1"}
  Space = " "
  MaxLine = 3
  Call = {"c1", "c2"}
  MaxScreens = 2
  Loopers = 2
  Lengths = {1, 3, 4, 6}
  Repeats <- MCRepeats
  Frame = 3
  MaxHeard = 18
CHECK_DEADLOCK FALSE
INVARIANTS
  AllTypesOK
  FindsOne
  LoggedOnce
PROPERTIES
  AgentsAgree
  ToneAsAsked
