SPECIFICATION ValuesSpec
CONSTANTS
  Numbers <- MCNumbers
  Whole <- MCWhole
  Single <- MCSingle
  Six <- MCSix
  Ten <- MCTen
  abc = abc
  abcd = abcd
  Placeholder = 6
  Words <- MCWords
  Kept <- MCKept
  FullLength = {abc}
  Blank = Blank
  Nothing = Nothing
  Kinds = {"int", "float", "double", "text", "array"}
  MaxWire = 2
INVARIANTS
  ReadsAgree
  InSyncWhenQuiet
  SetTakesEffect
