SPECIFICATION Spec
CONSTANTS
  Programs <- MCPrograms
  Heights = {1, 3}
  Digits = {6}
  Texts <- MCTexts
  MaxChanges = 1
  MaxFails = 1
INVARIANTS ShowsTheProgram ReassemblesTheSame
PROPERTIES WritesWhatWasConfirmed
CHECK_DEADLOCK FALSE
