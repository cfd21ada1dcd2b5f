SPECIFICATION Spec
CONSTANTS
  Snapshot <- MCSnapshot
  Trimmed <- MCTrimmed
  Emails = {"x@x.x"}
  LongTexts = {"12345678"}
  Typed <- MCTyped
  Numbers <- MCNumbers
  NumberOf <- MCNumberOf
  Unsigned <- MCUnsigned
  MaxChanges <- MCMaxChanges
  Null = Null
CHECK_DEADLOCK FALSE
INVARIANTS NoStaleChoice EditKeepsTheRest SubmittedIsClean
