SPECIFICATION CalculatorSpec
CONSTANTS
  Digits <- MCFewDigits
  BufferSize = 4
  Limit = 1
  CharMod = 6
  IntMod = 16
  Unset <- MCSmallUnset
INVARIANTS OperandsInOrder DigitsOnly ResultReadsBack
CHECK_DEADLOCK FALSE
