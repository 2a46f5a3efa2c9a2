SPECIFICATION Spec
CONSTANTS
  LongMax = 2
  IntMax = 255
  Word = 100000
  MaxCount = 4
  MaxStall = 4
  Parts = {"net"}
INVARIANT RateIsOfTheActive
