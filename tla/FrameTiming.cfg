SPECIFICATION Spec
CONSTANTS
  Word = 16
  MaxStamp = 15
  MaxGap = 5
INVARIANTS
  TypeOK
  SettledTiming
