SPECIFICATION FairSpec
CONSTANTS
  a = a
  b = b
  c = c
  num = num
  txt = txt
  Keys = {a, b, c}
  Absent = absent
  Literals = {num, txt}
  MaxPass = 16
  Files <- AcyclicFiles
CHECK_DEADLOCK FALSE
INVARIANTS ResolvedAsWritten
PROPERTIES ResolvedOrRejected
