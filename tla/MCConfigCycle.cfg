SPECIFICATION FairSpec
CONSTANTS
  a = a
  b = b
  c = c
  num = num
  txt = txt
  Keys = {a, b, c}
  Absent = absent
  Literals = {num, txt}
  MaxPass = 16
  Files <- CyclicFiles
CHECK_DEADLOCK FALSE
PROPERTIES ResolvedOrRejected
