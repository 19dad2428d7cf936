SPECIFICATION OFairSpec
CONSTANTS
  short1 = short1 short2 = short2 long = long half1 = half1 half2 = half2
  f1 = f1 f2 = f2 f3 = f3 NoFile = NoFile
  File = {f1, f2, f3}
  Line = {short1, short2, long, half1, half2}
  LinesOf <- FileLines
  Size <- LineSize
  Unreadable = {f3}
  Worker = {0, 1}
  multi = TRUE
  OUTBUF_SZ = 5
  WriteMayFail = TRUE
INVARIANTS OIInv OutMutex BufferBound LinesWhole OwnOrder
PROPERTY OTermination
\* The process ends.
CHECK_DEADLOCK FALSE
