SPECIFICATION Spec
CONSTANTS
  r1 = r1  r2 = r2  w1 = w1  w2 = w2  a = a  b = b  z = z  NoProc = NoProc
  Procs = {r1, r2, w1}
  Byte = {a, z}
  Zero = z
  SIZE = 1
  Calls <- FewCalls
  May <- ThreeMay
  Signalled = {}
INVARIANTS MutexHeldInCritical NoLostReadWakeup NoLostWriteWakeup WaiterIsQueued
