SPECIFICATION Spec
CONSTANTS
  a1 = a1
  a2 = a2
  b1 = b1
  pa = pa
  pb = pb
  Threads = {a1, a2, b1}
  Processes = {pa, pb}
  ProcessOf <- MCProcessOf
  NoProcess = NoProcess
  MaxWipes = 1
INVARIANT OneDriver
INVARIANT LeaseIsFenced
INVARIANT NoOrphanFlock
PROPERTY RefusesOnlyStrangers
PROPERTY AcquireReturns
