SPECIFICATION Spec
CONSTANTS
  Threads = {t1, t2, t3}
  Nobody = Nobody
  CountMask = 2
  MaxDepth = 2
  Targets = {t1, t2}
INVARIANTS SignalReaches
PROPERTIES NotifyReaches WaiterWakes HandedOver Promises
