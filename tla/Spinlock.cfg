SPECIFICATION SpinSpec
CONSTANTS
  Workers = {a, b, c}
  Iterations = 2
  Nobody = Nobody
INVARIANTS
  CounterExact
PROPERTIES
  SpinRefinesLock
  EveryWorkerFinishes
