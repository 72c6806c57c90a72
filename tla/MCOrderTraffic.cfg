SPECIFICATION TrafficSpec
CONSTANTS
  r1 = r1
  r2 = r2
  r3 = r3
  r4 = r4
  q1 = q1
  t1 = t1
  t2 = t2
  k1 = k1
  alice = alice
  Requests = { r1, r2, r3, r4 }
  Keys = { k1 }
  Customers = { alice }
  CustomerOf <- MCCustomerOf
  KeyOf <- MCKeyOf
  NoKey = NoKey
  Readers = { q1 }
  Ticks = { t1, t2 }
  CallsOf <- MCCallsOf
  Bursts = { 0, 2 }
  POOL_SIZE = 1
  MaxRecycles = 1
  MaxDays = 1
INVARIANTS
  TypeOK
  DuplicatesReported
  RetriesCreateNothing
  CounterErrsByTicks
PROPERTIES
  EveryCallEnds
  ImplementsPool
  CallsGiveBack
