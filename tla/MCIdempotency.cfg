SPECIFICATION Spec
CONSTANTS
  r1 = r1
  r2 = r2
  r3 = r3
  r4 = r4
  r5 = r5
  k1 = k1
  alice = alice
  bob = bob
  Requests = { r1, r2, r3, r4, r5 }
  Keys = { k1 }
  Customers = { alice, bob }
  CustomerOf <- MCCustomerOf
  KeyOf <- MCKeyOf
  NoKey = NoKey
INVARIANT
  OneOrderPerKey
CHECK_DEADLOCK FALSE
