SPECIFICATION Spec
CONSTANTS
  Warehouses <- MCWarehouses
  OffsetsOf <- MCOffsetsOf
  Instants <- MCInstants
  UnitCounts = { 1, 2 }
INVARIANT
  PromiseAnchoredToCutoff
