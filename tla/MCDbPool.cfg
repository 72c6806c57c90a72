SPECIFICATION Spec
CONSTANTS
  Queries = { q1, q2, q3 }
  POOL_SIZE = 2
  MaxRecycles = 2
INVARIANTS
  TypeOK
  OneHolder
  NoNeedlessWait
  BooksBalance
PROPERTY
  PlacesComeBack
