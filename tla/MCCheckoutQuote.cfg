SPECIFICATION QuoteSpec
CONSTANTS
  hot = hot
  cold = cold
  o1 = o1
  o2 = o2
  o3 = o3
  o4 = o4
  Skus = { hot, cold }
  HotSkus = { hot }
  Orders = { o1, o2, o3, o4 }
  Quotes = { o1 }
  Factors = { 2, 4 }
  Seed <- MCSeed
  CartOf <- MCCartOf
  OversellFloors <- MCOversellFloors
  OVERSELL_CACHE_ONHAND = 5
  OVERSELL_RESTORE_ONHAND = 4
INVARIANTS
  TypeOK
  StockAccounted
  TimesOutOnlyAtHigh
PROPERTIES
  RefusedOnlyWhenShort
  ShortOnlyWhenStale
  ReplenishedAfterOversell
