SPECIFICATION Spec
CONSTANTS
  Orders = { o1 }
  STUCK_AGE = 2
  MAX_REPORTS_PER_ORDER = 3
INVARIANTS
  ReportsCapped
PROPERTIES
  StallsSurface
