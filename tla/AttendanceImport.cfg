SPECIFICATION Spec
CONSTANTS
  s1 = s1  d1 = d1  d2 = d2  m1 = m1  b1 = b1  b2 = b2
  None = None
  Students = {s1}
  Dates <- TwoDates
  Months = {m1}
  MonthOf <- Calendar
  Arrivals = {"on-time", "late"}
  MaxReviews = 1
  MaxRevisions = 1
  Judgements = {"sakit"}
  Manual = {}
  Batches = {b1, b2}
  Workbooks <- ImportWorkbooks
PROPERTIES ScansKept FinalizedFrozen
