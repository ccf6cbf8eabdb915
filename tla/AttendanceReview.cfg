SPECIFICATION Spec
CONSTANTS
  s1 = s1  d1 = d1  d2 = d2  m1 = m1  b1 = b1  b2 = b2
  None = None
  Students = {s1}
  Dates <- OneDate
  Months = {m1}
  MonthOf <- Calendar
  Arrivals = {"on-time"}
  MaxReviews = 2
  MaxRevisions = 2
  Judgements <- ReviewJudgements
  Manual <- ReviewManual
  Batches = {b1}
  Workbooks <- ReviewWorkbooks
INVARIANTS TypeOK OriginalIsEvidence
PROPERTIES HistoryAccounts FinalizedFrozen
