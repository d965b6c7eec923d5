\* Two blocks, an address liquidated in both and one that never was, one request
\* by the form.
CONSTANTS
  b = b
  n = n
  Targets = {b, n}
  Deposits <- RowsOf
  Calls <- CallsOf
  MaxBlock = 2
  Charts = {c1, c2}
  MaxPosts = 1
  None = None
SPECIFICATION FairSpec
INVARIANTS TypeOK AloneIsComplete
PROPERTY AutoPlotKeepsUp
CHECK_DEADLOCK FALSE
