\* One browser tab, a user who waits for what is ending before starting all
\* again, one thread that fails.
CONSTANTS
  AutoWorkers <- TwoWorkers
  HandWorkers = {}
  Wipers <- DropsPost
  PlotOrder <- HfOnly
  HfPlot = "plot_hf"
  Addresses = {"a1"}
  Default = "a1"
  Plottable = {"a1"}
  Tabs = {t1}
  Patient = TRUE
  MaxClicks = 3
  MaxFailures = 1
SPECIFICATION FairSpec
INVARIANTS TypeOK RunningThreadIsInReach StartRunsAll
PROPERTY PlotsKeepComing
CHECK_DEADLOCK FALSE
