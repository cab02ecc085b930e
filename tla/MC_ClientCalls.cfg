CONSTANTS
  T1 = T1
  T2 = T2
  NilOpts = NilOpts
  NilOptions = NilOpts
  Types <- MCTypes
  PageLimit = 2
  CoinsLimit = 4
  MaxOwned = 3
  Options <- MCShowEffects
  SuiCoinType = T1
SPECIFICATION Spec
CHECK_DEADLOCK FALSE
INVARIANT NilErrorMeansCommitted
INVARIANT WrappersReportFailures
