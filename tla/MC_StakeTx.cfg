CONSTANTS
  A = A
  B = B
  pA = pA
  pA2 = pA2
  pB = pB
  c1 = c1
  c2 = c2
  s1 = s1
  q1 = q1
  q2 = q2
  g1 = g1
  s0 = s0
  st1 = st1
  st2 = st2
  SuiSystemStateId = s0
  SuiSystemVersion = 1
  StakedRefs <- MCStakedRefs
  AmountWidth = 8
  StakeAmounts <- MCStakeAmounts
  NilPtr = NilPtr
  NoTx = NoTx
  Payments <- MCPayments
  Budgets = {1, 2}
  Prices = {1, 2}
  Unencodable = Unencodable
  NoAmount = NoAmount
  Addrs <- MCAddrs
  Ptrs <- MCPtrs
  PtrAddr <- MCPtrAddr
  Amounts <- MCAmounts
  ObjectArgs <- MCObjectArgs
  Ops = {}
  MaxList = 2
  MaxInputs = 3
  MaxCommands = 1
  IndexWidth = 16

  GetHash <- IdHash
SPECIFICATION StakeSpec
INVARIANT StakeCallsWired
