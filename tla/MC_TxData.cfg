CONSTANTS
  A = A
  B = B
  pA = pA
  pA2 = pA2
  pB = pB
  c1 = c1
  c2 = c2
  s1 = s1
  q1 = q1
  q2 = q2
  g1 = g1
  NilPtr = NilPtr
  NoTx = NoTx
  Payments <- MCOnePayment
  Budgets = {1}
  Prices = {1}
  Unencodable = Unencodable
  NoAmount = NoAmount
  Addrs <- MCAddrs
  Ptrs <- MCPtrs
  PtrAddr <- MCPtrAddr
  Amounts <- MCAmounts
  ObjectArgs <- MCObjectArgs
  Ops = {"ForceSeparatePure", "Obj", "MoveCall"}
  MaxList = 2
  MaxInputs = 3
  MaxCommands = 1
  IndexWidth = 16

  GetHash <- IdHash
SPECIFICATION TxSpec
CHECK_DEADLOCK FALSE
INVARIANT FinishedArgumentsResolve
INVARIANT FinishedInputsDistinct
