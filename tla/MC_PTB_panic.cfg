CONSTANTS
  A = A
  B = B
  pA = pA
  pA2 = pA2
  pB = pB
  c1 = c1
  c2 = c2
  s1 = s1
  q1 = q1
  q2 = q2
  Unencodable = Unencodable
  NoAmount = NoAmount
  Addrs <- MCAddrs
  Ptrs <- MCPtrs
  PtrAddr <- MCPtrAddr
  Amounts <- MCAmounts
  ObjectArgs <- MCCoinArgs
  Ops = {"Obj", "TransferObject", "Pay"}
  MaxList = 2
  MaxInputs = 3
  MaxCommands = 2
  IndexWidth = 16

  GetHash <- IdHash
SPECIFICATION Spec
CHECK_DEADLOCK FALSE
INVARIANT NoPanic
