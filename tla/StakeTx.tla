------------------------------ MODULE StakeTx ------------------------------
(***************************************************************************)
(* The stake transaction helpers of src/sui/extend_calls.go:               *)
(* BCS_RequestAddStake and BCS_RequestWithdrawStake.  Each call builds a   *)
(* fresh ProgrammableTransactionBuilder, registers its inputs, appends its *)
(* commands, finishes it and wraps the snapshot with NewProgrammable; the  *)
(* TransactionData is what the helper hands to bcs.Marshal.  One action   *)
(* per helper, from the arguments to the result: the builder variables    *)
(* hold the helper's builder as it was when the helper returned, tx the   *)
(* TransactionData it marshalled, and lastCall the arguments it was given. *)
(***************************************************************************)
EXTENDS TxData

CONSTANTS
  StakeAmounts,     \* *models.BigInt amounts, possibly outside uint64
  StakedRefs,       \* StakedSui object refs (owned ObjectArgs)
  SuiSystemStateId, \* SuiObjectIdSystemState
  SuiSystemVersion, \* SuiSystemStateObjectSharedVersion
  AmountWidth       \* big.Int.Uint64 keeps the low 64 bits of |x|

\* SuiSystemMutObj: the system state object, shared and mutable; its Id is
\* the package-level pointer SuiObjectIdSystemState, the same in every call.
SuiSystemMutObj ==
  [id |-> SuiSystemStateId, idp |-> SuiSystemStateId, kind |-> "Shared",
   mutable |-> TRUE, ver |-> SuiSystemVersion]

\* amount.Uint64(): big.Int's low 64 bits of the absolute value.
BigUint64(x) == (IF x < 0 THEN -x ELSE x) % (2 ^ AmountWidth)

\* NewProgrammableTransactionBuilder: empty inputs, key order and commands.
\* Written as a reset of the current builder so that TLC evaluates it per
\* step rather than caching one constant record shared by its workers.
NewBuilder == [P EXCEPT !.Inputs = <<>>, !.InputsKeyOrder = <<>>,
                        !.Commands = <<>>, !.reg = {},
                        !.objReg = {}]

\* A helper's result: its builder, the TransactionData, ok or err.
Done(p, t, out) == [out |-> out, p |-> p, tx |-> t]

\* Finish, NewProgrammable; the helper returns bcs.Marshal(tx).
Wrap(p, signer, gas, budget, price) ==
  Done(p, NewProgrammable(signer, FinishPT(p), gas, budget, price), "ok")

RequestAddStake(signer, coins, amount, validator, budget, price) ==
  LET amt  == PureOp(NewBuilder, U64(BigUint64(amount)), FALSE)
      sys  == Obj(amt.p, SuiSystemMutObj)
      spl  == Command(sys.p, Cmd("SplitCoins", <<amt.arg>>, GasCoin))
      val  == PureOp(spl.p, Address(PtrAddr[validator]), FALSE)
      call == Command(val.p, Cmd("MoveCall", <<sys.arg, spl.arg, val.arg>>, NoArg))
  IN IF amt.out # "ok" THEN Done(amt.p, NoTx, amt.out)
     ELSE IF sys.out # "ok" THEN Done(sys.p, NoTx, sys.out)
     ELSE IF val.out # "ok" THEN Done(val.p, NoTx, val.out)
     ELSE Wrap(call.p, signer, coins, budget, price)

RequestWithdrawStake(signer, stakedSuiRef, gas, budget, price) ==
  LET sys  == Obj(NewBuilder, SuiSystemMutObj)
      stk  == Obj(sys.p, stakedSuiRef)
      call == Command(stk.p, Cmd("MoveCall", <<sys.arg, stk.arg>>, NoArg))
  IN IF sys.out # "ok" THEN Done(sys.p, NoTx, sys.out)
     ELSE IF stk.out # "ok" THEN Done(stk.p, NoTx, stk.out)
     ELSE Wrap(call.p, signer, gas, budget, price)

\* The caller gets the helper's result; its builder is not kept.
Returns(r, call) ==
  /\ Inputs' = r.p.Inputs
  /\ InputsKeyOrder' = r.p.InputsKeyOrder
  /\ Commands' = r.p.Commands
  /\ reg' = r.p.reg
  /\ objReg' = r.p.objReg
  /\ outcome' = r.out
  /\ tx' = r.tx
  /\ lastCall' = call

DoRequestAddStake ==
  \E s \in Ptrs, g \in Payments, a \in StakeAmounts, v \in Ptrs, b \in Budgets,
     pr \in Prices :
    Returns(RequestAddStake(s, g, a, v, b, pr), Call("RequestAddStake", <<v>>, <<a>>, g))

DoRequestWithdrawStake ==
  \E s \in Ptrs, ref \in StakedRefs, g \in Payments, b \in Budgets, pr \in Prices :
    Returns(RequestWithdrawStake(s, ref, g, b, pr),
            Call("RequestWithdrawStake", <<>>, <<>>, <<ref>>))

StakeNext == DoRequestAddStake \/ DoRequestWithdrawStake

StakeSpec == TxInit /\ [][StakeNext]_txVars

-----------------------------------------------------------------------------
(* Properties.                                                             *)

\* The two helpers wire their arguments as the system's add_stake and
\* request_withdraw_stake expect: add_stake(system state, the coin split
\* from the gas coin by the amount input, the validator's address) and
\* withdraw(system state, the StakedSui object), with the system state
\* registered shared and mutable; the finished transaction has exactly
\* these commands and nothing but their inputs.
StakeCallsWired ==
  tx # NoTx =>
    LET ins  == tx.kind.inputs
        cmds == tx.kind.commands
        at(arg) == ins[arg.a + 1]
        isSys(arg) == arg.kind = "Input" /\ at(arg) = ObjectCall(SuiSystemMutObj)
    IN CASE lastCall.op = "RequestAddStake" ->
              /\ Len(cmds) = 2 /\ Len(ins) = 3
              /\ cmds[1].kind = "SplitCoins" /\ cmds[1].one = GasCoin
              /\ Len(cmds[1].list) = 1 /\ at(cmds[1].list[1]).kind = "Pure"
              /\ cmds[2].kind = "MoveCall" /\ Len(cmds[2].list) = 3
              /\ isSys(cmds[2].list[1])
              /\ cmds[2].list[2] = ResultArg(0)
              /\ at(cmds[2].list[3])
                   = PureCall(Marshal(Address(PtrAddr[lastCall.recipients[1]])))
         [] lastCall.op = "RequestWithdrawStake" ->
              /\ Len(cmds) = 1 /\ Len(ins) = 2
              /\ cmds[1].kind = "MoveCall" /\ Len(cmds[1].list) = 2
              /\ isSys(cmds[1].list[1])
              /\ at(cmds[1].list[2]) = ObjectCall(lastCall.coins[1])
         [] OTHER -> FALSE
=============================================================================
