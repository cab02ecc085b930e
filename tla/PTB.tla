-------------------------------- MODULE PTB --------------------------------
(***************************************************************************)
(* The ProgrammableTransactionBuilder of sui_types/                        *)
(* programmable_transaction_builder.go.                                    *)
(*                                                                         *)
(* State: the three fields of the Go struct (Inputs, InputsKeyOrder,       *)
(* Commands), the outcome of the last call (ok, err or a Go panic, after   *)
(* which the builder is gone) and two history variables used only by the  *)
(* properties: reg, every insertFull call made, objReg, the key and the    *)
(* mutable flag of every object registration Obj accepted, and lastCall,  *)
(* the arguments of the last call.                                         *)
(*                                                                         *)
(* Each public method is one action: the builder is used by one goroutine  *)
(* (spec section 5), so a method runs to completion before the next one.   *)
(* Helpers (insertFull, pureBytes, Obj, payImpl, ...) are operators from a *)
(* builder value p to a record [p, arg, out], so an action is the whole    *)
(* method, including the inputs it registered before a later step failed.  *)
(*                                                                         *)
(* Abstractions: Inputs is keyed by GetHash of a BuilderArg (InputTable);  *)
(* the MC module takes the hash to be injective; BCS bytes are             *)
(* represented by their length class and the value they encode; package,  *)
(* module, function and type arguments of a MoveCall are left out.         *)
(***************************************************************************)
EXTENDS Integers, Sequences, SequencesExt, FiniteSets, TLC, InputTable

CONSTANTS
  Addrs,          \* SuiAddress values
  Ptrs,           \* *SuiAddress pointers a caller may hold
  PtrAddr,        \* the address each pointer points to
  Amounts,        \* uint64 amounts
  ObjectArgs,     \* ObjectArg values a caller may pass
  Unencodable,    \* a Go value bcs.Marshal rejects
  NoAmount,       \* the nil *uint64 of TransferSui
  MaxList,        \* longest argument list a call is given
  MaxInputs,      \* bound on InputsKeyOrder before a call
  MaxCommands,    \* bound on Commands before a call
  Ops             \* the methods the modelled client calls

ASSUME PtrAddr \in [Ptrs -> Addrs]
ASSUME Amounts \subseteq Nat
ASSUME MaxList \in Nat /\ MaxInputs \in Nat /\ MaxCommands \in Nat
ASSUME IndexWidth \in Nat \ {0}

VARIABLES Inputs, InputsKeyOrder, Commands, outcome, reg, objReg, lastCall

vars == <<Inputs, InputsKeyOrder, Commands, outcome, reg, objReg, lastCall>>

-----------------------------------------------------------------------------
(* Data.                                                                   *)


\* BCS encoding: a uint64 is 8 little-endian bytes, an address 32 raw
\* bytes; bytes are told apart by length class and encoded value.
Marshal(v) == [len |-> IF v.type = "u64" THEN 8 ELSE 32, val |-> v.val]

U64(a)     == [type |-> "u64", val |-> a]
Address(a) == [type |-> "address", val |-> a]
PureValues == {U64(a) : a \in Amounts} \cup {Address(a) : a \in Addrs}
Bytes      == {Marshal(v) : v \in PureValues}

\* Argument: Input, GasCoin, Result or NestedResult (0-based indices).
InputArg(i)        == [kind |-> "Input", a |-> i, b |-> 0]
GasCoin            == [kind |-> "GasCoin", a |-> 0, b |-> 0]
ResultArg(c)       == [kind |-> "Result", a |-> c, b |-> 0]
NestedResult(c, j) == [kind |-> "NestedResult", a |-> c, b |-> j]
NoArg              == [kind |-> "None", a |-> 0, b |-> 0]

\* Command: list is Arguments/Objects/Amounts/Sources, one is
\* Address/Coin/Destination.
Cmd(k, list, one) == [kind |-> k, list |-> list, one |-> one]

\* BuilderArg keys and CallArg values of the input table.
ObjKey(id)     == [kind |-> "Object", val |-> id]
PureKey(b)     == [kind |-> "Pure", val |-> b]
ForcedKey(n)   == [kind |-> "ForcedNonUniquePure", val |-> n]
PureCall(b)    == [kind |-> "Pure", val |-> b]
ObjectCall(o)  == [kind |-> "Object", val |-> o]
NilCall        == [kind |-> "Nil", val |-> 0]

OwnedRefs == {o \in ObjectArgs : o.kind = "ImmOrOwned"}

\* Results of a helper: the builder after it, what it returned, and
\* "ok", "err" or "panic".
Ret(p, arg, out) == [p |-> p, arg |-> arg, out |-> out]

-----------------------------------------------------------------------------
(* insertFull and the operations that register inputs.                     *)

\* Mutant: the forced ordinal counts commands instead of inputs.
pureBytesOrdinalFromCommands(p, bytes, forceSeparate) ==
  LET key == IF forceSeparate THEN ForcedKey(Len(p.Commands))
                              ELSE PureKey(bytes)
      r   == insertFull(p, key, PureCall(bytes))
  IN Ret(r.p, InputArg(r.idx), "ok")

pureBytes(p, bytes, forceSeparate) ==
  LET key == IF forceSeparate THEN ForcedKey(Cardinality(DOMAIN p.Inputs))
                              ELSE PureKey(bytes)
      r   == insertFull(p, key, PureCall(bytes))
  IN Ret(r.p, InputArg(r.idx), "ok")

\* Pure; ForceSeparatePure with forceSeparate = TRUE.
PureOp(p, value, forceSeparate) ==
  IF value = Unencodable THEN Ret(p, NoArg, "err")
  ELSE pureBytes(p, Marshal(value), forceSeparate)

\* MustPure panics where Pure returns the marshalling error.
MustPure(p, value) ==
  IF value = Unencodable THEN Ret(p, NoArg, "panic")
  ELSE pureBytes(p, Marshal(value), FALSE)

\* insertFull(BuilderArg{Object: id}, CallArg{Object: &oj}) and its Input
\* argument; objReg records the flag the caller asked for.
ObjInsert(p, key, objArg, oj) ==
  LET r == insertFull(p, key, ObjectCall(oj))
  IN Ret([r.p EXCEPT !.objReg = @ \cup {[key |-> key, mutable |-> objArg.mutable]}],
         InputArg(r.idx), "ok")

\* Mutant: the merged flag is the new argument's flag only.
ObjLastFlagWins(p, objArg) ==
  LET key == ObjKey(objArg.id)
      ins(oj) == ObjInsert(p, key, objArg, oj)
  IN IF GetHash(key) \notin DOMAIN p.Inputs THEN ins(objArg)
     ELSE LET old == p.Inputs[GetHash(key)].val IN
          IF old.kind # "Shared" \/ objArg.kind # "Shared"
            THEN Ret(p, NoArg, "panic")
          ELSE IF old.ver = objArg.ver
            THEN IF old.idp # objArg.idp THEN Ret(p, NoArg, "err") ELSE ins(objArg)
          ELSE Ret(p, NoArg, "err")

\* Mutant: the key is the whole ObjectArg, not BuilderArg{Object: id}.
ObjKeyedByArg(p, objArg) ==
  LET key == ObjKey(objArg)
      ins(oj) == ObjInsert(p, key, objArg, oj)
  IN IF GetHash(key) \notin DOMAIN p.Inputs THEN ins(objArg)
     ELSE LET old == p.Inputs[GetHash(key)].val IN
          IF old.kind # "Shared" \/ objArg.kind # "Shared"
            THEN Ret(p, NoArg, "panic")
          ELSE IF old.ver = objArg.ver
            THEN IF old.idp # objArg.idp THEN Ret(p, NoArg, "err")
                 ELSE ins([objArg EXCEPT !.mutable = old.mutable \/ objArg.mutable])
          ELSE Ret(p, NoArg, "err")

\* Obj: a second registration of the same id reads
\* SharedObject.InitialSharedVersion of both arguments, a nil dereference
\* unless both are shared. With equal versions, id() of both arguments is
\* compared: SharedObject.Id is a *ObjectID, so the pointers (idp) are
\* compared, not the ids.
Obj(p, objArg) ==
  LET key == ObjKey(objArg.id)
      ins(oj) == ObjInsert(p, key, objArg, oj)
  IN IF GetHash(key) \notin DOMAIN p.Inputs THEN ins(objArg)
     ELSE LET old == p.Inputs[GetHash(key)].val IN
          IF old.kind # "Shared" \/ objArg.kind # "Shared"
            THEN Ret(p, NoArg, "panic")
          ELSE IF old.ver = objArg.ver
            THEN IF old.idp # objArg.idp THEN Ret(p, NoArg, "err")
                 ELSE ins([objArg EXCEPT !.mutable = old.mutable \/ objArg.mutable])
          ELSE Ret(p, NoArg, "err")

Input(p, callArg) ==
  CASE callArg.kind = "Pure"   -> pureBytes(p, callArg.val, FALSE)
    [] callArg.kind = "Object" -> Obj(p, callArg.val)
    [] OTHER                   -> Ret(p, NoArg, "err")

\* One registration of a loop: an object (MakeObjList, TransferObject,
\* Pay), a call argument (MoveCall) or an amount (payImpl).
Register(kind, p, x) ==
  CASE kind = "Obj"   -> Obj(p, x)
    [] kind = "Input" -> Input(p, x)
    [] kind = "Amount" -> PureOp(p, U64(x), FALSE)

\* Register each element of xs in order, returning at the first call that
\* does not return ok; [p, args, out].
RECURSIVE EachArg(_, _, _, _)
EachArg(kind, p, xs, acc) ==
  IF xs = <<>> THEN [p |-> p, args |-> acc, out |-> "ok"]
  ELSE LET r == Register(kind, p, Head(xs)) IN
       IF r.out # "ok" THEN [p |-> r.p, args |-> acc, out |-> r.out]
       ELSE EachArg(kind, r.p, Tail(xs), Append(acc, r.arg))

-----------------------------------------------------------------------------
(* Commands.                                                               *)

\* Mutant: the Result index is the new length, without the - 1.
CommandNoDecrement(p, cmd) ==
  LET p1 == [p EXCEPT !.Commands = Append(@, cmd)]
  IN Ret(p1, ResultArg(U16(Len(p1.Commands))), "ok")

Command(p, cmd) ==
  LET p1 == [p EXCEPT !.Commands = Append(@, cmd)]
  IN Ret(p1, ResultArg(U16(U16(Len(p1.Commands)) + 2 ^ IndexWidth - 1)), "ok")

\* Mutant: the command is appended whether or not the arguments registered.
MakeObjListAppendsOnError(p, objs) ==
  LET r == EachArg("Obj", p, objs, <<>>)
      c == Command(r.p, Cmd("MakeMoveVec", r.args, NoArg))
  IN Ret(c.p, IF r.out = "ok" THEN c.arg ELSE NoArg, r.out)

MakeObjList(p, objs) ==
  LET r == EachArg("Obj", p, objs, <<>>)
  IN IF r.out # "ok" THEN Ret(r.p, NoArg, r.out)
     ELSE Command(r.p, Cmd("MakeMoveVec", r.args, NoArg))

TransferObject(p, recipient, refs) ==
  LET rec == PureOp(p, Address(PtrAddr[recipient]), FALSE)
      r   == EachArg("Obj", rec.p, refs, <<>>)
  IN IF r.out # "ok" THEN Ret(r.p, NoArg, r.out)
     ELSE Command(r.p, Cmd("TransferObjects", r.args, rec.arg))

TransferSui(p, recipient, amount) ==
  LET rec  == PureOp(p, Address(PtrAddr[recipient]), FALSE)
      amt  == PureOp(rec.p, U64(amount), FALSE)
      spl  == Command(amt.p, Cmd("SplitCoins", <<amt.arg>>, GasCoin))
      coin == IF amount = NoAmount THEN Ret(rec.p, GasCoin, "ok") ELSE spl
  IN Command(coin.p, Cmd("TransferObjects", <<coin.arg>>, rec.arg))

MoveCall(p, callArgs) ==
  LET r == EachArg("Input", p, callArgs, <<>>)
  IN IF r.out # "ok" THEN Ret(r.p, NoArg, r.out)
     ELSE Command(r.p, Cmd("MoveCall", r.args, NoArg))

PayAllSui(p, recipient) ==
  LET rec == PureOp(p, Address(PtrAddr[recipient]), FALSE)
  IN Command(rec.p, Cmd("TransferObjects", <<GasCoin>>, rec.arg))

\* Distinct recipients in first-seen order (recipientMapKeyIndex).
FirstSeen(rs) ==
  LET firsts == SelectSeq([j \in 1..Len(rs) |-> j],
                          LAMBDA j : \A k \in 1..(j-1) : rs[k] # rs[j])
  IN [k \in 1..Len(firsts) |-> rs[firsts[k]]]

\* Mutant: recipientMap records 1-based positions.
BucketOneBased(rs, v) ==
  SelectSeq([j \in 1..Len(rs) |-> j], LAMBDA j : rs[j] = v)

\* recipientMap[v]: the 0-based positions of the amounts paid to v.
Bucket(rs, v) ==
  SelectSeq([j \in 1..Len(rs) |-> j - 1], LAMBDA j : rs[j + 1] = v)

\* One TransferObjects per distinct recipient, of its split shares.
RECURSIVE Transfers(_, _, _, _)
Transfers(p, keys, rs, split) ==
  IF keys = <<>> THEN p
  ELSE LET v     == Head(keys)
           rec   == PureOp(p, Address(PtrAddr[v]), FALSE)
           js    == Bucket(rs, v)
           coins == [k \in 1..Len(js) |-> NestedResult(split, U16(js[k]))]
           c     == Command(rec.p, Cmd("TransferObjects", coins, rec.arg))
       IN Transfers(c.p, Tail(keys), rs, split)

payImpl(p, recipients, amounts, coin) ==
  IF Len(recipients) # Len(amounts) THEN Ret(p, NoArg, "err")
  ELSE IF Len(amounts) = 0 THEN Ret(p, NoArg, "ok")
  ELSE LET a == EachArg("Amount", p, amounts, <<>>)
           s == Command(a.p, Cmd("SplitCoins", a.args, coin))
       IN Ret(Transfers(s.p, FirstSeen(recipients), recipients, s.arg.a),
              NoArg, "ok")

PaySui(p, recipients, amounts) == payImpl(p, recipients, amounts, GasCoin)

Pay(p, coins, recipients, amounts) ==
  IF coins = <<>> THEN Ret(p, NoArg, "err")
  ELSE
    LET base   == Obj(p, Head(coins))
        m      == EachArg("Obj", base.p, Tail(coins), <<>>)
        merged == IF m.args = <<>> THEN m.p
                  ELSE Command(m.p, Cmd("MergeCoins", m.args, base.arg)).p
    IN IF base.out # "ok" THEN Ret(base.p, NoArg, base.out)
       ELSE IF m.out # "ok" THEN Ret(m.p, NoArg, m.out)
       ELSE payImpl(merged, recipients, amounts, base.arg)

-----------------------------------------------------------------------------
(* The specification.                                                      *)

\* The builder as the helpers see it.
P == [Inputs |-> Inputs, InputsKeyOrder |-> InputsKeyOrder,
      Commands |-> Commands, reg |-> reg, objReg |-> objReg]

Call(op, rs, as, cs) == [op |-> op, recipients |-> rs, amounts |-> as, coins |-> cs]

\* The Argument values a caller can hold: those the builder returns and the
\* gas coin.
CallerArgs ==
  {InputArg(i) : i \in 0..(Len(InputsKeyOrder) - 1)}
    \cup {ResultArg(c) : c \in 0..(Len(Commands) - 1)}
    \cup {GasCoin}

CallArgs == {PureCall(b) : b \in Bytes} \cup {ObjectCall(o) : o \in ObjectArgs}
              \cup {NilCall}

Lists(S) == BoundedSeq(S, MaxList)

\* Parallel recipient and amount lists of equal length, and one pair
\* whose lengths differ, for the mismatch error.
PayArgs ==
  UNION {{<<rs, as>> : rs \in [1..n -> Ptrs], as \in [1..n -> Amounts]} :
         n \in 0..MaxList}
    \cup {<<<<r>>, <<>>>> : r \in Ptrs}

Init ==
  /\ Inputs = <<>>
  /\ InputsKeyOrder = <<>>
  /\ Commands = <<>>
  /\ outcome = "ok"
  /\ reg = {}
  /\ objReg = {}
  /\ lastCall = Call("NewProgrammableTransactionBuilder", <<>>, <<>>, <<>>)

\* A call is made on a live builder below the bounds; r is its result.
Apply(r, call) ==
  /\ call.op \in Ops
  /\ outcome # "panic"
  /\ Len(InputsKeyOrder) < MaxInputs
  /\ Len(Commands) < MaxCommands
  /\ Inputs' = r.p.Inputs
  /\ InputsKeyOrder' = r.p.InputsKeyOrder
  /\ Commands' = r.p.Commands
  /\ reg' = r.p.reg
  /\ objReg' = r.p.objReg
  /\ outcome' = r.out
  /\ lastCall' = call

Simple(op) == Call(op, <<>>, <<>>, <<>>)

DoPure ==
  \E v \in PureValues \cup {Unencodable} : Apply(PureOp(P, v, FALSE), Simple("Pure"))
DoMustPure ==
  \E v \in PureValues \cup {Unencodable} : Apply(MustPure(P, v), Simple("MustPure"))
DoForceSeparatePure ==
  \E v \in PureValues \cup {Unencodable} :
    Apply(PureOp(P, v, TRUE), Simple("ForceSeparatePure"))
DoObj ==
  \E o \in ObjectArgs : Apply(Obj(P, o), Call("Obj", <<>>, <<>>, <<o>>))
DoInput ==
  \E c \in CallArgs : Apply(Input(P, c), Simple("Input"))
DoMakeObjList ==
  \E objs \in Lists(ObjectArgs) : Apply(MakeObjList(P, objs), Simple("MakeObjList"))
DoCommand ==
  \E args \in Lists(CallerArgs) :
    Apply(Command(P, Cmd("MoveCall", args, NoArg)), Simple("Command"))
DoTransferObject ==
  \E rcp \in Ptrs, refs \in Lists(OwnedRefs) :
    Apply(TransferObject(P, rcp, refs), Simple("TransferObject"))
DoTransferSui ==
  \E rcp \in Ptrs, amt \in Amounts \cup {NoAmount} :
    Apply(TransferSui(P, rcp, amt), Simple("TransferSui"))
DoMoveCall ==
  \E cas \in Lists(CallArgs) : Apply(MoveCall(P, cas), Simple("MoveCall"))
DoPayAllSui ==
  \E rcp \in Ptrs : Apply(PayAllSui(P, rcp), Simple("PayAllSui"))
DoPaySui ==
  \E l \in PayArgs :
    Apply(PaySui(P, l[1], l[2]), Call("PaySui", l[1], l[2], <<>>))
DoPay ==
  \E cs \in Lists(OwnedRefs), l \in PayArgs :
    Apply(Pay(P, cs, l[1], l[2]), Call("Pay", l[1], l[2], cs))

Next ==
  \/ DoPure \/ DoMustPure \/ DoForceSeparatePure \/ DoObj \/ DoInput \/ DoMakeObjList
  \/ DoCommand \/ DoTransferObject \/ DoTransferSui \/ DoMoveCall
  \/ DoPayAllSui \/ DoPaySui \/ DoPay

Spec == Init /\ [][Next]_vars

-----------------------------------------------------------------------------
(* Properties.                                                             *)

IsKey(k) == k \in {ObjKey(o.id) : o \in ObjectArgs} \cup {PureKey(b) : b \in Bytes}
            \/ (k.kind = "ForcedNonUniquePure" /\ k.val \in Nat)
Arguments == [kind : {"Input", "GasCoin", "Result", "NestedResult", "None"},
              a : Nat, b : Nat]

TypeOK ==
  /\ \A k \in Range(InputsKeyOrder) : IsKey(k)
  /\ DOMAIN Inputs = {GetHash(k) : k \in Range(InputsKeyOrder)}
  /\ \A h \in DOMAIN Inputs :
       Inputs[h] \in {PureCall(b) : b \in Bytes}
                     \cup {ObjectCall(o) : o \in ObjectArgs}
                     \cup {ObjectCall([o EXCEPT !.mutable = TRUE]) : o \in ObjectArgs}
  /\ \A c \in Range(Commands) :
       /\ c.kind \in {"MoveCall", "TransferObjects", "SplitCoins", "MergeCoins",
                      "MakeMoveVec"}
       /\ c.list \in Seq(Arguments) /\ c.one \in Arguments
  /\ outcome \in {"ok", "err", "panic"}

\* Stable input indices (insertFull, pureBytes, ForceSeparatePure): every
\* index the table ever returned for a key still designates that key, and a
\* pure or force-separated input still holds the bytes it was registered
\* with, however many inputs were registered or merged after it.
ArgumentsDenoteRegisteredInputs ==
  \A r \in reg :
    /\ r.idx < Len(InputsKeyOrder)
    /\ InputsKeyOrder[r.idx + 1] = r.key
    /\ r.key.kind # "Object" => Inputs[GetHash(r.key)] = r.val

\* Obj's shared/shared merge: a shared object's stored mutable flag is the
\* OR of the flags callers asked for in every registration Obj accepted,
\* in whatever order immutable and mutable registrations came.
SharedMutabilityIsOr ==
  \A k \in Range(InputsKeyOrder) :
    LET cell == Inputs[GetHash(k)] IN
    cell.kind = "Object" /\ cell.val.kind = "Shared" =>
      (cell.val.mutable <=> \E q \in objReg : q.key = k /\ q.mutable)

\* Every Argument a command carries is resolvable when the command runs:
\* an Input names an existing input, a Result or NestedResult an earlier
\* command, and a NestedResult of a SplitCoins one of its results
\* (Command's index arithmetic, payImpl's NestedResult indices).
ArgOK(cmds, nInputs, arg, pos) ==
  CASE arg.kind = "Input"  -> arg.a < nInputs
    [] arg.kind = "Result" -> arg.a < pos
    [] arg.kind = "NestedResult" ->
         /\ arg.a < pos
         /\ cmds[arg.a + 1].kind = "SplitCoins" =>
              arg.b < Len(cmds[arg.a + 1].list)
    [] OTHER -> TRUE

CmdArgs(c) == Range(c.list) \cup (IF c.one = NoArg THEN {} ELSE {c.one})

ArgumentsResolve(cmds, nInputs) ==
  \A pos \in 1..Len(cmds) : \A arg \in CmdArgs(cmds[pos]) :
    ArgOK(cmds, nInputs, arg, pos - 1)

WellFormedArguments == ArgumentsResolve(Commands, Len(InputsKeyOrder))

\* PaySui and Pay (payImpl's grouping): when the call succeeds with n > 0
\* amounts, it appended one SplitCoins of the paid coin (the gas coin, or
\* the input of the first coin into which the others were merged) into n
\* shares, share j of amount amounts[j]; and share j is transferred by
\* exactly one command of the transaction, to the address recipients[j]
\* points to.
PaySharesDelivered ==
  [][ (lastCall'.op \in {"PaySui", "Pay"} /\ outcome' = "ok"
         /\ lastCall'.amounts # <<>>) =>
      LET base == Len(Commands)
          as   == lastCall'.amounts
          rs   == lastCall'.recipients
          valueOf(arg) == Inputs'[GetHash(InputsKeyOrder'[arg.a + 1])]
          coinOK(c) == IF lastCall'.op = "PaySui" THEN c = GasCoin
                       ELSE c.kind = "Input"
                            /\ valueOf(c) = ObjectCall(Head(lastCall'.coins))
      IN \E s \in (base + 1)..Len(Commands') :
           LET split == Commands'[s] IN
           /\ split.kind = "SplitCoins"
           /\ coinOK(split.one)
           /\ Len(split.list) = Len(as)
           /\ \A j \in 1..Len(as) :
                /\ split.list[j].kind = "Input"
                /\ valueOf(split.list[j]) = PureCall(Marshal(U64(as[j])))
                /\ LET share == NestedResult(s - 1, j - 1)
                       ts == {t \in 1..Len(Commands') :
                                \E i \in DOMAIN Commands'[t].list :
                                  Commands'[t].list[i] = share}
                   IN /\ Cardinality(ts) = 1
                      /\ \A t \in ts :
                           /\ Commands'[t].kind = "TransferObjects"
                           /\ Len(SelectSeq(Commands'[t].list,
                                            LAMBDA x : x = share)) = 1
                           /\ valueOf(Commands'[t].one)
                                = PureCall(Marshal(Address(PtrAddr[rs[j]])))
  ]_vars

-----------------------------------------------------------------------------
(* Properties the code does not satisfy (checked in violation runs).      *)

\* Spec 4.3: conflicting registrations of an object are reported with an
\* error; Obj must never crash the program.
NoPanic == outcome # "panic"

\* Spec section 7: an operation either appends all its commands or none; a
\* call that returns an error leaves Commands as it was. MakeObjList,
\* TransferObject and MoveCall register arguments one by one and return at
\* the first that fails, after earlier ones were added to the input table
\* (:185); they must still append nothing. Pay does not (pay_partial).
CommandsAtomicOnError ==
  [][outcome' = "err" => Commands' = Commands]_vars

\* Spec 4.4 and section 8: payImpl emits one TransferObjects per distinct
\* recipient address: two transfers of shares of one split never go to
\* the same address.
OneTransferPerRecipient ==
  \A t1, t2 \in 1..Len(Commands) :
    LET c1 == Commands[t1]
        c2 == Commands[t2]
        splitOf(c) == {x.a : x \in {y \in Range(c.list) : y.kind = "NestedResult"}}
    IN /\ t1 # t2
       /\ c1.kind = "TransferObjects" /\ c2.kind = "TransferObjects"
       /\ splitOf(c1) \cap splitOf(c2) # {}
       => c1.one # c2.one


\* Spec 4.3 and section 8: registering a shared object again with the
\* initial shared version it is registered with is compatible; Obj returns
\* its index and merges the mutable flag, never an error.
CompatibleSharedReused ==
  [][ LET o == lastCall'.coins[1] IN
      /\ lastCall'.op = "Obj"
      /\ o.kind = "Shared"
      /\ \E k \in Range(InputsKeyOrder) :
           /\ k = ObjKey(o.id)
           /\ Inputs[GetHash(k)].val.kind = "Shared"
           /\ Inputs[GetHash(k)].val.ver = o.ver
      => outcome' = "ok" ]_vars
=============================================================================
