------------------------------- MODULE TxData -------------------------------
(***************************************************************************)
(* The transaction envelope assembler (src/sui_types/transaction.go)       *)
(* composed with the builder: after any sequence of builder calls, a       *)
(* client calls ptb.Finish() and wraps the snapshot with NewProgrammable   *)
(* or NewProgrammableAllowSponsor.  tx is the last TransactionData built.   *)
(* The builder stays usable after Finish, as in the code.                  *)
(***************************************************************************)
EXTENDS PTB

CONSTANTS
  Payments,  \* gas payment lists ([]*ObjectRef) a caller passes
  Budgets,   \* gasBudget values
  Prices,    \* gasPrice values
  NilPtr,    \* the nil *SuiAddress
  NoTx       \* no TransactionData built yet

VARIABLE tx

txVars == <<vars, tx>>

\* Finish: the inputs in key order and the builder's commands.
FinishPT(p) == [commands |-> p.Commands, inputs |-> Finish(p)]

\* TransactionData V1: Kind, Sender, GasData{Payment, Owner, Price,
\* Budget}, Expiration None.  The owner is the sponsor pointer as given.
NewProgrammableAllowSponsor(sender, pt, gasPayment, gasBudget, gasPrice, sponsor) ==
  [expiration |-> "None",
   gas  |-> [budget |-> gasBudget, owner |-> sponsor,
             payment |-> gasPayment, price |-> gasPrice],
   kind |-> pt, sender |-> sender]

\* NewProgrammable: *sender as the sender, the sender pointer as sponsor.
NewProgrammable(sender, pt, gasPayment, gasBudget, gasPrice) ==
  NewProgrammableAllowSponsor(PtrAddr[sender], pt, gasPayment, gasBudget,
                              gasPrice, sender)

TxInit == Init /\ tx = NoTx

BuilderStep == Next /\ UNCHANGED tx

\* Finish and assemble on a live builder; the builder is left as it is.
Assemble(t) == outcome # "panic" /\ tx' = t /\ UNCHANGED vars

DoNewProgrammable ==
  \E s \in Ptrs, g \in Payments, b \in Budgets, pr \in Prices :
    Assemble(NewProgrammable(s, FinishPT(P), g, b, pr))

DoNewProgrammableAllowSponsor ==
  \E s \in Addrs, sp \in Ptrs \cup {NilPtr}, g \in Payments, b \in Budgets,
     pr \in Prices :
    Assemble(NewProgrammableAllowSponsor(s, FinishPT(P), g, b, pr, sp))

TxNext == BuilderStep \/ DoNewProgrammable \/ DoNewProgrammableAllowSponsor

TxSpec == TxInit /\ [][TxNext]_txVars

-----------------------------------------------------------------------------
(* Properties.                                                             *)

\* Finish composed with the builder: every Argument of the finished
\* transaction resolves within that transaction, an Input in its input
\* list, a Result or NestedResult in an earlier command, whatever calls
\* came before and after Finish.
FinishedArgumentsResolve ==
  tx # NoTx => ArgumentsResolve(tx.kind.commands, Len(tx.kind.inputs))

\* Deduplication as the finished transaction shows it: no object id is
\* the input of two slots, and two slots hold the same pure bytes only
\* if one of them was registered by ForceSeparatePure.
FinishedInputsDistinct ==
  tx # NoTx =>
    LET ins == tx.kind.inputs IN
    \A i, j \in DOMAIN ins : i < j =>
      /\ ins[i].kind = "Object" /\ ins[j].kind = "Object"
           => ins[i].val.id # ins[j].val.id
      /\ ins[i].kind = "Pure" /\ ins[i] = ins[j]
           => "ForcedNonUniquePure" \in {InputsKeyOrder[i].kind, InputsKeyOrder[j].kind}
=============================================================================
