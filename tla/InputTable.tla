----------------------------- MODULE InputTable -----------------------------
(***************************************************************************)
(* The input table of ProgrammableTransactionBuilder                       *)
(* (src/sui_types/programmable_transaction_builder.go): Inputs, a Go map   *)
(* from BuilderArg.GetHash() to CallArg ("maybe has hash clash"), and      *)
(* InputsKeyOrder, the keys in insertion order.  insertFull and the        *)
(* inputs part of Finish are operators on a builder record p with fields   *)
(* Inputs, InputsKeyOrder and reg (a history of every insertFull call, its *)
(* key, returned index and value, read only by properties).  PTB extends  *)
(* this module; InputTableSpec drives the table alone and shows that it    *)
(* implements IndexMap.                                                    *)
(***************************************************************************)
EXTENDS Integers, Sequences, SequencesExt, FiniteSets

CONSTANTS
  GetHash(_),  \* BuilderArg.GetHash: hashstructure.Hash, FNV-64a
  IndexWidth   \* insertFull returns a uint16

U16(n) == n % (2^IndexWidth)

\* Mutants of insertFull: a new key is stored but not appended to
\* InputsKeyOrder; a new key's index is the length, not the length - 1.
insertFullNoAppend(p, key, value) ==
  [p |-> [p EXCEPT !.Inputs = (GetHash(key) :> value) @@ p.Inputs,
                   !.reg = @ \cup {[key |-> key, idx |-> 0, val |-> value]}],
   idx |-> 0]
insertFullIndexIsLength(p, key, value) ==
  LET h == GetHash(key)
      order == IF h \in DOMAIN p.Inputs THEN p.InputsKeyOrder
               ELSE Append(p.InputsKeyOrder, key)
  IN [p |-> [p EXCEPT !.Inputs = (h :> value) @@ p.Inputs,
                      !.InputsKeyOrder = order,
                      !.reg = @ \cup {[key |-> key, idx |-> U16(Len(order)), val |-> value]}],
      idx |-> U16(Len(order))]

\* insertFull: store the value under the key's hash; a new hash appends the
\* key and returns the last index, a present one returns the index of the
\* first key in InputsKeyOrder with that hash (0 if there is none).
insertFull(p, key, value) ==
  LET h       == GetHash(key)
      present == h \in DOMAIN p.Inputs
      found   == \E i \in DOMAIN p.InputsKeyOrder : GetHash(p.InputsKeyOrder[i]) = h
      first   == CHOOSE i \in DOMAIN p.InputsKeyOrder :
                   /\ GetHash(p.InputsKeyOrder[i]) = h
                   /\ \A j \in 1..(i-1) : GetHash(p.InputsKeyOrder[j]) # h
      order   == IF present THEN p.InputsKeyOrder
                 ELSE Append(p.InputsKeyOrder, key)
      idx     == IF ~present THEN U16(Len(order) - 1)
                 ELSE IF found THEN U16(first - 1) ELSE 0
  IN [p |-> [p EXCEPT !.Inputs = (h :> value) @@ p.Inputs,
                      !.InputsKeyOrder = order,
                      !.reg = @ \cup {[key |-> key, idx |-> idx, val |-> value]}],
      idx |-> idx]

\* Mutant: the loop over InputsKeyOrder stops one key short.
FinishDropsLast(p) ==
  [i \in 1..(Len(p.InputsKeyOrder) - 1) |-> p.Inputs[GetHash(p.InputsKeyOrder[i])]]

\* Finish: the transaction's inputs, Inputs[k.GetHash()] for each key of
\* InputsKeyOrder in order.
Finish(p) == [i \in DOMAIN p.InputsKeyOrder |-> p.Inputs[GetHash(p.InputsKeyOrder[i])]]

=============================================================================
