--------------------------- MODULE InputTableSpec ---------------------------
(***************************************************************************)
(* The input table on its own: a client inserts any key with any value     *)
(* through insertFull (InputTable); the refinement mapping reads the table *)
(* the way Finish does.                                                    *)
(***************************************************************************)
EXTENDS InputTable

CONSTANTS
  Keys,        \* BuilderArg values inserted by the client
  Values       \* CallArg values

VARIABLES
  Inputs, InputsKeyOrder,
  index,  \* what the last insertFull returned
  call    \* the <<key, value>> it was called with

vars == <<Inputs, InputsKeyOrder, index, call>>

\* The table as a builder record; this specification keeps no reg history.
P == [Inputs |-> Inputs, InputsKeyOrder |-> InputsKeyOrder, reg |-> {}]

\* NewProgrammableTransactionBuilder: an empty map and key order.
Init == Inputs = <<>> /\ InputsKeyOrder = <<>> /\ index = 0 /\ call = <<>>

InsertFull(k, v) ==
  LET r == insertFull(P, k, v) IN
  /\ Inputs' = r.p.Inputs
  /\ InputsKeyOrder' = r.p.InputsKeyOrder
  /\ index' = r.idx
  /\ call' = <<k, v>>

Next == \E k \in Keys, v \in Values : InsertFull(k, v)

Spec == Init /\ [][Next]_vars

TypeOK ==
  /\ DOMAIN Inputs = {GetHash(k) : k \in Range(InputsKeyOrder)}
  /\ Inputs \in [DOMAIN Inputs -> Values]
  /\ InputsKeyOrder \in Seq(Keys)
  /\ index \in 0..(2^IndexWidth - 1)

\* Refinement: the finished inputs, paired with their keys, and the index
\* each insertFull returns are those of indexmap's insert_full.
Abs == INSTANCE IndexMap WITH
         entries <- [i \in DOMAIN InputsKeyOrder |->
                       <<InputsKeyOrder[i], Finish(P)[i]>>]

\* insertFull, as Finish reads the table, behaves as IndexMap::insert_full:
\* the Go map keyed by a 64-bit hash stands in for the key itself.
ImplementsIndexMap == Abs!Spec
=============================================================================
