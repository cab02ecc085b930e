------------------------------ MODULE MC_TxData ------------------------------
(* Instantiates TxData with the values of MC_PTB and one gas coin ref g1.  *)
EXTENDS MC_PTB, TxData

CONSTANTS g1

\* An empty gas payment and a one-coin one.
MCPayments == {<<>>, <<g1>>}

\* The one-coin payment only, for the runs about the builder's part.
MCOnePayment == {<<g1>>}
=============================================================================
