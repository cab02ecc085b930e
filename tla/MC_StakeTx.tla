------------------------------ MODULE MC_StakeTx ------------------------------
(* Instantiates StakeTx: two StakedSui refs, the system state object s0,   *)
(* amounts at the edges of a uint64 scaled to AmountWidth bits.            *)
EXTENDS MC_TxData, StakeTx

CONSTANTS s0, st1, st2

MCStakedRefs == {Owned(st1, 1), Owned(st2, 1)}

\* Amounts a uint64 holds: zero, one and the largest.
MCStakeAmounts == {0, 1, 2 ^ AmountWidth - 1}
=============================================================================
