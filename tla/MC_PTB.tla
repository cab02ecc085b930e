------------------------------- MODULE MC_PTB -------------------------------
(* Instantiates PTB for TLC: two addresses each held through one pointer, *)
(* one owned coin, one shared object offered immutable, mutable and with *)
(* a second initial shared version, every shared argument built on the  *)
(* one id pointer q1.                                                    *)
EXTENDS PTB

CONSTANTS A, B, pA, pA2, pB, c1, c2, s1, q1, q2

MCAddrs   == {A, B}
MCPtrs    == {pA, pB}
MCPtrAddr == (pA :> A) @@ (pB :> B)
MCAmounts == {1, 2}

\* idp stands for the *ObjectID pointer ObjectArg.id() returns.
Owned(id, v) ==
  [kind |-> "ImmOrOwned", id |-> id, idp |-> id, ver |-> v, mutable |-> FALSE]
Shared(id, ptr, v, m) ==
  [kind |-> "Shared", id |-> id, idp |-> ptr, ver |-> v, mutable |-> m]

MCObjectArgs == {Owned(c1, 1), Shared(s1, q1, 1, FALSE), Shared(s1, q1, 1, TRUE),
                 Shared(s1, q1, 2, FALSE)}

\* The shared object s1 at one version, reached through two id pointers, as
\* when two callers each parse the same object id.
MCIdPtrArgs == {Shared(s1, q1, 1, FALSE), Shared(s1, q2, 1, TRUE)}

\* Two owned coins for Pay's merge, nothing shared.
MCCoinArgs == {Owned(c1, 1), Owned(c2, 1)}

\* Two distinct pointers to the address A, as when a caller parses the
\* same address twice.
MCAliasPtrs    == {pA, pA2, pB}
MCAliasPtrAddr == (pA :> A) @@ (pA2 :> A) @@ (pB :> B)

\* BuilderArg.GetHash taken to be injective: distinct keys, distinct hashes.
IdHash(k) == k
=============================================================================
