---------------------------- MODULE MC_ClientCalls ----------------------------
(* ClientCalls with two object types and pages scaled down: a page holds   *)
(* two items (QUERY_MAX_RESULT_LIMIT = 50) and GetSuiCoinsOwnedByAddress   *)
(* asks for four (200), the same ratio as the code.                         *)
EXTENDS ClientCalls

CONSTANTS T1, T2, NilOpts

MCTypes == {T1, T2}

\* Callers that ask for effects, as the tests of the repository do.
MCShowEffects == {[ShowEffects |-> TRUE]}
=============================================================================
