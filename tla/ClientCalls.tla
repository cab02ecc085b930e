---------------------------- MODULE ClientCalls ----------------------------
(***************************************************************************)
(* The convenience wrappers of src/sui/extend_calls.go over the JSON-RPC   *)
(* client: SignAndExecuteTransaction, PublishContract,                    *)
(* BuildAndPublishContract, MintToken, GetSuiCoinsOwnedByAddress,         *)
(* BatchGetObjectsOwnedByAddress and BatchGetFilteredObjectsOwnedByAddress.*)
(* Each wrapper is one action from its arguments and the answers of the   *)
(* external calls it makes (signer, node, Move compiler) to its result.   *)
(* The answers are chosen freely (env): every external call may fail, a   *)
(* transaction may fail on chain, and a paged query returns at most       *)
(* PageLimit items, the node's QUERY_MAX_RESULT_LIMIT (line 166).          *)
(***************************************************************************)
EXTENDS Integers, Sequences, SequencesExt, FiniteSets

CONSTANTS
  Types,        \* Move object types
  PageLimit,    \* QUERY_MAX_RESULT_LIMIT: the node's cap on one page
  CoinsLimit,   \* the Limit GetSuiCoinsOwnedByAddress asks for (200)
  MaxOwned,     \* bound on the objects one address owns
  Options,      \* *SuiTransactionBlockResponseOptions the caller passes
  NilOptions,   \* the nil options pointer
  SuiCoinType   \* 0x2::sui::SUI, the node's default coin type

VARIABLES lastCall, result

vars == <<lastCall, result>>

\* What GetOwnedObjects with ShowType returns for each owned object: Data
\* nil (an error object) or Data with its type; an id is a position.
OwnedObjects ==
  UNION {[1..n -> [data : BOOLEAN, type : Types]] : n \in 0..MaxOwned}

\* BatchGetObjectsOwnedByAddress's filterType: a type name or "", possibly
\* with surrounding spaces.
FilterTypes == [pad : BOOLEAN, name : Types \cup {""}]

\* The filter closure: nil, or the one BatchGetObjectsOwnedByAddress makes.
Filters == {[kind |-> "nil", name |-> ""]}
           \cup {[kind |-> "type", name |-> t] : t \in Types \cup {""}}

\* The node's answer to a paged query: the first min(limit, PageLimit)
\* items; HasNextPage and NextCursor are never read by the wrappers.
FirstPage(s, limit) == SubSeq(s, 1, Min({Len(s), limit, PageLimit}))

TrimSpace(f) == f.name

\* filter == nil || filter(obj.Data); the closure of
\* BatchGetObjectsOwnedByAddress is filterType == "" || filterType == Type.
Keeps(filter, o) == filter.kind = "nil" \/ filter.name = "" \/ filter.name = o.type

\* A wrapper's result: ok, err or panic; the object ids it fetched, the
\* coins it returned, whether it returned a package id; for transaction
\* wrappers, whether the response carries Effects and what they say.
Res(out, ids, count, pkg, effects, success) ==
  [count |-> count, effects |-> effects, ids |-> ids, out |-> out,
   pkg |-> pkg, success |-> success]

Err   == Res("err", <<>>, 0, FALSE, FALSE, FALSE)
Panic == Res("panic", <<>>, 0, FALSE, FALSE, FALSE)

\* The answers of the external calls one wrapper call gets.
AllEnvs == [signed : BOOLEAN, executed : BOOLEAN, success : BOOLEAN,
            published : BOOLEAN, built : BOOLEAN, pkgFound : BOOLEAN,
            moveCalled : BOOLEAN, fetched : BOOLEAN, multiFetched : BOOLEAN,
            picked : BOOLEAN]

\* The answers of the calls in S; a call a wrapper does not make answers
\* FALSE.
Envs(S) == {e \in AllEnvs : \A f \in DOMAIN e \ S : ~e[f]}

SignCalls == {"signed", "executed", "success"}
FetchCalls == {"fetched", "multiFetched"}

\* Mutant: the effects status is not looked at.
SignAndExecuteIgnoresStatus(opts, env) ==
  IF ~env.signed \/ ~env.executed THEN Err
  ELSE IF opts = NilOptions THEN Panic
  ELSE Res("ok", <<>>, 0, FALSE, opts.ShowEffects, env.success)

\* Sign, execute with WaitForLocalExecution, and fail on failed effects;
\* options.ShowEffects dereferences the options pointer; the node returns
\* Effects only when they were asked for.
SignAndExecuteTransaction(opts, env) ==
  IF ~env.signed THEN Err
  ELSE IF ~env.executed THEN Err
  ELSE IF opts = NilOptions THEN Panic
  ELSE IF opts.ShowEffects /\ ~env.success
       THEN Res("err", <<>>, 0, FALSE, TRUE, FALSE)
  ELSE Res("ok", <<>>, 0, FALSE, opts.ShowEffects, env.success)

\* Mutant: the on-chain status is read before the error, as
\* !txnResponse.Effects.Data.IsSuccess() || err != nil.
PublishContractEffectsFirst(opts, env) ==
  IF ~env.published THEN Err
  ELSE LET r == SignAndExecuteTransaction(opts, env) IN
       IF r.out = "panic" THEN r
       ELSE IF ~r.effects THEN Panic
       ELSE IF r.out = "err" \/ ~r.success THEN Err
       ELSE IF ~env.pkgFound THEN Err
       ELSE [r EXCEPT !.pkg = TRUE]

\* Publish, SignAndExecuteTransaction, then err != nil ||
\* !txnResponse.Effects.Data.IsSuccess(), then GetPublishedPackageID.
PublishContract(opts, env) ==
  IF ~env.published THEN Err
  ELSE LET r == SignAndExecuteTransaction(opts, env) IN
       IF r.out = "panic" THEN r
       ELSE IF r.out = "err" THEN Err
       ELSE IF ~r.effects THEN Panic
       ELSE IF ~r.success THEN Err
       ELSE IF ~env.pkgFound THEN Err
       ELSE [r EXCEPT !.pkg = TRUE]

\* utils.MoveBuild, then the same steps as PublishContract.
BuildAndPublishContract(opts, env) ==
  IF ~env.built THEN Err ELSE PublishContract(opts, env)

\* MoveCall "mint" through the node, then SignAndExecuteTransaction; an
\* error drops the response.
MintToken(opts, env) ==
  IF ~env.moveCalled THEN Err
  ELSE LET r == SignAndExecuteTransaction(opts, env) IN
       IF r.out = "err" THEN Err ELSE r

\* The event_pubsub example's Publisher.PublishEvents: MoveCall of
\* eventpub::emit_clock, SignTransactionBlock, ExecuteTransactionBlock with
\* ShowEffects; every error is log.Panic, and the response is only logged,
\* its status never read.
PublishEvents(env) ==
  IF ~env.moveCalled \/ ~env.signed \/ ~env.executed THEN Panic
  ELSE Res("ok", <<>>, 0, FALSE, TRUE, env.success)

PageRes(ids) == Res("ok", ids, Len(ids), FALSE, FALSE, FALSE)

\* One JSON-RPC call whose answer the model does not look into.
NodeAnswer(env) == IF env.fetched THEN Res("ok", <<>>, 0, FALSE, FALSE, FALSE) ELSE Err

\* The coin queries of api_coin_query.go are one CallContext each (the two
\* branches of GetBalance differ only in the parameters sent); the pages
\* and balances the node answers with are not read by any wrapper.
GetAllBalances(env)  == NodeAnswer(env)
GetCoinMetadata(env) == NodeAnswer(env)
GetTotalSupply(env)  == NodeAnswer(env)
GetAllCoins(env)     == NodeAnswer(env)
GetCoins(env)        == NodeAnswer(env)
GetBalance(env)      == NodeAnswer(env)

\* GetCoins of the owner's SUI coins from the first, Limit 200, and the
\* page's Data: the positions of the first SUI coins, at most a page.
GetSuiCoinsOwnedByAddress(owned, env) ==
  IF ~env.fetched THEN Err
  ELSE PageRes(FirstPage(SelectSeq([i \in 1..Len(owned) |-> i],
                                   LAMBDA i : owned[i].type = SuiCoinType),
                         CoinsLimit))

\* GetCoins of the owner's SUI coins, Limit 200, then models.PickupCoins
\* (not in the repository) on the page: it fails (env.picked false) or
\* returns the coins it picked from the page.
GetCoinObjsForTargetAmount(owned, picked, env) ==
  IF GetCoins(env).out = "err" THEN Err
  ELSE IF ~env.picked THEN Err
  ELSE PageRes(picked)

\* GetOwnedObjects (no Limit, ShowType), skip objects without Data and
\* those the filter rejects, MultiGetObjects of the rest in page order.
BatchGetFilteredObjectsOwnedByAddress(owned, filter, env) ==
  IF ~env.fetched THEN Err
  ELSE LET page == FirstPage(owned, PageLimit)
           ids  == SetToSortSeq({i \in DOMAIN page :
                                   page[i].data /\ Keeps(filter, page[i])}, <)
       IN IF ~env.multiFetched THEN Err
          ELSE Res("ok", ids, Len(ids), FALSE, FALSE, FALSE)

BatchGetObjectsOwnedByAddress(owned, filterType, env) ==
  BatchGetFilteredObjectsOwnedByAddress(
    owned, [kind |-> "type", name |-> TrimSpace(filterType)], env)

NoCall == [env |-> CHOOSE e \in Envs({}) : TRUE, filter |-> CHOOSE f \in Filters : TRUE,
           op |-> "None", opts |-> NilOptions, owned |-> <<>>]

Call(op, opts, env, owned, filter) ==
  [env |-> env, filter |-> filter, op |-> op, opts |-> opts, owned |-> owned]

Init == lastCall = NoCall /\ result = Res("none", <<>>, 0, FALSE, FALSE, FALSE)

TxOps == {"SignAndExecuteTransaction", "PublishContract",
          "BuildAndPublishContract", "MintToken"}

Returns(r, call) == result' = r /\ lastCall' = call

DoTx(op, S, R(_, _)) ==
  \E o \in Options, e \in Envs(S) :
    Returns(R(o, e), Call(op, o, e, <<>>, NoCall.filter))

DoSignAndExecuteTransaction == DoTx("SignAndExecuteTransaction", SignCalls, SignAndExecuteTransaction)
DoPublishContract == DoTx("PublishContract", SignCalls \cup {"published", "pkgFound"},
                         PublishContract)
DoBuildAndPublishContract == DoTx("BuildAndPublishContract",
                           SignCalls \cup {"built", "published", "pkgFound"},
                           BuildAndPublishContract)
DoMintToken == DoTx("MintToken", SignCalls \cup {"moveCalled"}, MintToken)

DoGetCoinObjsForTargetAmount ==
  \E s \in OwnedObjects, e \in Envs({"fetched", "picked"}) :
    \E S \in SUBSET Range(GetSuiCoinsOwnedByAddress(s, e).ids) :
      Returns(GetCoinObjsForTargetAmount(s, SetToSortSeq(S, <), e),
              Call("GetCoinObjsForTargetAmount", NilOptions, e, s, NoCall.filter))

CoinQueryOps == {"GetAllBalances", "GetCoinMetadata", "GetTotalSupply",
                 "GetAllCoins", "GetCoins", "GetBalance"}

\* The coin queries of api_coin_query.go, on an owner's coins.
DoCoinQuery ==
  \E e \in Envs({"fetched"}) :
    LET Q(op, r) == Returns(r, Call(op, NilOptions, e, <<>>, NoCall.filter)) IN
    \/ Q("GetAllBalances", GetAllBalances(e))
    \/ Q("GetCoinMetadata", GetCoinMetadata(e))
    \/ Q("GetTotalSupply", GetTotalSupply(e))
    \/ Q("GetAllCoins", GetAllCoins(e))
    \/ Q("GetCoins", GetCoins(e))
    \/ Q("GetBalance", GetBalance(e))

DoPublishEvents ==
  \E e \in Envs(SignCalls \cup {"moveCalled"}) :
    Returns(PublishEvents(e), Call("PublishEvents", NilOptions, e, <<>>, NoCall.filter))

DoGetSuiCoinsOwnedByAddress ==
  \E s \in OwnedObjects, e \in Envs({"fetched"}) :
    Returns(GetSuiCoinsOwnedByAddress(s, e),
            Call("GetSuiCoinsOwnedByAddress", NilOptions, e, s, NoCall.filter))

DoBatchGetObjectsOwnedByAddress ==
  \E s \in OwnedObjects, ft \in FilterTypes, e \in Envs(FetchCalls) :
    Returns(BatchGetObjectsOwnedByAddress(s, ft, e),
            Call("BatchGetObjectsOwnedByAddress", NilOptions, e, s,
                 [kind |-> "type", name |-> TrimSpace(ft)]))

DoBatchGetFilteredObjectsOwnedByAddress ==
  \E s \in OwnedObjects, f \in Filters, e \in Envs(FetchCalls) :
    Returns(BatchGetFilteredObjectsOwnedByAddress(s, f, e),
            Call("BatchGetFilteredObjectsOwnedByAddress", NilOptions, e, s, f))

\* The wrappers keep no state between calls (ImplSuiAPI holds only the RPC
\* client), so one call from a fresh client is the whole behaviour: the
\* model makes one call and stops.
Next ==
  /\ lastCall.op = "None"
  /\ \/ DoSignAndExecuteTransaction
     \/ DoPublishContract
     \/ DoBuildAndPublishContract
     \/ DoMintToken
     \/ DoGetSuiCoinsOwnedByAddress
     \/ DoBatchGetObjectsOwnedByAddress
     \/ DoBatchGetFilteredObjectsOwnedByAddress
     \/ DoPublishEvents
     \/ DoCoinQuery
     \/ DoGetCoinObjsForTargetAmount

Spec == Init /\ [][Next]_vars
-----------------------------------------------------------------------------
(* Properties.                                                             *)

\* SignAndExecuteTransaction and the wrappers over it (PublishContract,
\* BuildAndPublishContract, MintToken): a nil error means the transaction
\* was signed, executed and succeeded on chain, and a package id is only
\* returned for a publish that succeeded.
NilErrorMeansCommitted ==
  /\ lastCall.op \in TxOps /\ result.out = "ok" =>
       lastCall.env.signed /\ lastCall.env.executed /\ lastCall.env.success
  /\ result.pkg =>
       lastCall.op \in {"PublishContract", "BuildAndPublishContract"}
       /\ lastCall.env.published /\ lastCall.env.success

\* The transaction wrappers (SignAndExecuteTransaction, PublishContract,
\* BuildAndPublishContract, MintToken), called with options that ask for
\* effects, never crash: a failure of the signer, the node, the Move
\* build, the package lookup or the transaction on chain comes back as an
\* error. PublishContract relies on err != nil being tested before
\* txnResponse.Effects is read, since SignAndExecuteTransaction returns a
\* nil response with its errors.
WrappersReportFailures ==
  lastCall.op \in TxOps /\ lastCall.opts # NilOptions /\ lastCall.opts.ShowEffects
    => result.out \in {"ok", "err"}
=============================================================================
