# TLA+ models of sui-go's transaction builder

This directory holds TLA+ specifications of the client-side transaction
construction of `howjmay/sui-go`, TLC configurations that check them, and
`PROJECT.json`, which maps every definition to the Go lines it models and
lists the runs, mutants, findings and hazards.

## 1. Inventory

### Components

| Component | Source | State | Operations |
|---|---|---|---|
| Programmable Transaction Builder | `src/sui_types/programmable_transaction_builder.go` | `Inputs` (hash of BuilderArg -> CallArg), `InputsKeyOrder` (BuilderArgs in first-insert order), `Commands` | `Pure`, `MustPure`, `ForceSeparatePure`, `Obj`, `Input`, `MakeObjList`, `Command`, `TransferObject`, `TransferSui`, `MoveCall`, `PayAllSui`, `PaySui`, `Pay`, `Finish` |
| Deduplicating input table | same file, `insertFull` (l. 85-100) | the two input fields above | `insertFull(key, value) -> index` |
| Object argument registration | same file, `Obj` (l. 119-169) | reads and rewrites one `Inputs` entry | merge of shared arguments, error, crash |
| Transaction envelope assembler | `src/sui_types/transaction.go` | none (pure constructor) | `NewProgrammable`, `NewProgrammableAllowSponsor` |
| Stake transaction helpers | `src/sui/extend_calls.go` l. 230-316 | a fresh builder per call | `BCS_RequestAddStake`, `BCS_RequestWithdrawStake` |
| Canonical binary codec | external `go-bcs` library | none | `bcs.Marshal` |
| RPC convenience wrappers | `src/sui/extend_calls.go` l. 17-228 | none kept between calls | `SignAndExecuteTransaction`, `BuildAndPublishContract`, `PublishContract`, `MintToken`, `GetSuiCoinsOwnedByAddress`, `BatchGet(Filtered)ObjectsOwnedByAddress`, `GetCoinObjsForTargetAmount` |
| RPC coin queries | `src/sui/api_coin_query.go` | none | one JSON-RPC call each (`GetCoins` is paged) |
| Data models | `src/models/*.go` | JSON types | accessors (`IsActive`, `ApyMap`, `UnmarshalJSON`) |
| Examples | `src/examples/**` | none | `Publisher.PublishEvents`, the swap script |

### How they interact

A client creates a builder and calls its methods one after another. Each
method may register inputs through `insertFull`, either as pure bytes or as
object arguments through `Obj`. It may then append commands whose Arguments
refer to input indices, to the gas coin, or to earlier commands' results.
`Finish` snapshots the inputs in key order, together with the commands.
`NewProgrammable` wraps that snapshot with the sender, the gas payment, the
price and the budget. The codec then serializes the result, and the RPC layer
signs and submits it. The stake helpers are fixed call sequences on a fresh
builder. The RPC wrappers chain external calls (Move build, publish or move
call through the node, signing, execution) and turn their answers into one
result; the read wrappers take one page of a paged node query.

The builder is used by one goroutine (spec section 5). The hard behaviour is
therefore not interleaving. It is:
- long sequences of calls whose deduplication, index bookkeeping and merging
  must stay consistent;
- failures part-way through a method, which return early without rolling back;
- Go's pointer semantics (nil pointers, pointer-keyed maps, struct comparison
  of pointer fields).

### What makes each component correct

- Input table: an index returned for a key keeps denoting that key, and
  force-separated values never share a slot.
- Obj: re-registering a shared object ORs its mutable flag. Conflicting
  registrations return an error; they never crash.
- Builder: every Argument in a command resolves (an existing input, an
  earlier command, an existing split result). A failed call leaves no
  command behind. `PaySui` and `Pay` split the right coin into the given
  amounts and send each share exactly once, to its recipient, with one
  transfer per distinct recipient.
- Assembler: the gas payment is non-empty, and the owner is the sponsor or
  the sender.

## 2. Modules

### `PTB.tla`: the builder

- **Variables.** `Inputs`, `InputsKeyOrder` and `Commands` are the Go struct
  fields. `outcome` is the result of the last call: `ok`, `err`, or `panic`.
  After a panic the builder is gone and no action is enabled. There are also
  three history variables:
  - `reg`: every `insertFull` call, with its key, the index it returned and
    the value it stored;
  - `objReg`: the key and the `Mutable` flag the caller asked for, for every
    registration `Obj` accepted (`ObjInsert`);
  - `lastCall`: the recipients, amounts and coins of the last call.
- **Helpers are operators.** `insertFull`, `pureBytes`, `Obj`, `Input`,
  `Command`, `payImpl` and the rest map a builder value `p` to
  `[p, arg, out]`. A method chains them in source order. An early return
  yields the builder as it was at that point, so inputs registered before a
  failure stay registered, as in Go. `EachArg` is the loop shared by
  `MakeObjList`, `TransferObject`, `MoveCall`, `Pay` and `payImpl`: it stops
  at the first call that does not return ok.
- **Actions.** There is one action per public method (`DoPure` ...
  `DoPay`). Each chooses its arguments from small constant sets with `\E`.
  The constant `Ops` says which methods the modelled client calls, so each run
  can study one usage pattern.
- **`Obj`.** `Obj` is translated branch by branch:
  - a new id is inserted;
  - a repeated id with both arguments shared and equal versions compares
    `oldObjArg.id() != objArg.id()` (line 133). `id()` is the `*ObjectID`
    field, so this compares pointers: each object argument carries `idp`,
    the pointer it holds, and different pointers return an error. Equal
    pointers re-insert the argument with `mutable = old OR new`;
  - both shared with different versions returns an error. The struct
    comparison `oldObjArg != objArg` compares `SharedObject` pointers, which
    differ whenever the versions differ;
  - any repeat where either side is not shared is a nil dereference, so
    `panic`.

  The `Pure` branch on an object key (spec section 9) is never reachable and
  is left out: no builder method stores pure bytes under an object key.
  The id lookup hashes the pointed-to id, so two pointers to one id find
  the same input. `Receiving` arguments behave like owned ones here
  because their `SharedObject` is nil. No builder method creates one.
- **`payImpl`.**
  - `FirstSeen` is `recipientMapKeyIndex`.
  - `Bucket` is `recipientMap[v]`.
  - `Transfers` is the final loop.
  - Grouping is by pointer, so `Ptrs` and `PtrAddr` model pointers as model
    values that point to addresses.
- **Abstractions.**
  - `Inputs` is keyed by `GetHash` (from `InputTable`). `MC_PTB` takes it to
    be injective (`IdHash`); `table_clash` shows what a collision does.
  - BCS bytes are represented by length class (8 for `uint64`, 32 for an
    address) and the encoded value. This is what equality of the encoded
    bytes depends on.
  - `Unencodable` stands for a value `bcs.Marshal` rejects.
  - The package, module, function and type arguments of a MoveCall are left
    out, because no property depends on them.
  - Indices keep their `uint16` width (`IndexWidth = 16`).

### `InputTable.tla`, `InputTableSpec.tla` and `IndexMap.tla`: the input table

- **`InputTable`** holds `insertFull` and the inputs part of `Finish` as
  operators on a builder record with fields `Inputs`, `InputsKeyOrder` and
  `reg` (the history of insert calls). `PTB` EXTENDS it, so both
  specifications share one translation of lines 85-100.
  - `Inputs` is keyed by `GetHash(key)`, a constant operator standing for
    `BuilderArg.GetHash` (hashstructure's FNV-64a).
  - A present hash overwrites the slot and returns the index of the first key
    in `InputsKeyOrder` with that hash. The final `return 0` is kept.
- **The table's own specification** is `InputTableSpec`. Its variables are `Inputs`,
  `InputsKeyOrder`, `index` (the last returned index) and `call` (the last
  key and value inserted). One action, `InsertFull(k, v)`, inserts any key
  with any value.
- **`IndexMap`** is what the Rust crate's `insert_full` promises, and what
  the Go comment at line 83 says `insertFull` implements. The map is a
  sequence of `<<key, value>>` compared by key equality, not by hash.
- **The refinement mapping** sends `entries` to the keys of `InputsKeyOrder`
  paired with `Finish`. `index` and `call` map to themselves.
  `ImplementsIndexMap` checks the abstract `Spec` as a PROPERTY. `call` is
  part of the interface, so an insert that lands on another key's slot
  cannot be passed off as an insert of that key.

### `MC_PTB.tla`

`MC_PTB.tla` gives the model values and sets:
- addresses `A` and `B`, with pointers `pA` and `pB` (and `pA2`, a second
  pointer to `A`);
- owned coins `c1` and `c2`;
- a shared object `s1`, offered immutable and mutable at initial version 1,
  and at version 2, all through one id pointer `q1`;
- for `shared_idptr`, `s1` at version 1 through two pointers `q1` and `q2`;
- amounts `{1, 2}`.

`MC_InputTable.tla` gives three keys and two values, with two hash
functions: `DistinctHash`, which is injective, and `ClashingHash`, which
gives `k1` and `k2` one hash.

### `TxData.tla`: Finish and the envelope

`TxData` EXTENDS `PTB` and adds `tx`, the last `TransactionData` built.
`FinishPT(p)` is `Finish` (the inputs in key order, `p.Commands` itself);
`NewProgrammableAllowSponsor` and `NewProgrammable` are the constructors of
`transaction.go`, field for field (`Owner` is the sponsor pointer as given,
`Expiration` None). The actions `DoNewProgrammable` and
`DoNewProgrammableAllowSponsor` finish the live builder and wrap it, leaving
the builder as it is; `BuilderStep` is any `PTB` step. So the builder may
keep being used after `Finish`, which the code allows, and the properties
are about every snapshot ever taken. Gas payments, budgets and prices are
small constant sets; a sponsor is a pointer or `NilPtr`.

### `StakeTx.tla`: the stake helpers

`StakeTx` EXTENDS `TxData`. `RequestAddStake` and `RequestWithdrawStake`
are `BCS_RequestAddStake` and `BCS_RequestWithdrawStake` line by line: a
fresh builder (`NewBuilder`), then `PureOp`, `Obj`, `Command` and their early
returns, then `Finish` and `NewProgrammable` (`Wrap`). The action stores the
helper's builder as it was at return, the `TransactionData` (what the helper
hands to `bcs.Marshal`) and its arguments. `SuiSystemMutObj` is the shared,
mutable system state object of `transaction.go`. `amount.Uint64()` on a
`*big.Int` is modelled by what math/big returns, the low 64 bits of |x|
(`BigUint64`; the Go documentation leaves the result undefined outside
uint64). `NewBuilder` is written as a reset of the current builder, which is
the same value, so that TLC evaluates it per step instead of sharing one
cached record between its workers.

### `ClientCalls.tla`: the RPC wrappers

One action per wrapper of `extend_calls.go`. The answers of the external
calls (sign, execute, on-chain status, publish, Move build, package id
lookup, move call, object and coin queries) are chosen freely from `Envs(S)`,
`S` naming the calls that wrapper makes; a paged node query returns
`FirstPage`, at most `PageLimit` (`QUERY_MAX_RESULT_LIMIT`) items. The
options pointer is `NilOptions` or a record with `ShowEffects`; the node
returns `Effects` only when they were asked for, and `PublishContract` reading
`txnResponse.Effects.Data` without them is a crash (the `models` types are not
in the repository; upstream `Effects` is a pointer). Owned objects are
sequences of `[data, type]` whose ids are their positions.
`PublishEvents` is the event_pubsub example's `Publisher.PublishEvents`:
move call, sign, execute with `ShowEffects`, each error a `log.Panic`; it
returns nothing and never reads the on-chain status, so it is outside
`TxOps` and `NilErrorMeansCommitted`.
The coin queries of `api_coin_query.go` are one action, `DoCoinQuery`, with
one disjunct per function. Each is one JSON-RPC call (the two branches of
`GetBalance` differ only in the parameters sent) that succeeds or fails; no
wrapper reads the pages or balances they return, so the model does not
compute them. `GetSuiCoinsOwnedByAddress` returns the positions of the
owner's first SUI coins (`SuiCoinType`), at most `CoinsLimit` and
`PageLimit`. `GetCoinObjsForTargetAmount` calls it and then
`models.PickupCoins`, which is not in the repository: the action lets it fail
or pick any set of the page's coins. The wrappers keep
no state between calls, so `Next` makes one call from the initial state and
stops.

### `MC_TxData.tla`, `MC_StakeTx.tla`, `MC_ClientCalls.tla`

`MC_TxData` EXTENDS `MC_PTB` and `TxData` and adds a gas coin `g1`:
`MCOnePayment = {<<g1>>}`, `MCPayments` also has the empty list.
`MC_StakeTx` adds the system state id `s0`, StakedSui refs `st1`, `st2`, and
amounts `MCStakeAmounts = {0, 1, 2^w - 1}`, which fit in the scaled width
`w`. `MC_ClientCalls` has two object types and the options
`MCShowEffects` (`ShowEffects` true, as every caller in the repository
passes).

## 3. Runs

| Run | cfg | Expect | What it shows |
|---|---|---|---|
| `ptb_inputs` | `MC_PTB.cfg` | pass (351k states) | Any sequence of `Pure`, `MustPure`, `ForceSeparatePure`, `Obj`, `Input`, `MakeObjList`, `Command`, `TransferObject` and `MoveCall` keeps every index `insertFull` returned pointing at its key and bytes (`ArgumentsDenoteRegisteredInputs`). It keeps a shared object's stored flag the OR of the flags the callers asked for in every registration `Obj` accepted, as recorded in `objReg` (`SharedMutabilityIsOr`). A call that returns an error, `MakeObjList`, `TransferObject` or `MoveCall` failing on a later argument after registering earlier ones, appends no command (`CommandsAtomicOnError`, hazard `:185`). |
| `ptb_pay` | `MC_PTB_pay.cfg` | pass (80k states) | After any prefix of `Pure`, `Obj`, `TransferSui` and `PayAllSui` calls, a successful `PaySui` or `Pay` (up to 3 recipients, repeats included) splits the gas coin, or the merged first coin, into the amounts. Each share goes to exactly one transfer, addressed to its recipient (`PaySharesDelivered`). Every Result and Input argument the builder made names an earlier command and an existing input (`WellFormedArguments`). |
| `table_refines` | `MC_InputTable_refine.cfg` | pass (199 states) | With an injective hash, every sequence of inserts of three keys and two values gives the same finished inputs, in the same order, with the same returned indices as `insert_full` (`ImplementsIndexMap`). |
| `table_clash` | `MC_InputTable_clash.cfg` | violation of `ImplementsIndexMap` | When two keys share a hash, inserting `k2` after `k1` overwrites `k1`'s value and returns index 0 (finding 5). |
| `obj_panic` | `MC_PTB_panic.cfg` | violation of `NoPanic` | An owned object registered twice crashes the program (finding 1). |
| `pay_partial` | `MC_PTB_partial.cfg` | violation of `CommandsAtomicOnError` | `Pay` with two coins and mismatched lists returns an error after appending `MergeCoins` (finding 2). |
| `pay_alias` | `MC_PTB_alias.cfg` | violation of `OneTransferPerRecipient` | `PaySui([pA, pA2], ...)` sends two transfers to `A` (finding 3). |
| `shared_idptr` | `MC_PTB_idptr.cfg` | violation of `CompatibleSharedReused` | `Obj` of `s1` at version 1 through `q2` after it was registered through `q1`: the compatible second registration returns "id does not match" (finding 4). |
| `txdata` | `MC_TxData.cfg` | pass (267k states) | Interleaving `ForceSeparatePure`, `Obj` and `MoveCall` with `NewProgrammable(AllowSponsor)`: every snapshot's arguments resolve inside it (`FinishedArgumentsResolve`) and its inputs are deduplicated (`FinishedInputsDistinct`). |
| `stake_wiring` | `MC_StakeTx.cfg` | pass (129 states) | Both stake helpers, for every signer, gas list, amount, validator, StakedSui ref, budget and price, build exactly `SplitCoins(GasCoin, [amount])` and `add_stake(system, Result 0, validator)`, or `withdraw(system, staked)`, with the system state shared and mutable (`StakeCallsWired`). |
| `client_calls` | `MC_ClientCalls.cfg` | pass (4945 states) | With `ShowEffects`, a nil error from any transaction wrapper means signed, executed and successful on chain, and a package id only comes from a successful publish (`NilErrorMeansCommitted`). With effects requested, no transaction wrapper crashes: every failure comes back as an error, which relies on `PublishContract` testing `err` before reading `Effects` (`WrappersReportFailures`). The run also makes every coin query, each succeeding or failing. |

### Bounds

- A call is made only while there are fewer than `MaxInputs` inputs and
  fewer than `MaxCommands` commands. A single call may add several of each, so
  the runs reach states with up to 8 inputs and 6 commands.
- `MaxList` bounds every argument list. It is 2 in `ptb_inputs`, which covers
  a repeated object within one call, and 3 in `ptb_pay`, which covers the spec
  example `[A, B, A]`.
- Two addresses, two amounts, two coins and three versions of one shared
  object are enough for these cases:
  - deduplication of equal bytes across calls;
  - distinct forced values;
  - merges in both flag orders;
  - a version conflict;
  - duplicate coins;
  - recipients repeated within one call and across calls.
- `txdata` uses one gas list, three methods and one command: the builder's
  state space multiplies with every snapshot, and these three methods are the
  ones that add pure, forced-pure and object inputs and commands with
  Input arguments.
- Widths TLC cannot reach are scaled down, keeping the modular arithmetic:
  `AmountWidth = 8` in `stake_wiring` (u64; TLC's integers are 32-bit),
  and `PageLimit = 2`, `CoinsLimit = 4` in `client_calls` (50 and 200 in
  the code, the same ratio). Three owned objects exceed one page, so the
  batch queries are checked on a truncated page.
- The pay run lets one call come before the pay call. That shifts split
  indices and makes pure inputs be shared with earlier calls.

### Fairness

No liveness property is checked, and no fairness is assumed. The builder is
passive: a client may stop calling it at any time, and after a panic nothing
runs. For that reason every `MC_PTB` cfg sets `CHECK_DEADLOCK FALSE`. The
input table alone can always take another insert, so its runs check for
deadlock, and so does `stake_wiring` (a helper can always be called
again). The client wrappers keep no state between calls, so a
`ClientCalls` behaviour is one call, and its cfgs set `CHECK_DEADLOCK FALSE`.

### Mutants

Each property of a passing run is shown to fail under a plausible bug. The
mutant operators are defined just before the definition they replace, the
`insertFull` ones in `InputTable.tla` and the rest in `PTB.tla`:
- `insertFullNoAppend`: a new key is not appended to `InputsKeyOrder`;
- `insertFullIndexIsLength`: a new key's index is the length, without the
  `-1`;
- `pureBytesOrdinalFromCommands`: the forced ordinal uses `len(Commands)`;
- `ObjLastFlagWins`: a merge keeps only the new flag (breaks
  `SharedMutabilityIsOr` once an immutable request follows a mutable one);
- `CommandNoDecrement`: the Result index is the length, without the `-1`
  (breaks `WellFormedArguments` in `ptb_pay`);
- `BucketOneBased`: 1-based share positions;
- `FinishDropsLast` (`InputTable.tla`): `Finish` omits the last input;
- `ObjKeyedByArg`: `Obj` keys the input by the whole argument, not its id;
- `CommandNoDecrement` also breaks `StakeCallsWired` (the split is not
  `Result 0`);
- `SignAndExecuteIgnoresStatus` (`ClientCalls.tla`): the effects status is
  not checked;
- `MakeObjListAppendsOnError`: `MakeObjList` appends its `MakeMoveVec`
  even when an object failed to register (breaks `CommandsAtomicOnError`
  in `ptb_inputs`);
- `PublishContractEffectsFirst`: the status is read before the error,
  `!Effects.Data.IsSuccess() || err != nil` (breaks
  `WrappersReportFailures`).

## 4. Findings

1. **Code bug: panic in `Obj`** (`programmable_transaction_builder.go:132`).
   Registering an object id a second time reads `SharedObject` of both
   arguments. For an owned argument that pointer is nil, so the program
   crashes in any of these cases:
   - `Pay` with a repeated coin;
   - `TransferObject` with a repeated ref;
   - a `MoveCall` that uses one object twice;
   - one id used as both shared and owned.

   The spec expects reuse of the index for identical registrations and an
   error for conflicting ones.
2. **Commands left behind by a failed `Pay`** (`:351`). `Pay` appends
   `MergeCoins` and only then checks the lengths of the recipient and amount
   lists.
3. **Recipients grouped by pointer** (`:384`). `payImpl` groups recipients by
   pointer identity, so the transaction differs from the one the spec (and the
   node's own `pay` builder, which the tests compare bytes against) produces
   when a caller passes equal addresses through different pointers.
4. **Compatible shared re-registration rejected** (`:133`). With equal
   initial shared versions, `Obj` compares `oldObjArg.id() != objArg.id()`,
   two `*ObjectID` pointers. Two arguments for one shared object built
   from separately parsed ids, the usual case when two call sites each
   make their argument, get "object has id does not match call arg". The
   spec (4.3, section 8) says such a registration reuses the input and
   ORs the mutable flags. `SuiSystemMutObj` always uses the package-level
   pointer, so the stake helpers are not affected.
5. **Hash collisions merge distinct inputs** (`:86`). `Inputs` is keyed by
   a 64-bit FNV-64a hash, which is not collision-resistant. Pure bytes are
   chosen by the caller. Two keys with one hash share a slot: the second
   insert overwrites the first key's value and returns its index, and the
   second key never reaches `InputsKeyOrder`. Spec section 4.1 says such
   collisions must not occur. The comment on `Inputs` ("maybe has hash
   clash") acknowledges the risk.

### Divergences noted, with no run

These were met while modelling. Each one is a missing check that the model
reproduces directly, so a run would only restate it; the hazards list
records them with a note.

- **Forward references accepted** (`:200`). `Command` does not check its
  arguments, so a hand-built forward or self reference is accepted.
- **Gas coin reused after a whole transfer** (`:306`). Nothing records
  that `PayAllSui` spent `GasCoin`; keeping it the terminal use is left to
  the caller.
- **Silent index wrap** (`:92`). `insertFull` returns `uint16(len - 1)`:
  past 65536 inputs an Argument designates another input, with no error.
  The runs keep the 16-bit width, which no run can fill.
- **Empty gas payment accepted** (`transaction.go:47`). Spec 4.5 requires
  a non-empty gas payment; the constructor does not check.
- **Nil sponsor kept** (`transaction.go:48`). Spec 4.5 says the sponsor
  defaults to the sender; `NewProgrammableAllowSponsor(…, nil)` builds a
  transaction whose gas owner is nil.
- **Stake amount truncated** (`extend_calls.go:239`). `amount.Uint64()`
  stakes |x| mod 2^64 for a negative or wider `*big.Int`, with no error.
- **Failed transaction, nil error** (`extend_calls.go:59`). Without
  `ShowEffects`, `SignAndExecuteTransaction` returns success for a
  transaction that failed on chain. `client_calls` passes `ShowEffects`
  true, where `NilErrorMeansCommitted` holds.
- **Crash on nil options** (`extend_calls.go:59`, `:122`). `options` is
  dereferenced after the transaction was executed; `PublishContract` with
  `ShowEffects` false reads absent `Effects`.
- **Truncated reads** (`extend_calls.go:170`, `:202`). The comments
  promise up to 200 coins and all objects; both wrappers read one page of
  at most `QUERY_MAX_RESULT_LIMIT` (50) and never follow the cursor.

## 5. Not modelled, and why

- **Codec.** `go-bcs` is outside the repository. Its effect on the builder
  is modelled through `Marshal`. A round-trip law over the real encoding would
  need the library's source.
- **`models.PickupCoins`.** The coin selection of
  `GetCoinObjsForTargetAmount` is not in the repository, and the spec
  places coin picking out of scope; the model leaves the choice open.
- **Data models.** `models/*.go` are JSON types. Their few methods
  (`Stake.IsActive`, `ValidatorsApy.ApyMap`, `JsonFlatten.UnmarshalJSON`) are
  not called by any code in the repository, and the decoding they depend on
  (`serialization.TagJson`, `encoding/json`) is not in it.
- **The swap example.** `swap-go/main.go` is a script over helpers of
  `examples/swap/swap-go/pkg`, which is not in the repository.
  `Publisher.PublishEvents` is modelled (`ClientCalls`).
- **`uint16` and `uint64` widths at full size.** The runs that need them
  scale the width down (Bounds).
- **Hash values.** Hashes are abstract: no run searches for an actual FNV
  collision. `table_clash` assumes one exists.

## 6. Plan

1. **Done: `PTB`** with its passing and violation runs.
2. **Done: `InputTable` refines `IndexMap`.**
3. **Done: `TxData`, `StakeTx`, `ClientCalls`.**
4. **Done: `CommandsAtomicOnError`** for the failure paths of
   `MakeObjList`, `TransferObject` and `MoveCall`, and the id-pointer
   comparison of `Obj` (`shared_idptr`).
5. `Finish` idempotence (spec section 8) is not a property: `Finish` reads
   the builder without changing it, and `FinishPT` is a function of the
   builder, so two snapshots without a step between them are equal by
   construction. Nor can a later builder step change a snapshot: `Finish`
   hands out `p.Commands`, but `append` only writes past the snapshot's
   length.
6. The leftover inputs of a failed call (`:185`): spec section 7 forbids
   only leftover commands, so a property against a shared object left
   mutable by a failed call needs a statement of intent first.
7. **Done: the coin queries and `GetCoinObjsForTargetAmount`**, and
   `WrappersReportFailures` (hazard `extend_calls.go:122`).
