# Verification of rosy-nigh

rosy-nigh is the core of an on-chain EVM fuzzer in Go: it applies messages
(transactions or simulated calls) to a world state, runs contract code in an
interpreter that records every executed instruction as a *register* for
symbolic solving, and can fetch deployed code from a block explorer. Much of it
is go-ethereum code cut down to what the fuzzer needs, with stubs where the
original did more; the stubs are part of the program and are modelled as they
are.

This directory holds TLA+ modules that follow the source, TLC configurations
that check them on small instances, and proofs that TLAPS checks for every
value of the constants. `PROJECT.json` maps every definition to source lines.

## The system

| Component | Source | State it keeps | Operations | Modelled |
|---|---|---|---|---|
| Message pipeline | `core/state_transition.go`, `core/gas_pool.go`, `core/evm.go` | the message, remaining and initial gas, the block's gas pool | `ApplyMessage` = `preCheck`, `buyGas`, `TransitionDb`, `refundGas`, fee payment | yes: `StateTransition`, `Settlement` |
| Contract creation | `core/vm/evm.go` | depth, block and transaction context | `Create`, `create`, the stub `Call` | as the pipeline and as the interpreter reach it: `CreateRules`, `Deployment` |
| Interpreter | `core/vm/interpreter.go`, `interpreter_scope.go` | read-only flag; per frame: pc, stack, memory, gas | `Run`, its loop, its deferred functions | `Interpreter` |
| Registers | `core/vm/reg.go`, `reg_pool.go` | list of registers, loop counters per depth and pc | `Append`, `lookup`, `newReg`, `Solve` | `RegPool`; not `Solve` |
| Stack, memory, contract | `core/vm/stack.go`, `memory.go`, `common.go`, `contract.go` | items, bytes, gas of a frame | limits, `Resize`, `UseGas`, `getData` | sizes and gas: `Interpreter`, `MemoryRules`; the bounds of `getData`: `Precompiles` |
| World state | `core/state/statedb.go`, `state_object.go`, `core/types/state_account.go` | live and destructed objects | getters, `CreateAccount`, `CreateContract` | `StateDB`, `WorldState` |
| Journal | `core/state/journal.go` | entries, dirty counters | `append`, `revert` of an entry | `StateDB` |
| On-chain code | `onchain/*.go`, `core/state/database.go` | code cache | `ContractCode`, `ContractCodeSize` | `OnChainDB`; not the URLs and keys |
| Sender cache | `core/types/transaction_signing.go` | one atomic cell | `Sender` | `SenderCache` |
| Transaction types | the rest of `core/types` | immutable fields | accessors, `effectiveGasPrice` | the fields the pipeline reads |
| Instruction iterator | `core/asm/asm.go` | pc, argument, error | `Next`, `Disassemble` | `InstructionIterator` |
| Opcodes | `core/vm/opcode.go` | none | `String`, `StringToOp`, `IsPush` | `Opcodes` |
| Precompiles | `core/vm/contracts.go` | none | `RequiredGas`, `Run`, `ActivePrecompiles` | prices, work and tables: `Precompiles` |
| Errors, jump table, hooks | `core/vm/errors.go`, `jump_table.go`, `core/tracing/hooks.go`, `core/errors.go` | none | tables and types | the errors that change what a caller does |

How they interact. A host builds a `Message` from a transaction and calls
`ApplyMessage`, one message at a time, on one EVM and one state. `TransitionDb`
calls `EVM.Create` or `EVM.Call`; `create` calls `Interpreter.Run`, which appends
a register to the pool for each instruction and executes the operation through
it; an operation may call back into the EVM. All of them read and write the
world state directly. The state reads code through `Database`, which the
on-chain database implements with HTTP requests.

Which behaviours are hard. The pipeline has no concurrency but seven places
that change money, gas or nonces, eight error returns between them, and a
revert that does nothing, so what matters is what each early exit leaves
behind. The EVM is recursive (depth, read-only flag, one register pool for all
frames). Objects of the state come into being when they are read. The code
cache and the sender cache are shared between goroutines. `PROJECT.json` lists
the hazards, each at its line.

What makes each component correct:

* Pipeline: nobody pays more than was checked; gas is neither created nor lost;
  a message is carried out at most once; one message is one settlement of the
  ledger; the fee is never negative; a nonce only rises.
* Interpreter: depth and flag equal what the active frames asked for; gas comes
  from nowhere and goes nowhere unseen; an operation finds its operands and its
  memory; the tracer sees each step once; what the frames do together is one
  deployment, and it ends.
* Registers: one index, one register; loop counters without gaps, in order.
* World state and journal: reads do not change what later reads return; undoing
  every entry, last first, restores the state.
* On-chain code: an answer is never a text that the explorer has only for
  another address, unless it has the very hash asked for, whatever the
  interleaving; every question is answered.
* Sender cache: a caller gets the answer of its own signer.
* Iterator and opcodes: a listing assembles to the code again, and always ends.
* Precompiles: no work that was not paid for; operands are read where they are;
  a fork takes no contract away.

## Modules

```
ChainRules            fork flags, widths of machine integers
  FeeRules            prices of a message          (pure operators)
  IntrinsicGas        gas of the payload           (pure operators)
  CreateRules         decisions of EVM.create      (pure operators)
  Precompiles         price and work of a call     (pure operators)
  MemoryRules         calcMemSize64, toWordSize    (pure operators)
    StateTransition   the pipeline, one action per step
    GasRules          FeeRules, IntrinsicGas and Precompiles fed with inputs
  Settlement          abstract: one message, one atomic effect
  Deployment          abstract: gas, error and code of one creation
RegPool               registers and loop counters
  Interpreter         frames; EXTENDS RegPool, MemoryRules and CreateRules
WorldState            abstract: accounts that exist, each change undoable
  StateDB             objects, destructed addresses, journal
OnChainDB             goroutines, code cache, explorer
SenderCache           goroutines, one atomic cell
Opcodes               the opcodes and their two tables of names
  InstructionIterator Next and the loops that print and collect its lines
MC<module>            instances for TLC
PipelineProofs        theorems about StateTransition
  SettlementProofs    replay, and the refinement of Settlement
InterpreterProofs     theorems about RegPool and Interpreter
GasRulesProofs, StateDBProofs, OnChainDBProofs, SenderCacheProofs, IteratorProofs
```

### The pipeline

`StateTransition` is `ApplyMessage` in a loop. `pc` is the place in
`TransitionDb`, `msg`, `gasRemaining`, `initialGas`, `vmerr` are the fields and
locals of that name, `gp` is the pool, and `balance`, `nonce`, `hasCode` are
what the pipeline can see of the world state. Each action is a stretch of code
between two points where something is bought, moved or returned:

| Action | Code |
|---|---|
| `RejectInPreCheck`, `BuyGas` | `preCheck` with `buyGas` at its end |
| `ChargeIntrinsicGas`, `RejectIntrinsicGas` | clauses 4 and 5 |
| `RejectBeforeExecution` | clause 6 and the init code limit |
| `ExecuteCall` | the call branch: the nonce, and the stub `EVM.Call` |
| `CreateRefused`, `CreateCollision`, `EnterCreate`, `FinishCreate` | `EVM.create` up to, and after, `Interpreter.Run` |
| `RefundGas` | `refundGas`, with the pool's `AddGas` and its panic |
| `PayCoinbase` | the rest of `TransitionDb` |

`before` and `carriedOut` are history: the world as `ApplyMessage` found it, and
the (sender, nonce) pairs of checked messages that were carried out.

What the repository does not implement but calls is taken from its use: the
setters of `vm.StateDB` are map updates, `CanTransfer` and `Transfer` compare and
move, `CreateAddress` is a constant function, and the base fees of the block
context are zeroed for free messages, as the comments of `evm.go:42-43`
require. The result of `Interpreter.Run` is any gas, error and code length. In
the code as it stands a register does not store its operation, so a frame with
code either fails before its first instruction or panics there; the model
covers the successful run as well, which is what the pipeline is written for.

`Settlement` is what a host may rely on. A message is settled in one step: the
sender pays for the gas used and the blobs, the coinbase gets the tip, the nonce
moves. Or it forfeits its purchase, the one effect of a rejected message that
the code has. A refused message has no effect. A creation that got as far as
endowing its account moves the endowment too, also when it fails after that:
reverting to the snapshot is a stub, so the failed account keeps the endowment
and its nonce. `SettlesMessages` follows the code there. It shows that nothing
else is left behind, and it does not catch that those two are. A call moves no
value, `EVM.Call` being a stub, and again the ledger follows the code.

`Deployment` is the seam between the pipeline and the interpreter. It does not
know how `create` decides: gas goes in and is only spent (`Spend`), and a creation
returns in one of four ways. It was refused before it began and has all its
gas; it succeeded, and any code it left is within the size limit and paid for;
it reverted, or under the first rules could not pay for its code, and keeps the
rest; or it failed otherwise and has nothing. Code is left only when there is no
error. The pipeline keeps to it (`UsesDeployment`,
where `stored` is the code of the new account), from the depth check on, and so
does the interpreter with all its frames (`ImplementsDeployment`).

### The interpreter and its registers

`Interpreter` keeps the active calls of `Run` as a sequence of `frames`; the
innermost is the last. `depth` and `readOnly` are the fields of the EVM and of
the interpreter, `tracer` adds up what the hooks were told (instructions and
their cost, faults, and what `create` itself took), `result` is what the
outermost `create` returned, and the variables of `RegPool` are the pool every
frame appends to. `supply` and `seen` are history.

| Action | Code |
|---|---|
| `Start`, `StartInner` | `create`'s depth check, then `Run` up to its loop |
| `ReturnEmpty` | the return of `Run` for a contract without code |
| `Refuse` | an iteration that returns before `Append`: stack limits, either charge, sizes, an error of `dynamicGas`; the deferred hook tells the cost as it is by then |
| `Fetch` | an iteration up to the call of `execute`, with both charges, `OnOpcode`, `Resize` and `regPool.Append` |
| `ExecuteNil` | the operation of a register that has none |
| `Complete`, `Halt`, `Fail` | what the operation returned; with `Leave`, the deferred functions (`Deferred`, `Announced`) and the rest of `create` (`HandBack`): the code is paid for and what is left goes to the frame below |

The repository has no jump table, so an operation does anything its table entry
allows: it takes and pushes items, moves the program counter, runs one inner
frame or ends the frame. An operation that cost nothing can only end its frame,
as in every table of the chain (STOP, RETURN, REVERT and INVALID are the free
ones); without that promise nothing would bound a loop.

`newReg` does not store the operation in the register (`core/vm/reg.go:77`), so
as the code stands the first instruction that is executed dereferences nil.
`KeepsOperation` is the set of what `newReg` may do: `{FALSE}` is the source, and
`claim_OperationExecuted` refutes the comment at `interpreter.go:185` with it.
Every other claim would hold of a program that stops at its first instruction,
so run `interpreter` explores both: what the loop, the frames and the pool are
written to do, and the panic at every place it can strike.

`RegPool` has `Append` with `lookup` and `newReg`; its places are pairs of depth
and pc, `regkeyList` the keys of the registers in order. Its own specification
appends anything at any place, of which the interpreter's use is a part.

### The world state

`StateDB` has `stateObjects`, `stateObjectsDestruct` and the journal as in the
code. Of an object only `newContract` is ever changed in the repository. `Get`
is any reader: it makes an object the first time (`getStateObject`).
`CreateAccount` and `CreateContract` are called as `create` calls them. Two
steps belong to the host: `Undo`, which undoes the last journal entry (snapshots
are stubs here, the entries' `revert` is not), and `EndTx`, which destructs
addresses and starts a new journal. `past`, the world before each entry, is
history. `WorldState` is what callers rely on: an account exists or not, each
change can be taken back, and reading changes nothing.

### The code database

In `OnChainDB` each goroutine has a state of its own and walks through
`reading`, `fetching`, `storing`, `writing` and `done`; `CodeCache` is shared and
has no lock. Two accesses of the map of which one writes are a race: Go's
runtime may notice and end the process (`crashed`), or the read may miss and the
write may be lost. A code travels as the text the explorer sends, and the cache
is keyed by the hash of that text, while accounts know the hash of the bytes:
both hashes are functions given as constants. The explorer answers with a text
for that address, with an error, with a message about its rate limit, which the
code takes for a text, or with a reply that has no `result`: that decodes to an
empty text without an error (`onchain.go:138-142`), whose hash is that of no
code, and it is cached and answered like a code. A question is asked by a state
object, with the hash of its account (an object without code does not ask, and
one whose lookup fails tells its state), or directly of the database, with any
hash and none of that (`direct`).

### The small ones

`SenderCache` separates the load, the derivation and the store of `Sender`.
`InstructionIterator` has one action per return of `Next`, over a code given as a
sequence of bytes, and keeps the lines so far as records of place, name and
argument: `PrintDisassembled` has printed them, and `Disassemble` returns them
unless there is an error (`Disassembled`). `Opcodes` has the constants, by blocks
as they are declared, and the two tables: every entry of either is written
`X: "X"` or `"X": X`, so a table is known by the constants it lists. The two are
written down apart (`Written`, `Listed`), as in the code, and either lists all but
`RANDOM` and `PREVRANDAO`, other names of `DIFFICULTY`. `Precompiles` has `RequiredGas`, `Run`
and `RunPrecompiledContract` for every contract, the tables of contracts and
`ActivePrecompiles`; an input is its length and the first of its operands that
does not decode, and for modexp the three lengths it declares and the bounds
`getData` slices at. What a contract computes is only a name (`Computes`), which
is what tells two contracts of like shape and price apart when a table exchanges
them. `GasRules` feeds the pure operators with inputs, one after
another.

## Runs

| Run | Instance | Shows |
|---|---|---|
| `london` | all forks on, checked messages, base fee 2, blobs | `TypeOK`; the reservation of funds (`FundsReserved`), gas (`GasAccounted`, and `IntrinsicGasStaysPaid` after the refund), tips (`TipNotNegative`), nonces (`NonceCoversMessages`, `NonceAdvancesOnce`), replay (`NoReplay`), and settlement |
| `frontier` | all forks off | settlement when a new account keeps nonce 0 and a deployment short of gas keeps its rest; `UsesDeployment` |
| `simulation` | `NoBaseFee`, unchecked and checked messages mixed, nonces at the last two values | tips (`TipNotNegative`) and settlement for free messages; `NonceFallsUncheckedOnly` at the nonce limit; `UsesDeployment`, with creations that are refused |
| `gas_rules` | every price up to 7, payloads around each overflow, inputs of precompiles around each multiple of a piece, every pair of forks | the two price formulas agree (`PricesAgree`); the overflow guards are exact (`IntrinsicGasExact`); `WorkIsPaid`; `OperandsInPlace`; `ForksKeepAnswers` |
| `interpreter` | two frames deep, loops, four kinds of operation | `NestingRestricted`, `ReadOnlyKept`, `TracedOnce`, `TracedGasIsReal`, `StackSafe`, `MemoryCovers`, `IndexUnique`, `LoopsInOrder` of the pool, `ImplementsDeployment`, `RunEnds` |
| `state_db` | three addresses, destructed before or between transactions | `TypeOK`, `NeverNil`, `DirtiesAccurate`, and that `StateDB` implements `WorldState` |
| `onchain_db` | two goroutines, two accounts of which one has no code, objects and direct calls, a rate limit and an empty reply | `AnswerFits` and `LookupEnds` |
| `sender_cache` | three goroutines, four signers, two of them equal | `AnswersAreOwn` |
| `iterator` | every code of up to four bytes over nine bytes, and the longest push at the end of the code | `ListingRebuilds`, `Terminates` |
| `claim_RejectionIsFree` | as `london` | violated: gas bought by a message that is then rejected is lost |
| `claim_OperationExecuted` | as `interpreter`, with `KeepsOperation = {FALSE}` | violated: the first instruction accepted panics |
| `claim_SeenCodesNotLoaded` | as `onchain_db` | violated: a code that was loaded is fetched again |

Bounds. In the pipeline words are scaled down: 4-bit `uint64` (3-bit in
`simulation`) and 64 or 32 for 2^256, with gas prices of 1 to 4 so that limits,
refunds and overflows all lie inside the range; every threshold of the code is
met from both sides. Five addresses are a sender, the coinbase (also a sender),
an account already in use, and two addresses creations land on, which are
enough for a collision, a creation paid to the coinbase's side of the ledger and
a contract as a sender. Nonces 0 to 2 give a replay two messages of distance,
balances run out after two or three messages, and the pool starts at 0 or one
below its limit.

`gas_rules` has 8-bit integers, because the 8 and the 32 of the modexp price are
kept as they are. Its calls are given at most a third of what a `uint64` holds.
That bound is named in `InputAssumption` and matters: with two fifths of 2^64 gas
the older price of modexp would admit an exponent whose length does not fit 64
bits. No block has room for such a call.

`interpreter` has a 4-bit machine with words of four bytes, so an offset of 14
and a length of 3 wrap; `CallCreateDepth` is 1, which makes two frames and a
refusal; two program counters make loops, and a stack of two makes both stack
errors. One operation pays in two parts, a constant of 1 and then 1 or 15: with
the last the sum told to the tracer wraps while each part is refused or paid as
it is. A frame starts with 0, 1 or 3 units of gas. Gas is what ends a run:
`MaxRegs`, a bound of the model, is 5, three registers that are paid for and a
free one that ends each frame, and `RunEnds` would fail if a run needed more. The
host starts one run. `Slots`, the operands a register has fields for, is 1 here
and 7 in the source; an operation with more panics in `newReg`.

`state_db` is finite without a bound: an address is created, and made a
contract, at most once per journal. Three addresses suffice since an entry
speaks of one address and entries of two must not disturb a third. Two
goroutines race in every way the map allows, and a third would only repeat
them; `sender_cache`, which is cheap and symmetric, has three. Codes of four
bytes let a push end before, at and beyond the end of the code; the nine bytes
are a STOP, one that is no opcode, the one with three names, and both sides of
the first and of the last push.

`CHECK_DEADLOCK FALSE` stands where the system may stop: after a panic or a
detected race, when an instance runs out of transactions, when the outer frame
has ended, and when the iterator has. The other configurations check deadlock.

Fairness. Three of the specifications assume any. `InstructionIterator` has
`WF_vars(Next)`: `Disassemble` is a loop in one goroutine that waits for nobody.
`Interpreter` has `WF_allVars(Turn)` in `FairRunSpec`: the loop and the operations
run to their end in the goroutine that called them; there is no fairness for
`Start`, and none that says which way a step goes: a program may loop as long as
its gas lasts. The pipeline has none: `TransitionDb` is straight-line code, of
which only the interpreter could fail to return.
`OnChainDB` has weak fairness of each goroutine's next step: the scheduler runs
goroutines that can run, and a request ends, the client having a timeout of ten
seconds (`onchain.go:125`); whether a code is asked for is left to the host. All
other claims are safety properties of code the host may stop feeding.

## Proofs

Every safety property the passing runs check, the refinements included, is also
a theorem, for every value of the constants. Each is proved in one of two ways:
where the property says what a pure operator computes (`GasRules`), from lemmas
about the operator; everywhere else from an inductive invariant that is stronger
than the property, because no property here is inductive as it stands. What the
strengthening says is what is worth knowing about the code:

* `PipelineProofs`. `TypeCorrect` is arithmetic: what the conversions to `uint64`
  and `uint256` return, and that each helper stays in its type.
  `FundsAlwaysReserved`, `GasAlwaysAccounted`, `TipNeverNegative`,
  `IntrinsicGasAlwaysPaid`, `NonceNeverFalls` and `PipelineUsesDeployment` follow
  from `PipelineInv`: types, the two properties, and `FeesHeld` (the message in
  hand passed the fee clauses and carries the price computed from its own caps),
  which is what connects the check in `buyGas`, at the caps, with the charge, at
  the effective price. `IntrinsicGasAlwaysPaid` adds `LeftAfterRefund`, that a
  quotient rounded down gives back no more than its part. `NonceNeverFalls` needs
  `NotLast`: between `preCheck` and the addition a checked sender's nonce is not
  the last one.
* `SettlementProofs`. `NonceAlwaysCovers`, `NonceAlwaysAdvances` and `NeverReplayed`
  hold under the assumption that `TRUE` is not in `SkipChoices`: a host that skips
  account checks may of course carry out a message twice. `SequenceInv` adds to
  types that the message in hand has the sender's nonce until the nonce is
  bumped and less after, and that a new account is never the sender.
  `PipelineSettlesMessages`, the refinement of `Settlement`, assumes nothing: it
  covers checked, unchecked and free messages. `SettleInv` gives the pipeline's
  intermediate ledgers in terms of the ledger before the message: after `buyGas`
  the purchase is missing and nothing else (`Bought`); after the execution the
  ledger is that of a message which used all its gas (`SettledAt(msg.gas)`), after
  the refund that of the gas really used. Each balance is stated as one sum over
  the integers, taken modulo the word at the end (`Owing`), and the lemmas on word
  arithmetic (`SameWord`, `WordSum`, `WordProduct`) say that the pipeline, which
  reduces after each addition and each product, ends at the same word.
* `InterpreterProofs`, first about `RegPool` alone: `IndexAlwaysUnique` from
  `PoolInv` (every register's place has a counter and its loop number is at most
  that counter), `LoopsAlwaysInOrder` from `LoopInv`, which adds that the register
  the counter speaks of is there unless its construction panicked. Then about
  `RunSpec`: `NestingAlwaysRestricted`, `ReadOnlyAlwaysKept`, `TracedAlwaysOnce`,
  `TracedGasAlwaysReal`, `StackAlwaysSafe`, `MemoryAlwaysCovers`, all from `RunInv`,
  and `RunIndexUnique` and `RunLoopsInOrder`, since whatever the frames do is a
  run of the pool. `RunInv` has four parts besides `TracedOnce`: the types, where a
  frame that executes has found its items and its memory (`GoodFrame`); `Fresh`,
  nothing is put in before the run; `Balanced`, the gas put in is the gas of all
  frames, the costs told of instructions less those told of refused ones, and
  what `create` spent, which rests on `SpentExact` (what it takes for code or from
  a failed frame is what the gas it returns is short of); and `FlagHeld`, of the frames that asked for the
  read-only flag exactly one turned it on, the outermost, and it is on exactly as
  long as that one is active. `RunImplementsDeployment` is the refinement of
  `Deployment`: a step of the outermost frame spends gas, every deeper step does or
  stutters, and the last one settles.
* `GasRulesProofs`. `PricesAlwaysAgree`; `IntrinsicGasIsExact`, from lemmas on one
  guarded addition (`PricedExact`, `PricedOverflow`, `PricedTwice`); `WorkAlwaysPaid`,
  by the kind of contract (it says nothing of `bigModExp`, whose least price is
  0, only of the other modexp), where `RoundedPrice` says that a discounted price
  rounded down per piece is never more than the one rounded down for all
  pieces. `OperandsAlwaysInPlace`: a call of modexp that is paid for declares
  lengths whose sum fits a word (`ModExpFits`), because either price grows faster
  than the lengths (`FitsNewPrice`, `FitsOldPrice`, both by `ProductBound`: a sum is
  at most its product plus one). It has a hypothesis, words of at least nine
  bits: the first 32 bytes of an exponent cost nothing, and on an 8-bit machine
  they would not be negligible. The code has 64 bits; the 8-bit instance of
  `gas_rules` lies below the bound, and there the property is checked for the
  listed inputs only. `ForksAlwaysKeepAnswers`: each table of contracts keeps the
  one before it (`TablesKeep`) up to the price of modexp, so any later one does.
* `StateDBProofs`. `StateDBTypeCorrect`; `NeverNilAlways` and
  `DatabaseImplementsWorld`, the refinement of `WorldState`. `JournalInv` says that
  each journal entry is exactly the difference between the world before it and
  the next one, and that an account is only created at an address that is in the
  destructed set (any other comes into being when it is first read). So the undo
  of a creation, which deletes the object, leaves an account that does not exist;
  without the set the next read would bring it back. `DirtiesAlwaysAccurate` needs
  `DirtyInv`: one journal creates an account at most once, and a created object
  stays as long as its entry does, so a counter never misses an entry.
* `OnChainDBProofs`. `AnswerAlwaysFits`, for any number of goroutines and
  whatever races on the map. `CacheInv` says that a cached text is
  filed under its own hash and that what a goroutine carries between two accesses
  is what the explorer answered for its own address.
* `SenderCacheProofs`. `AlwaysOwnAnswer`, for any goroutines and signers. `CacheInv`
  says that whatever is in the cell, and whatever a goroutine is about to store
  there, is what the signer stored with it derives.
* `IteratorProofs`. `ListingAlwaysRebuilds`, for every code of any length over all
  256 bytes. `WalkInv` says that the walk has come to an instruction boundary
  (`Edge`), that the lines so far assemble to the code before it, and that no
  instruction that begins there reaches over it (`NoneOver`): that is what
  rules out a second instruction boundary inside an argument, and what decides
  that an argument is cut off at the end or nowhere.

Two kinds of definition are recursive functions: the gas in all frames
(`GasInFrames`), and instruction boundaries with the flattened listing. What they
compute is proved without an induction theorem: a function that satisfies the
equation up to n exists and is unique, else there is a least n for which it is
not so (`Least`, `Smallest`, from `WFMin` of the library).

The proofs use only the assumptions on constants named in the modules, and the
two hypotheses named above (`SkipChoices` for replay, the width for
`OperandsAlwaysInPlace`). One assumption is about definitions:
`TablesAssumption` in `Opcodes` states two closed facts about the two tables of names, that
no fallback such as `0xc` reads like a name and that STOP and PUSH0 are bytes. It
holds no parameter, so TLC's evaluation of it in run `iterator` settles it; the
provers cannot, since the names of PUSH1 to PUSH32 are put together from
strings.

Model-checked and not proved: the liveness properties `Terminates`, `LookupEnds`
and `RunEnds`, which need fairness and `ENABLED` and so are out of the
proof system's reach, and of course the three claims that are violated.

## Disagreements between the code and its documentation

Three have a run of their own that TLC refutes; `findings` in `PROJECT.json`
quotes the lines:

* `RejectionIsFree`: `preCheck` buys gas before later clauses of `TransitionDb`
  reject the message, and nothing gives it back.
* `OperationExecuted`: a register does not keep its operation.
* `SeenCodesNotLoaded`: the code cache is written under another hash than the
  one it is read with.

Others the models show on the way: the gas pool is only ever added to and
panics in the end; the stub `Call` moves no value; reverting to a snapshot does
nothing, so a failed creation leaves its account; `Exist` is false for a
destructed address without a live object, while its comment says it is true
(`statedb.go:174`); `newReg` panics for an operation with more than seven
operands; `getData` calls itself overflow safe (`common.go:57`) and is not, its
callers are; `StringToOp` takes any unknown name for STOP; one out-of-gas return
of `Run` (`interpreter.go:127`) gives go-ethereum's error, which `VMErrorFromErr`
does not know; `BlobTxSidecar.BlobHashes` runs over the blobs and indexes the
commitments; `Chain.String` names each chain as the one after it; a reply of the
explorer without a `result` is an empty code and no error (`onchain.go:138-142`);
`Run` calls its depth restricted to 1024 (`interpreter.go:32`) and `create` the
limit 1024 (`evm.go:105`), but `create` compares with "greater than" before `Run`
increments, so 1025 frames can be active, of which 1024 are nested in the
outermost (`NestingRestricted` states what the comparison means, with
`CallCreateDepth` for 1024); `docs/evm-execution-model.md:96` gives the effective
tip as `min(gasTipCap, gasUsed() * gasPrice)`, and the code computes the lesser of
the tip cap and the fee cap less the base fee (`state_transition.go:229-233`); the
same page, lines 92 and 93, gives the refund as a fraction of the gas used, and
the code takes the lesser of that and the state's refund counter.

The models keep all of this as the code has it. Four of them change a state a
property speaks of: the no-op revert leaves a failed creation its endowment and
its nonce, the stub `Call` moves no value, the full pool ends the pipeline in a
panic, and a register with too many operands ends the interpreter in one. The
properties hold with these effects and do not catch them; `hazards` says so for
each.

## Not modelled

EIP-4762 witness gas (`IsEIP4762` is FALSE everywhere), logging and formatting,
deep copies and encodings of transactions, hashing and curve arithmetic, the
contents of stack, memory and storage, the nonce and balance of nested
creations, `Reg.Solve` (which nothing calls yet; it would run an operation with
the pc and stack of a frame that has moved on), the stable error codes, reading the keys file, building
URLs and the table of chain names. Nothing in the repository writes storage, so
its layers (`state_object.go:118`) always read zero.

## Plan

Done: the pipeline with `Settlement`; registers; state and journal with the
refinement; the interpreter, and the deployment it shares with the pipeline; the
two caches; the iterator and the opcodes; prices and tables of the precompiles;
and a proof of every safety property and refinement of these. What is left:

1. The safety half of the liveness properties: a measure that every step of a
   goroutine's lookup and of a walk decreases, so that only the fairness argument
   stays with TLC.
2. Facts of the tables in `TablesAssumption` that the provers could reach if the
   numbered names were listed.
