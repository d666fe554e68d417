--------------------------- MODULE StateTransition ---------------------------
(***************************************************************************)
(* core/state_transition.go with core/gas_pool.go and the create half of   *)
(* core/vm/evm.go: a host applies messages, one after the other, to one    *)
(* world state.  TransitionDb is a pipeline of steps that each read and    *)
(* write that state; here each step is an action and pc says which one is  *)
(* next:                                                                   *)
(*                                                                         *)
(*   idle -> bought -> charged -> executed -> refunded -> idle             *)
(*                        \-> deploying -/        \-> panicked             *)
(*                                                                         *)
(* A rejected message goes back to idle from wherever it was rejected.     *)
(* No step restores what an earlier one wrote: Snapshot and                *)
(* RevertToSnapshot are stubs in core/state/statedb.go.                    *)
(*                                                                         *)
(* The setters of vm.StateDB (SetNonce, AddBalance, SubBalance, SetCode),  *)
(* its refund counter and the block's CanTransfer and Transfer have no     *)
(* implementation in the repository; they are modelled as the plain map    *)
(* updates the callers take them for, balances being 256-bit words.        *)
(***************************************************************************)
EXTENDS FeeRules, IntrinsicGas, CreateRules

CONSTANTS
  Addr,            \* addresses
  None,            \* the nil pointer: no address, no message
  Coinbase,        \* Context.Coinbase
  CreateAddr,      \* crypto.CreateAddress, from a sender and its nonce
  HasStorage,      \* addresses whose storage root is not empty
  Txs,             \* the transactions the host may submit
  SkipChoices,     \* the values of SkipAccountChecks it may set
  RefundQuotient, RefundQuotientEIP3529,  \* before and since London
  MaxInitCodeSize, \* params.MaxInitCodeSize
  RefundCounters,  \* values the refund counter may have after execution
  InitBalances, InitNonces, InitCode, InitPools   \* possible initial states

Transactions ==
  [from : Addr, to : Addr \cup {None}, nonce : 0..MaxU64, value : Nat,
   gas : 0..MaxU64, feeCap : Nat, tipCap : Nat, nz : Nat, z : Nat,
   addresses : Nat, keys : Nat, blobTx : BOOLEAN, blobs : Nat,
   badHash : BOOLEAN, blobFeeCap : Nat]

Messages ==
  [from : Addr, to : Addr \cup {None}, nonce : 0..MaxU64, value : Nat,
   gas : 0..MaxU64, feeCap : Nat, tipCap : Nat, nz : Nat, z : Nat,
   addresses : Nat, keys : Nat, blobTx : BOOLEAN, blobs : Nat,
   badHash : BOOLEAN, blobFeeCap : Nat, gasPrice : Nat, skip : BOOLEAN]

Word == 0..(U256 - 1)

ASSUME TransitionAssumption ==
  /\ None \notin Addr
  /\ Coinbase \in Addr
  /\ CreateAddr \in [Addr \X (0..MaxU64) -> Addr]
  /\ \A a \in Addr, n \in 0..MaxU64 : CreateAddr[<<a, n>>] # a
  /\ HasStorage \subseteq Addr
  /\ Txs \subseteq Transactions
  /\ SkipChoices \subseteq BOOLEAN
  /\ {RefundQuotient, RefundQuotientEIP3529} \subseteq Nat \ {0}
  /\ MaxInitCodeSize \in Nat
  /\ RefundCounters \subseteq Nat
  /\ InitBalances \subseteq [Addr -> Word]
  /\ InitNonces \subseteq [Addr -> 0..MaxU64]
  /\ InitCode \subseteq [Addr -> BOOLEAN]
  /\ InitPools \subseteq 0..MaxU64

-----------------------------------------------------------------------------
VARIABLES
  balance, nonce, hasCode,  \* the world state
  gp,                       \* *st.gp, the gas pool of the block
  pc,                       \* the step of TransitionDb that comes next
  msg,                      \* st.msg
  gasRemaining, initialGas, \* st.gasRemaining, st.initialGas
  created,                  \* the address being deployed, or None
  vmerr,                    \* vmerr of TransitionDb
  outcome                   \* how the last message ended

(* History: the world as ApplyMessage found it, and the <<sender, nonce>>  *)
(* of every checked message that was carried out.                          *)
VARIABLES before, carriedOut

world == <<balance, nonce, hasCode>>
locals == <<pc, msg, gasRemaining, initialGas, created, vmerr, outcome>>
history == <<before, carriedOut>>
vars == <<world, gp, locals, history>>

World == [balance : [Addr -> Word], nonce : [Addr -> 0..MaxU64],
          hasCode : [Addr -> BOOLEAN]]

Steps == {"idle", "bought", "charged", "deploying", "executed", "refunded",
          "panicked"}

TypeOK ==
  /\ balance \in [Addr -> Word]
  /\ nonce \in [Addr -> 0..MaxU64]
  /\ hasCode \in [Addr -> BOOLEAN]
  /\ gp \in 0..MaxU64
  /\ pc \in Steps
  /\ msg \in Messages \cup {None}
  /\ pc # "idle" => msg \in Messages
  /\ gasRemaining \in 0..MaxU64
  /\ initialGas \in 0..MaxU64
  /\ created \in Addr \cup {None}
  /\ pc = "deploying" => created \in Addr
  /\ vmerr \in CreateErrors
  /\ outcome \in {"none", "rejected", "included"}
  /\ before \in World
  /\ carriedOut \subseteq Addr \X (0..MaxU64)

Init ==
  /\ balance \in InitBalances
  /\ nonce \in InitNonces
  /\ hasCode \in InitCode
  /\ gp \in InitPools
  /\ pc = "idle"
  /\ msg = None
  /\ gasRemaining = 0
  /\ initialGas = 0
  /\ created = None
  /\ vmerr = NoError
  /\ outcome = "none"
  /\ before = [balance |-> balance, nonce |-> nonce, hasCode |-> hasCode]
  /\ carriedOut = {}

-----------------------------------------------------------------------------
(* TransactionToMessage; eth_call-like callers set SkipAccountChecks.      *)
ToMessage(tx, skip) ==
  [from |-> tx.from, to |-> tx.to, nonce |-> tx.nonce, value |-> tx.value,
   gas |-> tx.gas, feeCap |-> tx.feeCap, tipCap |-> tx.tipCap, nz |-> tx.nz,
   z |-> tx.z, addresses |-> tx.addresses, keys |-> tx.keys,
   blobTx |-> tx.blobTx, blobs |-> tx.blobs, badHash |-> tx.badHash,
   blobFeeCap |-> tx.blobFeeCap, gasPrice |-> MessagePrice(tx), skip |-> skip]

Submitted == {ToMessage(tx, skip) : tx \in Txs, skip \in SkipChoices}

(* preCheck: every clause has an error of its own, none changes the state. *)
AccountAcceptedMutant(m) ==
  m.skip \/ (m.nonce <= nonce[m.from] /\ nonce[m.from] # MaxU64 /\ ~hasCode[m.from])

AccountAcceptedAtLastNonceMutant(m) ==
  m.skip \/ (m.nonce = nonce[m.from] /\ ~hasCode[m.from])

AccountAccepted(m) ==
  \/ m.skip
  \/ /\ m.nonce = nonce[m.from]
     /\ nonce[m.from] # MaxU64
     /\ ~hasCode[m.from]

BlobsAccepted(m) == m.blobTx => m.to # None /\ m.blobs > 0 /\ ~m.badHash

CanBuyGas(m) == BalanceCheck(m) < U256 /\ balance[m.from] >= BalanceCheck(m)

Accepts(m) ==
  /\ AccountAccepted(m)
  /\ FeesAccepted(m)
  /\ BlobsAccepted(m)
  /\ BlobFeeAccepted(m)
  /\ CanBuyGas(m)

Remember ==
  before' = [balance |-> balance, nonce |-> nonce, hasCode |-> hasCode]

(* TransitionDb returns an error: st, the transition object, is dropped.   *)
Reject ==
  /\ pc' = "idle"
  /\ outcome' = "rejected"
  /\ msg' = None
  /\ gasRemaining' = 0
  /\ initialGas' = 0
  /\ created' = None
  /\ vmerr' = NoError

(* ApplyMessage, when preCheck returns an error.                           *)
RejectInPreCheck(m) ==
  /\ pc = "idle"
  /\ ~Accepts(m)
  /\ Reject
  /\ Remember
  /\ UNCHANGED <<world, gp, carriedOut>>

(* ApplyMessage, when preCheck ends in buyGas.  SubGas returns nil and     *)
(* leaves the pool alone.                                                  *)
BuyGas(m) ==
  /\ pc = "idle"
  /\ Accepts(m)
  /\ pc' = "bought"
  /\ msg' = m
  /\ gasRemaining' = m.gas
  /\ initialGas' = m.gas
  /\ created' = None
  /\ vmerr' = NoError
  /\ outcome' = "none"
  /\ balance' = [balance EXCEPT ![m.from] = Uint256(@ - PurchaseCost(m))]
  /\ Remember
  /\ UNCHANGED <<nonce, hasCode, gp, carriedOut>>

MessageGas ==
  IntrinsicGas(msg.nz, msg.z, msg.addresses, msg.keys, msg.to = None)

(* Clauses 4 and 5.                                                        *)
CoversIntrinsicGasMutant == MessageGas # GasUintOverflow

CoversIntrinsicGas ==
  MessageGas # GasUintOverflow /\ gasRemaining >= MessageGas

ChargeIntrinsicGas ==
  /\ pc = "bought"
  /\ CoversIntrinsicGas
  /\ pc' = "charged"
  /\ gasRemaining' = gasRemaining - MessageGas
  /\ UNCHANGED <<world, gp, msg, initialGas, created, vmerr, outcome, history>>

RejectIntrinsicGas ==
  /\ pc = "bought"
  /\ ~CoversIntrinsicGas
  /\ Reject
  /\ UNCHANGED <<world, gp, history>>

-----------------------------------------------------------------------------
CanTransfer(a, value) == balance[a] >= value

(* Clause 6 and the init code limit, checked before anything executes.     *)
MayExecute ==
  /\ msg.value < U256
  /\ msg.value = 0 \/ CanTransfer(msg.from, msg.value)
  /\ ~(IsShanghai /\ msg.to = None /\ msg.nz + msg.z > MaxInitCodeSize)

RejectBeforeExecution ==
  /\ pc = "charged"
  /\ ~MayExecute
  /\ Reject
  /\ UNCHANGED <<world, gp, history>>

BumpNonceMutant(a) == [nonce EXCEPT ![a] = msg.nonce]

BumpNonce(a) == [nonce EXCEPT ![a] = Uint64(@ + 1)]

(* The call branch.  EVM.Call is a stub: no code runs, no value moves and  *)
(* no gas comes back.                                                      *)
ExecuteCall ==
  /\ pc = "charged"
  /\ MayExecute
  /\ msg.to # None
  /\ pc' = "executed"
  /\ nonce' = BumpNonce(msg.from)
  /\ gasRemaining' = 0
  /\ UNCHANGED <<balance, hasCode, gp, msg, initialGas, created, vmerr,
                 outcome, history>>

(* EVM.Create up to Interpreter.Run, at depth 0.                           *)
Creating == pc = "charged" /\ MayExecute /\ msg.to = None

NewAddress == CreateAddr[<<msg.from, nonce[msg.from]>>]

(* The early returns: the gas is handed back and no state has changed.     *)
CreateRefused ==
  LET covered == CanTransfer(msg.from, msg.value) IN
  /\ Creating
  /\ ~covered \/ nonce[msg.from] = MaxU64
  /\ pc' = "executed"
  /\ vmerr' = IF covered THEN "ErrNonceUintOverflow" ELSE "ErrInsufficientBalance"
  /\ UNCHANGED <<world, gp, msg, gasRemaining, initialGas, created, outcome,
                 history>>

CreateCollisionMutant ==
  /\ Creating
  /\ CanTransfer(msg.from, msg.value)
  /\ nonce[msg.from] # MaxU64
  /\ AddressTaken(nonce[NewAddress], hasCode[NewAddress], NewAddress \in HasStorage)
  /\ pc' = "executed"
  /\ vmerr' = "ErrContractAddressCollision"
  /\ gasRemaining' = 0
  /\ UNCHANGED <<world, gp, msg, initialGas, created, outcome, history>>

CreateCollision ==
  /\ Creating
  /\ CanTransfer(msg.from, msg.value)
  /\ nonce[msg.from] # MaxU64
  /\ AddressTaken(nonce[NewAddress], hasCode[NewAddress], NewAddress \in HasStorage)
  /\ pc' = "executed"
  /\ vmerr' = "ErrContractAddressCollision"
  /\ nonce' = BumpNonce(msg.from)
  /\ gasRemaining' = 0
  /\ UNCHANGED <<balance, hasCode, gp, msg, initialGas, created, outcome, history>>

(* Context.Transfer.                                                       *)
Moved(from, to, value) ==
  [balance EXCEPT ![from] = Uint256(@ - value), ![to] = Uint256(@ + value)]

EnterCreate ==
  /\ Creating
  /\ CanTransfer(msg.from, msg.value)
  /\ nonce[msg.from] # MaxU64
  /\ ~AddressTaken(nonce[NewAddress], hasCode[NewAddress], NewAddress \in HasStorage)
  /\ pc' = "deploying"
  /\ created' = NewAddress
  /\ nonce' = [a \in Addr |-> IF IsEIP158 /\ a = NewAddress THEN 1
                              ELSE BumpNonce(msg.from)[a]]
  /\ balance' = Moved(msg.from, NewAddress, msg.value)
  /\ UNCHANGED <<hasCode, gp, msg, gasRemaining, initialGas, vmerr, outcome, history>>

(* Interpreter.Run has ended in some way; the rest of create.              *)
Runs == RunResults(gasRemaining)

(* A failed deployment keeps its gas.                                      *)
FinishCreateMutant(run) ==
  /\ pc = "deploying"
  /\ pc' = "executed"
  /\ vmerr' = DeployError(run)
  /\ gasRemaining' = run.gas
  /\ UNCHANGED <<world, gp, msg, initialGas, created, outcome, history>>

FinishCreate(run) ==
  /\ pc = "deploying"
  /\ pc' = "executed"
  /\ vmerr' = DeployError(run)
  /\ gasRemaining' = GasAfterDeploy(run)
  /\ hasCode' = IF DeployError(run) = NoError
                THEN [hasCode EXCEPT ![created] = run.size > 0] ELSE hasCode
  /\ UNCHANGED <<balance, nonce, gp, msg, initialGas, created, outcome, history>>

-----------------------------------------------------------------------------
GasUsed == Uint64(initialGas - gasRemaining)

RefundMutant(counter) == counter

Quotient == IF IsLondon THEN RefundQuotientEIP3529 ELSE RefundQuotient

Refund(counter) == BigMin(GasUsed \div Quotient, counter)

GasReturnMutant(left) == Uint256(left * msg.feeCap)

(* Left-over gas is returned at the price it was bought for.               *)
GasReturn(left) == Uint256(left * msg.gasPrice)

(* refundGas, for a given value of the refund counter.  AddGas panics when *)
(* the pool would not fit a uint64 any more, after the sender was paid.    *)
RefundGas(counter) ==
  LET left == Uint64(gasRemaining + Refund(counter)) IN
  /\ pc = "executed"
  /\ gasRemaining' = left
  /\ balance' = [balance EXCEPT
       ![msg.from] = Uint256(@ + GasReturn(left))]
  /\ IF gp > MaxU64 - left
     THEN pc' = "panicked" /\ gp' = gp
     ELSE pc' = "refunded" /\ gp' = gp + left
  /\ UNCHANGED <<nonce, hasCode, msg, initialGas, created, vmerr, outcome, history>>

FeeMutant == Uint256(initialGas * Uint256(EffectiveTip(msg)))

Fee == Uint256(GasUsed * Uint256(EffectiveTip(msg)))

PayCoinbase ==
  /\ pc = "refunded"
  /\ pc' = "idle"
  /\ outcome' = "included"
  /\ balance' = IF FreeMessage(msg) THEN balance
                ELSE [balance EXCEPT ![Coinbase] = Uint256(@ + Fee)]
  /\ carriedOut' = IF msg.skip THEN carriedOut
                   ELSE carriedOut \cup {<<msg.from, msg.nonce>>}
  /\ gasRemaining' = 0
  /\ initialGas' = 0
  /\ UNCHANGED <<nonce, hasCode, gp, msg, created, vmerr, before>>

-----------------------------------------------------------------------------
(* The host submits a message.                                             *)
Submit ==
  \/ \E m \in Submitted : RejectInPreCheck(m)
  \/ \E m \in Submitted : BuyGas(m)

(* TransitionDb goes on with the message it has.                           *)
Step ==
  \/ ChargeIntrinsicGas
  \/ RejectIntrinsicGas
  \/ RejectBeforeExecution
  \/ ExecuteCall
  \/ CreateRefused
  \/ CreateCollision
  \/ EnterCreate
  \/ \E run \in Runs : FinishCreate(run)
  \/ \E counter \in RefundCounters : RefundGas(counter)
  \/ PayCoinbase

Next == Submit \/ Step

Spec == Init /\ [][Next]_vars

-----------------------------------------------------------------------------
(* Buying gas leaves the sender able to pay the endowment, whatever the    *)
(* fees were: buyGas checks the balance against the caps (balanceCheck)    *)
(* and charges the effective prices (mgval), so SubBalance never goes      *)
(* below zero and clause 6 of TransitionDb never rejects a message after   *)
(* its gas was sold.                                                       *)
FundsReserved ==
  pc \in {"bought", "charged"} =>
    /\ balance[msg.from] = before.balance[msg.from] - PurchaseCost(msg)
    /\ balance[msg.from] >= msg.value

(* The gas counter never exceeds the limit that was paid for, even after   *)
(* the refund, and from the charge for intrinsic gas to the end of         *)
(* execution at least that much is accounted as used: gasUsed, the basis   *)
(* of the refund and of the fee, never wraps and is never free.            *)
GasAccounted ==
  /\ pc \in {"bought", "charged", "deploying", "executed", "refunded", "panicked"} =>
       initialGas = msg.gas /\ gasRemaining <= initialGas
  /\ pc \in {"charged", "deploying", "executed"} =>
       MessageGas # GasUintOverflow /\ GasUsed >= MessageGas

(* The coinbase is never paid a negative tip: FromBig of a negative number *)
(* would be a reward near 2^256.  Only the clauses of preCheck on the two  *)
(* caps, made steps before, keep the subtraction GasFeeCap - BaseFee safe. *)
TipNotNegative == pc = "refunded" /\ ~FreeMessage(msg) => EffectiveTip(msg) >= 0

(* A checked message is carried out at most once: every path through       *)
(* TransitionDb that keeps the message leaves the sender's nonce beyond    *)
(* it, the failing creations included.                                     *)
NoReplay ==
  [][pc = "refunded" /\ pc' = "idle" /\ ~msg.skip
       => <<msg.from, msg.nonce>> \notin carriedOut]_vars

(* A nonce falls in one place only: where TransitionDb adds one to the     *)
(* last nonce of the sender of an unchecked call.  Checked messages are    *)
(* stopped by ErrNonceMax in preCheck, three steps before the addition;    *)
(* creations by the comparison in create; and the account a creation puts  *)
(* at nonce 1 had none.                                                    *)
NonceFalls ==
  \A a \in Addr : nonce'[a] < nonce[a] =>
    /\ msg.skip /\ msg.to # None
    /\ a = msg.from /\ nonce[a] = MaxU64 /\ nonce'[a] = 0

NonceFallsUncheckedOnly == [][NonceFalls]_vars

(* The state behind it: an account's nonce is above that of every checked  *)
(* message it has sent.                                                    *)
NonceCoversMessages == \A sent \in carriedOut : sent[2] < nonce[sent[1]]

(* A checked message that is carried out advances its sender's nonce by    *)
(* exactly one, whether execution succeeded or not, and touches no other   *)
(* nonce but that of the account it creates.                               *)
NonceAdvanced ==
  \A a \in Addr :
    IF a = msg.from THEN nonce[a] = before.nonce[a] + 1
    ELSE nonce[a] # before.nonce[a] => a = created /\ nonce[a] = 1

NonceAdvancesOnce ==
  pc = "idle" /\ outcome = "included" /\ ~msg.skip => NonceAdvanced

(* Nothing clears the refund counter between messages, so it may hold any  *)
(* number when refundGas reads it: still, a message is charged for all but *)
(* the refundable fraction of its intrinsic gas.                           *)
IntrinsicGasStaysPaid ==
  pc = "refunded" => GasUsed * Quotient >= MessageGas * (Quotient - 1)

(* create as a whole, from the early returns to the last one, is the       *)
(* outcome Deployment states: a creation that returns an error has left no *)
(* code, one that does not has paid for the code it left, and the gas that *)
(* is handed back is what that error allows.                               *)
Deployed == INSTANCE Deployment WITH
  running <- Creating \/ pc = "deploying",
  gas <- gasRemaining,
  err <- vmerr,
  stored <- IF created = None THEN FALSE ELSE hasCode[created]

UsesDeployment == Deployed!DeploymentSpec

(* The ledger between messages: each one is settled in a single step.      *)
Ledger(w) == IF pc = "idle" THEN w ELSE before.balance
Nonces(n) == IF pc = "idle" THEN n ELSE before.nonce

Settled == INSTANCE Settlement WITH
  ledger <- Ledger(balance),
  nonces <- Nonces(nonce)

(* The pipeline implements the settlement of whole messages: seen between  *)
(* messages, a message either changes nothing, forfeits its purchase, or   *)
(* is settled to the wei at one quantity of gas, one price and one tip.    *)
SettlesMessages == Settled!Spec

-----------------------------------------------------------------------------
(* The inductive invariants behind these properties.                       *)

(* A message in the pipeline has passed the fee clauses of preCheck at the *)
(* price TransactionToMessage gave it.                                     *)
FeesHeld ==
  pc # "idle" =>
    /\ msg.gasPrice = MessagePrice(msg)
    /\ FeesAccepted(msg)
    /\ BlobFeeAccepted(msg)

PipelineInv == TypeOK /\ FeesHeld /\ FundsReserved /\ GasAccounted

(* With every message checked: where the sender's nonce stands at each     *)
(* step, and that the message in the pipeline is a new one.                *)
SequenceInv ==
  /\ TypeOK
  /\ NonceCoversMessages
  /\ pc # "idle" => ~msg.skip /\ <<msg.from, msg.nonce>> \notin carriedOut
  /\ pc \in {"bought", "charged"} =>
       /\ nonce = before.nonce
       /\ nonce[msg.from] = msg.nonce
       /\ msg.nonce # MaxU64
  /\ pc \in {"deploying", "executed", "refunded"} =>
       NonceAdvanced /\ nonce[msg.from] > msg.nonce
  /\ NonceAdvancesOnce

(* Each step as a part of the settlement: what the world has become of the *)
(* one before the message, with the gas that is used so far.               *)
Bought ==
  /\ created = None
  /\ nonce = before.nonce
  /\ balance = [before.balance EXCEPT ![msg.from] = @ - PurchaseCost(msg)]

Owing(a, used) ==
  before.balance[a]
    - Settled!Credit(a, msg.from, Settled!Payment(msg, used, created))
    + Settled!Credit(a, created, msg.value)

SettledAt(used) ==
  /\ Settled!Executable(msg)
  /\ created # None =>
       msg.to = None /\ created # msg.from /\ before.nonce[created] = 0
  /\ nonce = Settled!NextNonces(msg, created)
  /\ balance = [a \in Addr |-> Uint256(Owing(a, used))]

SettleInv ==
  /\ PipelineInv
  /\ pc # "idle" => msg \in Submitted /\ Settled!Due(msg)
  /\ pc = "bought" => gasRemaining = msg.gas
  /\ pc \in {"bought", "charged"} => Bought
  /\ pc \in {"deploying", "executed"} => SettledAt(msg.gas)
  /\ pc = "refunded" =>
       SettledAt(GasUsed) /\ GasUsed \in Settled!LeastUsed(msg)..msg.gas

-----------------------------------------------------------------------------
(* A claim of the documentation that the code does not meet.               *)

(* "First check this message satisfies all consensus rules before applying *)
(* the message": a message that is rejected has not changed the state.     *)
RejectionIsFree ==
  pc = "idle" /\ outcome = "rejected" =>
    balance = before.balance /\ nonce = before.nonce
=============================================================================
