--------------------------- MODULE PipelineProofs ---------------------------
(***************************************************************************)
(* Proofs about the message pipeline, for every set of transactions, every *)
(* rule set of the chain and every width of the machine words: first its   *)
(* types, then what its steps rely on of each other.  PipelineInv is       *)
(* inductive with no assumption on the messages.                           *)
(***************************************************************************)
EXTENDS StateTransition, TLAPS

LEMMA Uint64Typed == \A n \in Int : Uint64(n) \in 0..MaxU64
BY RulesAssumption DEF Uint64

LEMMA Uint64Fits == \A n \in 0..MaxU64 : Uint64(n) = n
BY RulesAssumption DEF Uint64

LEMMA Uint256Typed == \A n \in Int : Uint256(n) \in Word
BY RulesAssumption DEF Uint256, Word

LEMMA Uint256Fits == \A n \in Word : Uint256(n) = n
BY RulesAssumption DEF Uint256, Word

LEMMA Constants ==
  /\ MaxU64 \in Nat \ {0} /\ U256 \in Nat \ {0}
  /\ {BaseFee, BlobBaseFee, GasPerBlob} \subseteq Nat
  /\ {MaxCodeSize, CreateDataGas} \subseteq Nat
  /\ Coinbase \in Addr /\ None \notin Addr
  /\ {RefundQuotient, RefundQuotientEIP3529} \subseteq Nat \ {0}
  /\ CodeSizes \subseteq Nat /\ RefundCounters \subseteq Nat
BY RulesAssumption, FeeAssumption, CreateAssumption, TransitionAssumption

-----------------------------------------------------------------------------
(* Operators on messages.                                                  *)
LEMMA MessageTyped ==
  ASSUME NEW tx \in Txs, NEW skip \in SkipChoices
  PROVE  ToMessage(tx, skip) \in Messages
<1>1. tx \in Transactions /\ skip \in BOOLEAN
  BY TransitionAssumption
<1>2. tx.feeCap \in Nat /\ tx.tipCap \in Nat
  BY <1>1 DEF Transactions
<1>3. MessagePrice(tx) \in Nat
  BY <1>2, FeeAssumption DEF MessagePrice, BigMin
<1> QED BY <1>1, <1>3 DEF Transactions, Messages, ToMessage

LEMMA FeesTyped ==
  ASSUME NEW m \in Messages
  PROVE  /\ BlobGasUsed(m) \in Nat
         /\ ContextBaseFee(m) \in Nat
         /\ ContextBlobBaseFee(m) \in Nat
         /\ BlobFee(m) \in Nat
         /\ PurchaseCost(m) \in Nat
         /\ BalanceCheck(m) \in Nat
         /\ EffectiveTip(m) \in Int
<1>1. /\ {m.gas, m.feeCap, m.tipCap, m.value, m.blobs, m.blobFeeCap, m.gasPrice}
           \subseteq Nat
      /\ m.blobTx \in BOOLEAN
  BY RulesAssumption DEF Messages
<1>2. BlobGasUsed(m) \in Nat
  BY <1>1, FeeAssumption DEF BlobGasUsed
<1>3. ContextBaseFee(m) \in Nat /\ ContextBlobBaseFee(m) \in Nat
  BY FeeAssumption DEF ContextBaseFee, ContextBlobBaseFee
<1>4. BlobFee(m) \in Nat
  BY <1>2, <1>3 DEF BlobFee
<1>5. PurchaseCost(m) \in Nat
  BY <1>1, <1>4 DEF PurchaseCost
<1>6. m.gas * m.feeCap \in Nat /\ BlobGasUsed(m) * m.blobFeeCap \in Nat
  BY <1>1, <1>2
<1>7. BalanceCheck(m) \in Nat
  BY <1>1, <1>6 DEF BalanceCheck
<1>8. EffectiveTip(m) \in Int
  BY <1>1, <1>3 DEF EffectiveTip, BigMin
<1> QED BY <1>2, <1>3, <1>4, <1>5, <1>7, <1>8

LEMMA PricedTyped ==
  ASSUME NEW gas \in (0..MaxU64) \cup {GasUintOverflow}, NEW count \in Nat,
         NEW price \in Nat
  PROVE  Priced(gas, count, price) \in (0..MaxU64) \cup {GasUintOverflow}
<1>1. CASE gas = GasUintOverflow
  BY <1>1 DEF Priced
<1>2. CASE gas \in 0..MaxU64
  <2>1. gas + count * price \in Int
    BY <1>2
  <2> QED BY <2>1, Uint64Typed DEF Priced
<1> QED BY <1>1, <1>2

LEMMA IntrinsicGasTyped ==
  ASSUME NEW m \in Messages
  PROVE  IntrinsicGas(m.nz, m.z, m.addresses, m.keys, m.to = None)
           \in (0..MaxU64) \cup {GasUintOverflow}
<1> DEFINE creation == m.to = None
           base == IF creation /\ IsHomestead THEN TxGasContractCreation ELSE TxGas
           data == DataGas(base, m.nz, m.z, creation)
           first == IF m.nz + m.z > 0 THEN data ELSE base
<1>1. {m.nz, m.z, m.addresses, m.keys} \subseteq Nat
  BY DEF Messages
<1>2. base \in (0..MaxU64) \cup {GasUintOverflow}
  BY IntrinsicAssumption
<1>3. ToWordSize(m.nz + m.z) \in Nat
  <2>1. WordBytes \in Nat \ {0} /\ MaxU64 \in Nat /\ m.nz + m.z \in Nat
    BY <1>1, RulesAssumption, IntrinsicAssumption
  <2>2. \A n \in Nat : n \div WordBytes \in Nat
    BY <2>1
  <2> QED BY <2>1, <2>2 DEF ToWordSize
<1>4. data \in (0..MaxU64) \cup {GasUintOverflow}
  <2> DEFINE price == IF IsIstanbul THEN NonZeroGasEIP2028 ELSE NonZeroGasFrontier
             bytes == Priced(Priced(base, m.nz, price), m.z, ZeroGas)
  <2>1. price \in Nat /\ ZeroGas \in Nat /\ InitCodeWordGas \in Nat
    BY IntrinsicAssumption
  <2>2. bytes \in (0..MaxU64) \cup {GasUintOverflow}
    <3> HIDE DEF base, price
    <3> QED BY <1>1, <1>2, <2>1, PricedTyped
  <2>3. Priced(bytes, ToWordSize(m.nz + m.z), InitCodeWordGas)
          \in (0..MaxU64) \cup {GasUintOverflow}
    <3> HIDE DEF bytes
    <3> QED BY <1>3, <2>1, <2>2, PricedTyped
  <2> QED BY <2>2, <2>3 DEF DataGas
<1>5. first \in (0..MaxU64) \cup {GasUintOverflow}
  <2> HIDE DEF base, data
  <2> QED BY <1>2, <1>4
<1>6. m.addresses * AddressGas \in Nat /\ m.keys * StorageKeyGas \in Nat
  BY <1>1, IntrinsicAssumption
<1>7. first # GasUintOverflow =>
        Uint64(first + m.addresses * AddressGas + m.keys * StorageKeyGas) \in 0..MaxU64
  <2> HIDE DEF first
  <2> QED BY <1>5, <1>6, Uint64Typed
<1> QED BY <1>7 DEF IntrinsicGas

LEMMA DeployTyped ==
  ASSUME NEW run \in [gas : 0..MaxU64, err : RunErrors, size : CodeSizes,
                      startsEF : BOOLEAN]
  PROVE  /\ DeployError(run) \in CreateErrors
         /\ GasAfterDeploy(run) \in 0..run.gas
<1>1. /\ run.gas \in Nat /\ run.gas <= MaxU64 /\ run.err \in RunErrors
      /\ run.size \in Nat
  <2>1. run.gas \in 0..MaxU64 /\ run.err \in RunErrors /\ run.size \in CodeSizes
    OBVIOUS
  <2>2. MaxU64 \in Nat /\ CodeSizes \subseteq Nat
    BY Constants
  <2>3. run.gas \in Nat /\ run.gas <= MaxU64
    BY <2>1, <2>2
  <2> QED BY <2>1, <2>2, <2>3
<1>2. CodeCost(run) \in Nat
  BY <1>1, Constants DEF CodeCost
<1>3. DeployError(run) \in CreateErrors
  BY <1>1 DEF DeployError, CreateErrors, DeployErrors, RunErrors, NoError
<1>4. DeployError(run) = NoError => run.gas >= CodeCost(run)
  BY <1>1, <1>2 DEF DeployError, NoError
<1>5. GasAfterDeploy(run) \in 0..run.gas
  BY <1>1, <1>2, <1>4 DEF GasAfterDeploy
<1> QED BY <1>3, <1>5

LEMMA MessageGasTyped ==
  ASSUME msg \in Messages
  PROVE  MessageGas \in (0..MaxU64) \cup {GasUintOverflow}
BY IntrinsicGasTyped DEF MessageGas

LEMMA NewAddressTyped ==
  ASSUME msg \in Messages, nonce \in [Addr -> 0..MaxU64]
  PROVE  NewAddress \in Addr /\ NewAddress # msg.from
<1>1. msg.from \in Addr /\ nonce[msg.from] \in 0..MaxU64
  BY DEF Messages
<1> QED BY <1>1, TransitionAssumption DEF NewAddress

LEMMA BumpNonceTyped ==
  ASSUME NEW a \in Addr, nonce \in [Addr -> 0..MaxU64]
  PROVE  BumpNonce(a) \in [Addr -> 0..MaxU64]
<1>1. Uint64(nonce[a] + 1) \in 0..MaxU64
  BY Uint64Typed, Constants
<1> QED BY <1>1 DEF BumpNonce

LEMMA GasUsedTyped ==
  ASSUME gasRemaining \in 0..MaxU64, initialGas \in 0..MaxU64,
         NEW counter \in RefundCounters
  PROVE  GasUsed \in 0..MaxU64 /\ Refund(counter) \in 0..GasUsed
<1>1. GasUsed \in 0..MaxU64
  BY Uint64Typed, Constants DEF GasUsed
<1>2. counter \in Nat /\ RefundQuotient \in Nat \ {0}
      /\ RefundQuotientEIP3529 \in Nat \ {0}
  BY Constants
<1>3. \A q \in Nat \ {0} : GasUsed \div q \in 0..GasUsed
  BY <1>1, Constants
<1>4. Refund(counter) \in 0..GasUsed
  BY <1>1, <1>2, <1>3 DEF Refund, Quotient, BigMin
<1> QED BY <1>1, <1>4

-----------------------------------------------------------------------------
LEMMA InitTyped == Init => TypeOK
<1> SUFFICES ASSUME Init PROVE TypeOK
  OBVIOUS
<1>1. /\ balance \in [Addr -> Word] /\ nonce \in [Addr -> 0..MaxU64]
      /\ hasCode \in [Addr -> BOOLEAN] /\ gp \in 0..MaxU64
  BY TransitionAssumption DEF Init
<1>2. before \in World
  BY <1>1 DEF Init, World
<1> QED BY <1>1, <1>2, Constants
     DEF Init, TypeOK, Steps, CreateErrors, RunErrors, NoError

LEMMA StepTyped == TypeOK /\ [Next]_vars => TypeOK'
<1> SUFFICES ASSUME TypeOK, [Next]_vars PROVE TypeOK'
  OBVIOUS
<1> USE DEF TypeOK
<1>1. ASSUME NEW tx \in Txs, NEW skip \in SkipChoices,
             RejectInPreCheck(ToMessage(tx, skip))
      PROVE  TypeOK'
  <2>1. before' \in World
    BY <1>1 DEF RejectInPreCheck, Remember, World
  <2> QED BY <1>1, <2>1, Constants
       DEF RejectInPreCheck, Reject, world, Steps, CreateErrors, RunErrors, NoError
<1>2. ASSUME NEW tx \in Txs, NEW skip \in SkipChoices, BuyGas(ToMessage(tx, skip))
      PROVE  TypeOK'
  <2> DEFINE m == ToMessage(tx, skip)
  <2>1. m \in Messages /\ m.from \in Addr /\ m.gas \in 0..MaxU64
    BY MessageTyped DEF Messages
  <2> HIDE DEF m
  <2>2. PurchaseCost(m) \in Nat
    BY <2>1, FeesTyped
  <2>3. Uint256(balance[m.from] - PurchaseCost(m)) \in Word
    <3>1. balance[m.from] \in Nat
      BY <2>1, Constants DEF Word
    <3> QED BY <2>2, <3>1, Uint256Typed
  <2>4. balance' \in [Addr -> Word]
    BY <1>2, <2>3 DEF BuyGas, m
  <2>5. before' \in World
    BY <1>2 DEF BuyGas, Remember, World
  <2>6. msg' \in Messages /\ gasRemaining' \in 0..MaxU64 /\ initialGas' \in 0..MaxU64
    BY <1>2, <2>1 DEF BuyGas, m
  <2> QED BY <1>2, <2>4, <2>5, <2>6
       DEF BuyGas, Steps, CreateErrors, RunErrors, NoError
<1>3. CASE ChargeIntrinsicGas
  <2>1. gasRemaining' \in 0..MaxU64
    <3>1. MessageGas \in 0..MaxU64 /\ gasRemaining >= MessageGas
      BY <1>3, MessageGasTyped DEF ChargeIntrinsicGas, CoversIntrinsicGas
    <3> QED BY <1>3, <3>1, Constants DEF ChargeIntrinsicGas
  <2> QED BY <1>3, <2>1 DEF ChargeIntrinsicGas, world, history, Steps
<1>4. CASE RejectIntrinsicGas
  BY <1>4, Constants
     DEF RejectIntrinsicGas, Reject, world, history, Steps, CreateErrors, RunErrors, NoError
<1>5. CASE RejectBeforeExecution
  BY <1>5, Constants
     DEF RejectBeforeExecution, Reject, world, history, Steps, CreateErrors,
         RunErrors, NoError
<1>6. CASE ExecuteCall
  <2>1. nonce' \in [Addr -> 0..MaxU64]
    BY <1>6, BumpNonceTyped DEF ExecuteCall, Messages
  <2> QED BY <1>6, <2>1, Constants DEF ExecuteCall, history, Steps
<1>7. CASE CreateRefused
  BY <1>7 DEF CreateRefused, Creating, world, history, Steps, CreateErrors, EarlyErrors
<1>8. CASE CreateCollision
  <2>1. nonce' \in [Addr -> 0..MaxU64]
    BY <1>8, BumpNonceTyped DEF CreateCollision, Creating, Messages
  <2> QED BY <1>8, <2>1, Constants
       DEF CreateCollision, Creating, history, Steps, CreateErrors
<1>9. CASE EnterCreate
  <2>1. msg \in Messages /\ msg.from \in Addr /\ msg.value \in Nat
    BY <1>9 DEF EnterCreate, Creating, Messages
  <2>2. NewAddress \in Addr /\ NewAddress # msg.from
    BY <2>1, NewAddressTyped
  <2>3. BumpNonce(msg.from) \in [Addr -> 0..MaxU64]
    BY <2>1, BumpNonceTyped
  <2>4. nonce' \in [Addr -> 0..MaxU64]
    BY <1>9, <2>3, Constants DEF EnterCreate
  <2>5. balance' \in [Addr -> Word]
    <3>1. \A a \in Addr : balance[a] \in Nat
      BY Constants DEF Word
    <3>2. Uint256(balance[msg.from] - msg.value) \in Word
      BY <2>1, <3>1, Uint256Typed
    <3>3. Uint256(balance[NewAddress] + msg.value) \in Word
      BY <2>1, <2>2, <3>1, Uint256Typed
    <3> QED BY <1>9, <2>2, <3>2, <3>3 DEF EnterCreate, Moved
  <2> QED BY <1>9, <2>2, <2>4, <2>5 DEF EnterCreate, Creating, history, Steps
<1>10. ASSUME NEW run \in Runs, FinishCreate(run) PROVE TypeOK'
  <2>1. run \in [gas : 0..MaxU64, err : RunErrors, size : CodeSizes,
                 startsEF : BOOLEAN]
    BY Constants DEF Runs, RunResults
  <2>2. vmerr' \in CreateErrors /\ gasRemaining' \in 0..MaxU64
    <3>1. run.gas \in 0..MaxU64
      BY <2>1
    <3>2. DeployError(run) \in CreateErrors /\ GasAfterDeploy(run) \in 0..run.gas
      BY <2>1, DeployTyped
    <3> QED BY <1>10, <3>1, <3>2, Constants DEF FinishCreate
  <2>3. hasCode' \in [Addr -> BOOLEAN]
    <3>1. (run.size > 0) \in BOOLEAN
      OBVIOUS
    <3> QED BY <1>10, <3>1 DEF FinishCreate
  <2> QED BY <1>10, <2>2, <2>3 DEF FinishCreate, history, Steps
<1>11. ASSUME NEW counter \in RefundCounters, RefundGas(counter) PROVE TypeOK'
  <2> DEFINE left == Uint64(gasRemaining + Refund(counter))
  <2>1. left \in 0..MaxU64
    <3>1. Refund(counter) \in Nat
      BY GasUsedTyped, Constants
    <3> QED BY <3>1, Uint64Typed, Constants
  <2> HIDE DEF left
  <2>2. msg \in Messages /\ msg.from \in Addr /\ msg.gasPrice \in Nat
    BY <1>11 DEF RefundGas, Messages
  <2>3. balance' \in [Addr -> Word]
    <3>1. balance[msg.from] \in Nat
      BY <2>2, Constants DEF Word
    <3>2. GasReturn(left) \in Word
      BY <2>1, <2>2, Uint256Typed, Constants DEF GasReturn
    <3>3. Uint256(balance[msg.from] + GasReturn(left)) \in Word
      BY <3>1, <3>2, Uint256Typed, Constants DEF Word
    <3> QED BY <1>11, <3>3 DEF RefundGas, left
  <2>4. gp' \in 0..MaxU64 /\ pc' \in {"panicked", "refunded"}
    BY <1>11, <2>1, Constants DEF RefundGas, left
  <2>5. gasRemaining' \in 0..MaxU64
    BY <1>11, <2>1 DEF RefundGas, left
  <2> QED BY <1>11, <2>2, <2>3, <2>4, <2>5 DEF RefundGas, history, Steps
<1>12. CASE PayCoinbase
  <2>1. msg \in Messages /\ msg.from \in Addr /\ msg.nonce \in 0..MaxU64
    BY <1>12 DEF PayCoinbase, Messages
  <2>2. balance' \in [Addr -> Word]
    <3>1. GasUsed \in Nat
      BY Uint64Typed, Constants DEF GasUsed
    <3>2. Uint256(EffectiveTip(msg)) \in Nat
      BY <2>1, FeesTyped, Uint256Typed, Constants DEF Word
    <3>3. GasUsed * Uint256(EffectiveTip(msg)) \in Int
      BY <3>1, <3>2
    <3>4. Fee \in Word
      BY <3>3, Uint256Typed DEF Fee
    <3>5. Uint256(balance[Coinbase] + Fee) \in Word
      BY <3>4, Uint256Typed, Constants DEF Word
    <3> QED BY <1>12, <3>5 DEF PayCoinbase
  <2>3. carriedOut' \subseteq Addr \X (0..MaxU64)
    BY <1>12, <2>1 DEF PayCoinbase
  <2> QED BY <1>12, <2>1, <2>2, <2>3, Constants DEF PayCoinbase, Steps
<1>13. CASE UNCHANGED vars
  BY <1>13 DEF vars, world, locals, history
<1> QED BY <1>1, <1>2, <1>3, <1>4, <1>5, <1>6, <1>7, <1>8, <1>9, <1>10, <1>11,
           <1>12, <1>13 DEF Next, Submit, Step, Submitted

(* Every reachable state of the pipeline is well typed: the balances are   *)
(* 256-bit words, the nonces, the pool and the gas counters fit a uint64.  *)
THEOREM TypeCorrect == Spec => []TypeOK
BY InitTyped, StepTyped, PTL DEF Spec

-----------------------------------------------------------------------------
(* buyGas: the charge never exceeds the balance that was checked, less the *)
(* endowment.                                                              *)
LEMMA CostWithinCheck ==
  ASSUME NEW m \in Messages,
         m.gasPrice = MessagePrice(m), BlobFeeAccepted(m)
  PROVE  PurchaseCost(m) + m.value <= BalanceCheck(m)
<1>1. /\ {m.gas, m.feeCap, m.tipCap, m.value, m.blobFeeCap, m.gasPrice} \subseteq Nat
      /\ BlobGasUsed(m) \in Nat /\ ContextBlobBaseFee(m) \in Nat
  BY FeesTyped, RulesAssumption DEF Messages
<1>2. m.gas * m.gasPrice <= m.gas * m.feeCap
  <2>1. m.gasPrice <= m.feeCap
    BY <1>1, FeeAssumption DEF MessagePrice, BigMin
  <2> QED BY <1>1, <2>1
<1>3. IsCancun => BlobGasUsed(m) * ContextBlobBaseFee(m)
                    <= BlobGasUsed(m) * m.blobFeeCap
  <2> SUFFICES ASSUME IsCancun
               PROVE  BlobGasUsed(m) * ContextBlobBaseFee(m)
                        <= BlobGasUsed(m) * m.blobFeeCap
    OBVIOUS
  <2>1. CASE BlobGasUsed(m) = 0
    BY <1>1, <2>1
  <2>2. CASE BlobGasUsed(m) > 0
    <3>1. ContextBlobBaseFee(m) <= m.blobFeeCap
      BY <1>1, <2>2 DEF BlobFeeAccepted, ContextBlobBaseFee
    <3> QED BY <1>1, <3>1
  <2> QED BY <1>1, <2>1, <2>2
<1>4. /\ m.gas * m.gasPrice \in Nat /\ m.gas * m.feeCap \in Nat
      /\ BlobGasUsed(m) * ContextBlobBaseFee(m) \in Nat
      /\ BlobGasUsed(m) * m.blobFeeCap \in Nat
  BY <1>1
<1> HIDE DEF BlobGasUsed, ContextBlobBaseFee
<1> QED BY <1>1, <1>2, <1>3, <1>4 DEF PurchaseCost, BalanceCheck, BlobFee

LEMMA MessagePriced ==
  ASSUME NEW tx \in Txs, NEW skip \in SkipChoices
  PROVE  /\ ToMessage(tx, skip).gasPrice = MessagePrice(ToMessage(tx, skip))
         /\ ToMessage(tx, skip).skip = skip
BY DEF ToMessage, MessagePrice

-----------------------------------------------------------------------------
LEMMA InitPipeline == Init => PipelineInv
BY InitTyped DEF Init, PipelineInv, FeesHeld, FundsReserved, GasAccounted

LEMMA StepPipeline == PipelineInv /\ [Next]_vars => PipelineInv'
<1> SUFFICES ASSUME PipelineInv, [Next]_vars PROVE PipelineInv'
  OBVIOUS
<1>0. TypeOK /\ TypeOK'
  BY StepTyped DEF PipelineInv
<1>a. FeesHeld /\ FundsReserved /\ GasAccounted
  BY DEF PipelineInv
<1>b. SUFFICES FeesHeld' /\ FundsReserved' /\ GasAccounted'
  BY <1>0 DEF PipelineInv
<1>t. /\ gasRemaining \in Nat /\ initialGas \in Nat /\ MaxU64 \in Nat
      /\ gasRemaining <= MaxU64 /\ initialGas <= MaxU64
  BY <1>0, Constants DEF TypeOK
<1>u. gasRemaining <= initialGas => GasUsed = initialGas - gasRemaining
  BY <1>t, Uint64Fits DEF GasUsed
<1>1. ASSUME NEW tx \in Txs, NEW skip \in SkipChoices,
             RejectInPreCheck(ToMessage(tx, skip))
      PROVE  FeesHeld' /\ FundsReserved' /\ GasAccounted'
  BY <1>1 DEF RejectInPreCheck, Reject, FeesHeld, FundsReserved, GasAccounted
<1>2. ASSUME NEW tx \in Txs, NEW skip \in SkipChoices, BuyGas(ToMessage(tx, skip))
      PROVE  FeesHeld' /\ FundsReserved' /\ GasAccounted'
  <2> DEFINE m == ToMessage(tx, skip)
  <2>1. m \in Messages /\ m.gasPrice = MessagePrice(m)
    BY MessageTyped, MessagePriced
  <2>2. Accepts(m) /\ msg' = m /\ pc' = "bought"
        /\ gasRemaining' = m.gas /\ initialGas' = m.gas
        /\ before'.balance = balance
        /\ balance' = [balance EXCEPT ![m.from] = Uint256(@ - PurchaseCost(m))]
    BY <1>2 DEF BuyGas, Remember
  <2> HIDE DEF m
  <2>3. FeesHeld'
    BY <2>1, <2>2 DEF FeesHeld, Accepts, FeesAccepted, FreeMessage,
                      ContextBaseFee, BlobFeeAccepted, ContextBlobBaseFee,
                      BlobGasUsed, MessagePrice
  <2>4. FundsReserved'
    <3>1. m.from \in Addr /\ m.value \in Nat
      BY <2>1 DEF Messages
    <3>2. /\ PurchaseCost(m) \in Nat /\ BalanceCheck(m) \in Nat
          /\ PurchaseCost(m) + m.value <= BalanceCheck(m)
      BY <2>1, <2>2, FeesTyped, CostWithinCheck DEF Accepts
    <3>3. balance[m.from] \in Word /\ balance[m.from] >= BalanceCheck(m)
      BY <1>0, <2>2, <3>1 DEF TypeOK, Accepts, CanBuyGas
    <3>4. balance[m.from] - PurchaseCost(m) \in Word
          /\ balance[m.from] - PurchaseCost(m) >= m.value
      BY <3>1, <3>2, <3>3, Constants DEF Word
    <3>5. balance'[m.from] = balance[m.from] - PurchaseCost(m)
      <4>1. Uint256(balance[m.from] - PurchaseCost(m)) = balance[m.from] - PurchaseCost(m)
        BY <3>4, Uint256Fits
      <4>2. balance \in [Addr -> Word]
        BY <1>0 DEF TypeOK
      <4> QED BY <2>2, <3>1, <4>1, <4>2
    <3>6. PurchaseCost(msg)' = PurchaseCost(m)
      BY <2>2 DEF PurchaseCost, BlobFee, BlobGasUsed, ContextBlobBaseFee
    <3> QED BY <2>2, <3>4, <3>5, <3>6 DEF FundsReserved
  <2>5. GasAccounted'
    <3>1. m.gas \in Nat
      BY <2>1, Constants DEF Messages
    <3> QED BY <2>2, <3>1 DEF GasAccounted
  <2> QED BY <2>3, <2>4, <2>5
<1>3. CASE ChargeIntrinsicGas
  <2>1. /\ pc = "bought" /\ pc' = "charged" /\ msg' = msg /\ balance' = balance
        /\ before' = before /\ initialGas' = initialGas
        /\ gasRemaining' = gasRemaining - MessageGas
        /\ CoversIntrinsicGas
    BY <1>3 DEF ChargeIntrinsicGas, world, history
  <2>2. FeesHeld' /\ FundsReserved'
    BY <1>a, <2>1 DEF FeesHeld, FundsReserved, PurchaseCost, BlobFee, BlobGasUsed,
         ContextBlobBaseFee, FeesAccepted, FreeMessage, ContextBaseFee,
         BlobFeeAccepted, MessagePrice
  <2>3. GasAccounted'
    <3>1. msg \in Messages
      BY <1>0, <2>1 DEF TypeOK
    <3>2. MessageGas \in 0..MaxU64 /\ gasRemaining >= MessageGas
      BY <2>1, <3>1, MessageGasTyped DEF CoversIntrinsicGas
    <3>3. initialGas = msg.gas /\ gasRemaining <= initialGas
      BY <1>a, <2>1 DEF GasAccounted
    <3>4. gasRemaining' \in Nat /\ gasRemaining' <= initialGas
      BY <1>t, <2>1, <3>2, <3>3
    <3>5. GasUsed' = initialGas - gasRemaining'
      <4>1. initialGas - gasRemaining' \in 0..MaxU64
        <5>1. \A l, g, r \in Nat : r <= g /\ g <= l => g - r \in 0..l
          OBVIOUS
        <5> QED BY <1>t, <3>4, <5>1
      <4> QED BY <2>1, <4>1, Uint64Fits DEF GasUsed
    <3>6. GasUsed' >= MessageGas
      BY <1>t, <2>1, <3>2, <3>3, <3>5
    <3>7. MessageGas' = MessageGas /\ MessageGas # GasUintOverflow
      BY <2>1, <3>2 DEF MessageGas, CoversIntrinsicGas
    <3> QED BY <2>1, <3>3, <3>4, <3>6, <3>7 DEF GasAccounted
  <2> QED BY <2>2, <2>3
<1>4. CASE RejectIntrinsicGas
  BY <1>4 DEF RejectIntrinsicGas, Reject, FeesHeld, FundsReserved, GasAccounted
<1>5. CASE RejectBeforeExecution
  BY <1>5 DEF RejectBeforeExecution, Reject, FeesHeld, FundsReserved, GasAccounted
(* The steps of the execution: the message and its limit stay, the gas     *)
(* does not grow.                                                          *)
<1>e. ASSUME pc \in {"charged", "deploying"}, pc' \in {"deploying", "executed"},
             msg' = msg, initialGas' = initialGas,
             gasRemaining' \in Nat, gasRemaining' <= gasRemaining
      PROVE  FeesHeld' /\ FundsReserved' /\ GasAccounted'
  <2>1. FeesHeld'
    BY <1>a, <1>e DEF FeesHeld, FeesAccepted, FreeMessage, ContextBaseFee,
         BlobFeeAccepted, ContextBlobBaseFee, BlobGasUsed, MessagePrice
  <2>2. FundsReserved'
    BY <1>e DEF FundsReserved
  <2>3. GasAccounted'
    <3>1. /\ initialGas = msg.gas /\ gasRemaining <= initialGas
          /\ MessageGas # GasUintOverflow /\ GasUsed >= MessageGas
      BY <1>a, <1>e DEF GasAccounted
    <3>2. MessageGas \in Nat
      <4>1. msg \in Messages
        BY <1>0, <1>e DEF TypeOK
      <4> QED BY <3>1, <4>1, MessageGasTyped, Constants
    <3>3. initialGas - gasRemaining' \in 0..MaxU64
      BY <1>t, <1>e, <3>1
    <3>4. GasUsed' = initialGas - gasRemaining'
      BY <1>e, <3>3, Uint64Fits DEF GasUsed
    <3>5. GasUsed' >= MessageGas
      BY <1>t, <1>u, <1>e, <3>1, <3>2, <3>4
    <3>6. MessageGas' = MessageGas
      BY <1>e DEF MessageGas
    <3> QED BY <1>t, <1>e, <3>1, <3>5, <3>6 DEF GasAccounted
  <2> QED BY <2>1, <2>2, <2>3
<1>6. CASE ExecuteCall
  BY <1>6, <1>e, <1>t DEF ExecuteCall
<1>7. CASE CreateRefused
  BY <1>7, <1>e, <1>t DEF CreateRefused, Creating
<1>8. CASE CreateCollision
  BY <1>8, <1>e, <1>t DEF CreateCollision, Creating
<1>9. CASE EnterCreate
  BY <1>9, <1>e, <1>t DEF EnterCreate, Creating
<1>10. ASSUME NEW run \in Runs, FinishCreate(run)
       PROVE  FeesHeld' /\ FundsReserved' /\ GasAccounted'
  <2>1. run \in [gas : 0..MaxU64, err : RunErrors, size : CodeSizes,
                 startsEF : BOOLEAN]
    BY <1>t DEF Runs, RunResults
  <2>2. run.gas \in 0..gasRemaining
    BY DEF Runs, RunResults
  <2>3. gasRemaining' \in 0..run.gas
    BY <1>10, <2>1, DeployTyped DEF FinishCreate
  <2>4. gasRemaining' \in Nat /\ gasRemaining' <= gasRemaining
    BY <1>t, <2>2, <2>3
  <2> QED BY <1>10, <1>e, <2>4 DEF FinishCreate
<1>11. ASSUME NEW counter \in RefundCounters, RefundGas(counter)
       PROVE  FeesHeld' /\ FundsReserved' /\ GasAccounted'
  <2>1. /\ pc = "executed" /\ pc' \in {"panicked", "refunded"}
        /\ msg' = msg /\ initialGas' = initialGas
        /\ gasRemaining' = Uint64(gasRemaining + Refund(counter))
    BY <1>11 DEF RefundGas
  <2>2. FeesHeld'
    BY <1>a, <2>1 DEF FeesHeld, FeesAccepted, FreeMessage, ContextBaseFee,
         BlobFeeAccepted, ContextBlobBaseFee, BlobGasUsed, MessagePrice
  <2>3. FundsReserved'
    BY <2>1 DEF FundsReserved
  <2>4. GasAccounted'
    <3>1. initialGas = msg.gas /\ gasRemaining <= initialGas
      BY <1>a, <2>1 DEF GasAccounted
    <3>2. Refund(counter) \in 0..GasUsed
      BY <1>0, GasUsedTyped DEF TypeOK
    <3>3. gasRemaining + Refund(counter) \in 0..MaxU64
          /\ gasRemaining + Refund(counter) <= initialGas
      BY <1>t, <1>u, <3>1, <3>2
    <3>4. gasRemaining' <= initialGas
      BY <2>1, <3>3, Uint64Fits
    <3> QED BY <2>1, <3>1, <3>4 DEF GasAccounted
  <2> QED BY <2>2, <2>3, <2>4
<1>12. CASE PayCoinbase
  BY <1>12 DEF PayCoinbase, FeesHeld, FundsReserved, GasAccounted
<1>13. CASE UNCHANGED vars
  BY <1>a, <1>13 DEF vars, world, locals, history, FeesHeld, FundsReserved,
       GasAccounted, PurchaseCost, BlobFee, BlobGasUsed, ContextBlobBaseFee,
       FeesAccepted, FreeMessage, ContextBaseFee, BlobFeeAccepted, MessagePrice,
       MessageGas, GasUsed
<1> QED BY <1>1, <1>2, <1>3, <1>4, <1>5, <1>6, <1>7, <1>8, <1>9, <1>10, <1>11,
           <1>12, <1>13 DEF Next, Submit, Step, Submitted

LEMMA PipelineInvariant == Spec => []PipelineInv
BY InitPipeline, StepPipeline, PTL DEF Spec

(* buyGas always leaves the endowment behind and never underflows.         *)
THEOREM FundsAlwaysReserved == Spec => []FundsReserved
<1>1. PipelineInv => FundsReserved
  BY DEF PipelineInv
<1> QED BY <1>1, PipelineInvariant, PTL

(* The gas counter stays within the limit paid for; intrinsic gas is       *)
(* always part of what was used.                                           *)
THEOREM GasAlwaysAccounted == Spec => []GasAccounted
<1>1. PipelineInv => GasAccounted
  BY DEF PipelineInv
<1> QED BY <1>1, PipelineInvariant, PTL

(* The tip paid to the coinbase is never negative.                         *)
THEOREM TipNeverNegative == Spec => []TipNotNegative
<1>1. PipelineInv => TipNotNegative
  <2> SUFFICES ASSUME PipelineInv, pc = "refunded", ~FreeMessage(msg)
               PROVE  EffectiveTip(msg) >= 0
    BY DEF TipNotNegative
  <2>1. msg \in Messages /\ FeesAccepted(msg)
    BY DEF PipelineInv, TypeOK, FeesHeld
  <2>2. /\ {msg.feeCap, msg.tipCap, msg.gasPrice} \subseteq Nat
        /\ ContextBaseFee(msg) \in Nat
    BY <2>1, FeesTyped DEF Messages
  <2> QED BY <2>1, <2>2 DEF FeesAccepted, EffectiveTip, BigMin
<1> QED BY <1>1, PipelineInvariant, PTL

-----------------------------------------------------------------------------
(* A refund of at most one part in q leaves q - 1 parts of what was due.   *)
LEMMA LeftAfterRefund ==
  ASSUME NEW used \in Nat, NEW due \in Nat, NEW q \in Nat \ {0}, NEW back \in Nat,
         due <= used, back <= used \div q
  PROVE  (used - back) * q >= due * (q - 1)
<1>1. used \div q \in Nat /\ (used \div q) * q <= used
  OBVIOUS
<1>2. back * q <= used
  <2>1. back * q <= (used \div q) * q
    BY <1>1
  <2> QED BY <1>1, <2>1
<1>3. (used - back) * q = used * q - back * q
  OBVIOUS
<1>4. used * (q - 1) = used * q - used
  OBVIOUS
<1>5. due * (q - 1) <= used * (q - 1)
  OBVIOUS
<1>6. {used * q, back * q, used * (q - 1), due * (q - 1)} \subseteq Int
  OBVIOUS
<1> QED BY <1>2, <1>3, <1>4, <1>5, <1>6

(* What refundGas works with and what it leaves: never more comes back     *)
(* than the quotient allows, and no counter wraps.                         *)
LEMMA RefundBounded ==
  ASSUME PipelineInv, NEW counter \in RefundCounters, RefundGas(counter)
  PROVE  /\ msg \in Messages /\ initialGas = msg.gas
         /\ MessageGas \in Nat /\ GasUsed \in Nat /\ Quotient \in Nat \ {0}
         /\ MessageGas <= GasUsed /\ GasUsed = initialGas - gasRemaining
         /\ Refund(counter) \in 0..GasUsed /\ Refund(counter) <= GasUsed \div Quotient
         /\ gasRemaining' = gasRemaining + Refund(counter)
         /\ GasUsed' = GasUsed - Refund(counter)
<1>1. /\ pc = "executed" /\ initialGas' = initialGas
      /\ gasRemaining' = Uint64(gasRemaining + Refund(counter))
  BY DEF RefundGas
<1>2. TypeOK /\ msg \in Messages
  BY <1>1 DEF PipelineInv, TypeOK
<1>3. /\ gasRemaining \in Nat /\ initialGas \in Nat /\ gasRemaining <= initialGas
      /\ initialGas <= MaxU64 /\ MaxU64 \in Nat /\ initialGas = msg.gas
      /\ MessageGas # GasUintOverflow /\ GasUsed >= MessageGas
  BY <1>1, <1>2, Constants DEF PipelineInv, TypeOK, GasAccounted
<1>4. GasUsed = initialGas - gasRemaining /\ GasUsed \in Nat
  <2>1. initialGas - gasRemaining \in 0..MaxU64
    BY <1>3
  <2> QED BY <2>1, Uint64Fits DEF GasUsed
<1>5. MessageGas \in Nat
  BY <1>2, <1>3, MessageGasTyped, Constants
<1>6. Quotient \in Nat \ {0}
  BY Constants DEF Quotient
<1>7. Refund(counter) \in 0..GasUsed
  BY <1>2, GasUsedTyped DEF TypeOK
<1>8. Refund(counter) <= GasUsed \div Quotient
  <2>1. counter \in Nat /\ GasUsed \div Quotient \in Nat
    BY <1>4, <1>6, Constants
  <2> QED BY <2>1 DEF Refund, BigMin
<1>9. gasRemaining' = gasRemaining + Refund(counter)
  <2>1. gasRemaining + Refund(counter) \in 0..MaxU64
    BY <1>3, <1>4, <1>7
  <2> QED BY <1>1, <2>1, Uint64Fits
<1>10. GasUsed' = GasUsed - Refund(counter)
  <2>1. initialGas - gasRemaining' \in 0..MaxU64
        /\ initialGas - gasRemaining' = GasUsed - Refund(counter)
    BY <1>3, <1>4, <1>7, <1>9
  <2> QED BY <1>1, <2>1, Uint64Fits DEF GasUsed
<1> QED BY <1>2, <1>3, <1>4, <1>5, <1>6, <1>7, <1>8, <1>9, <1>10

LEMMA StepIntrinsicGas ==
  PipelineInv /\ IntrinsicGasStaysPaid /\ [Next]_vars => IntrinsicGasStaysPaid'
<1> SUFFICES ASSUME PipelineInv, IntrinsicGasStaysPaid, [Next]_vars, pc' = "refunded"
             PROVE  (GasUsed * Quotient)' >= (MessageGas * (Quotient - 1))'
  BY DEF IntrinsicGasStaysPaid
<1>1. CASE UNCHANGED vars
  BY <1>1 DEF IntrinsicGasStaysPaid, vars, locals, GasUsed, MessageGas, Quotient
<1>2. ASSUME NEW counter \in RefundCounters, RefundGas(counter)
      PROVE  (GasUsed * Quotient)' >= (MessageGas * (Quotient - 1))'
  <2> DEFINE used == GasUsed
             back == Refund(counter)
             due == MessageGas
             q == Quotient
  <2>1. /\ used \in Nat /\ back \in Nat /\ due \in Nat /\ q \in Nat \ {0}
        /\ due <= used /\ back <= used \div q /\ GasUsed' = used - back
    BY <1>2, RefundBounded
  <2>2. MessageGas' = due /\ Quotient' = q
    BY <1>2 DEF RefundGas, MessageGas, Quotient
  <2> HIDE DEF used, back, due, q
  <2>3. (used - back) * q >= due * (q - 1)
    BY <2>1, LeftAfterRefund
  <2> QED BY <2>1, <2>2, <2>3
<1>3. CASE Submit
  BY <1>3 DEF Submit, RejectInPreCheck, Reject, BuyGas
<1>4. ~(\/ ChargeIntrinsicGas \/ RejectIntrinsicGas \/ RejectBeforeExecution
        \/ ExecuteCall \/ CreateRefused \/ CreateCollision \/ EnterCreate
        \/ (\E run \in Runs : FinishCreate(run)) \/ PayCoinbase)
  BY DEF ChargeIntrinsicGas, RejectIntrinsicGas, RejectBeforeExecution, Reject,
         ExecuteCall, CreateRefused, CreateCollision, EnterCreate, FinishCreate,
         PayCoinbase
<1> QED BY <1>1, <1>2, <1>3, <1>4 DEF Next, Step

(* However large the refund counter, a message stays charged for all but   *)
(* the refundable fraction of its intrinsic gas.                           *)
THEOREM IntrinsicGasAlwaysPaid == Spec => []IntrinsicGasStaysPaid
<1>1. Init => IntrinsicGasStaysPaid
  BY DEF Init, IntrinsicGasStaysPaid
<1> QED BY <1>1, StepIntrinsicGas, PipelineInvariant, PTL DEF Spec

-----------------------------------------------------------------------------
(* The nonce of a checked message was not the last one when it was         *)
(* accepted, and nothing moves it before TransitionDb adds one.            *)
NotLast ==
  pc \in {"bought", "charged"} => msg.skip \/ nonce[msg.from] # MaxU64

LEMMA StepNotLast == TypeOK /\ NotLast /\ [Next]_vars => NotLast'
<1> SUFFICES ASSUME TypeOK, NotLast, [Next]_vars PROVE NotLast'
  OBVIOUS
<1>1. ASSUME NEW m \in Submitted, BuyGas(m) PROVE NotLast'
  BY <1>1 DEF BuyGas, Accepts, AccountAccepted, NotLast
<1>2. ASSUME NEW m \in Submitted, RejectInPreCheck(m) PROVE NotLast'
  BY <1>2 DEF RejectInPreCheck, Reject, NotLast
<1>3. CASE ChargeIntrinsicGas
  BY <1>3 DEF ChargeIntrinsicGas, NotLast, world
<1>4. CASE UNCHANGED vars
  BY <1>4 DEF NotLast, vars, world, locals
<1>5. CASE RejectIntrinsicGas \/ RejectBeforeExecution
  BY <1>5 DEF RejectIntrinsicGas, RejectBeforeExecution, Reject, NotLast
<1>6. CASE ExecuteCall \/ CreateRefused \/ CreateCollision \/ EnterCreate
  BY <1>6 DEF ExecuteCall, CreateRefused, CreateCollision, EnterCreate, NotLast
<1>7. CASE PayCoinbase
  BY <1>7 DEF PayCoinbase, NotLast
<1>8. ASSUME NEW run \in Runs, FinishCreate(run) PROVE NotLast'
  BY <1>8 DEF FinishCreate, NotLast
<1>9. ASSUME NEW counter \in RefundCounters, RefundGas(counter) PROVE NotLast'
  BY <1>9 DEF RefundGas, NotLast
<1> QED BY <1>1, <1>2, <1>3, <1>4, <1>5, <1>6, <1>7, <1>8, <1>9 DEF Next, Submit, Step

LEMMA BumpRises ==
  ASSUME TypeOK, msg.from \in Addr, nonce[msg.from] # MaxU64
  PROVE  \A a \in Addr : BumpNonce(msg.from)[a] >= nonce[a]
<1>1. nonce \in [Addr -> 0..MaxU64] /\ MaxU64 \in Nat
  BY Constants DEF TypeOK
<1>2. nonce[msg.from] + 1 \in 0..MaxU64
  BY <1>1
<1>3. Uint64(nonce[msg.from] + 1) = nonce[msg.from] + 1
  BY <1>2, Uint64Fits
<1> QED BY <1>1, <1>3 DEF BumpNonce

LEMMA StepNonceFalls == TypeOK /\ NotLast /\ [Next]_vars => [NonceFalls]_vars
<1> SUFFICES ASSUME TypeOK, NotLast, Next,
                    NEW a \in Addr, nonce'[a] < nonce[a]
             PROVE  /\ msg.skip /\ msg.to # None
                    /\ a = msg.from /\ nonce[a] = MaxU64 /\ nonce'[a] = 0
  BY DEF NonceFalls
<1>0. nonce \in [Addr -> 0..MaxU64] /\ MaxU64 \in Nat
  BY Constants DEF TypeOK
<1>m. pc # "idle" => msg \in Messages /\ msg.from \in Addr
  BY DEF TypeOK, Messages
<1>1. CASE nonce' = nonce
  BY <1>0, <1>1
<1>2. CASE ExecuteCall
  <2>1. pc = "charged" /\ msg.to # None /\ nonce' = BumpNonce(msg.from)
    BY <1>2 DEF ExecuteCall
  <2>2. CASE nonce[msg.from] # MaxU64
    <3>1. nonce'[a] >= nonce[a]
      BY <1>m, <2>1, <2>2, BumpRises
    <3>2. nonce'[a] \in Nat /\ nonce[a] \in Nat
      BY <1>0, <1>m, <2>1, BumpNonceTyped DEF TypeOK
    <3> QED BY <3>1, <3>2
  <2>3. CASE nonce[msg.from] = MaxU64
    <3>1. msg.skip
      BY <2>1, <2>3 DEF NotLast
    <3>2. a = msg.from
      BY <1>0, <1>m, <2>1 DEF BumpNonce
    <3>3. Uint64(MaxU64 + 1) = 0
      BY RulesAssumption, <1>0 DEF Uint64
    <3> QED BY <1>0, <1>m, <2>1, <2>3, <3>1, <3>2, <3>3 DEF BumpNonce
  <2> QED BY <2>2, <2>3
<1>3. CASE CreateCollision
  <2>1. pc = "charged" /\ nonce[msg.from] # MaxU64 /\ nonce' = BumpNonce(msg.from)
    BY <1>3 DEF CreateCollision, Creating
  <2>2. nonce'[a] >= nonce[a] /\ nonce'[a] \in Nat /\ nonce[a] \in Nat
    BY <1>0, <1>m, <2>1, BumpRises, BumpNonceTyped DEF TypeOK
  <2> QED BY <2>2
<1>4. CASE EnterCreate
  <2>1. /\ pc = "charged" /\ nonce[msg.from] # MaxU64 /\ nonce[NewAddress] = 0
        /\ nonce' = [b \in Addr |-> IF IsEIP158 /\ b = NewAddress THEN 1
                                   ELSE BumpNonce(msg.from)[b]]
    BY <1>4 DEF EnterCreate, Creating, AddressTaken
  <2>2. BumpNonce(msg.from)[a] >= nonce[a] /\ BumpNonce(msg.from)[a] \in Nat
    BY <1>0, <1>m, <2>1, BumpRises, BumpNonceTyped DEF TypeOK
  <2>3. nonce'[a] >= nonce[a] /\ nonce'[a] \in Nat /\ nonce[a] \in Nat
    BY <1>0, <2>1, <2>2
  <2> QED BY <2>3
<1>5. nonce' = nonce \/ ExecuteCall \/ CreateCollision \/ EnterCreate
  BY DEF Next, Submit, Step, RejectInPreCheck, BuyGas, ChargeIntrinsicGas,
         RejectIntrinsicGas, RejectBeforeExecution, CreateRefused, FinishCreate,
         RefundGas, PayCoinbase, world
<1> QED BY <1>1, <1>2, <1>3, <1>4, <1>5

(* Only an unchecked call can take a nonce back, by wrapping the last one. *)
THEOREM NonceNeverFalls == Spec => NonceFallsUncheckedOnly
<1>1. Init => NotLast
  BY DEF Init, NotLast
<1>2. Spec => []NotLast
  BY <1>1, StepNotLast, TypeCorrect, PTL DEF Spec
<1> QED BY <1>2, StepNonceFalls, TypeCorrect, PTL DEF Spec, NonceFallsUncheckedOnly

-----------------------------------------------------------------------------
(* The account a creation is for has no code until create stores some.     *)
NoCodeYet ==
  /\ pc \in {"bought", "charged"} => created = None
  /\ pc = "deploying" => created \in Addr /\ ~hasCode[created]

LEMMA StepNoCodeYet == TypeOK /\ NoCodeYet /\ [Next]_vars => NoCodeYet'
<1> SUFFICES ASSUME TypeOK, NoCodeYet, [Next]_vars PROVE NoCodeYet'
  OBVIOUS
<1>1. ASSUME NEW m \in Submitted, BuyGas(m) PROVE NoCodeYet'
  BY <1>1 DEF BuyGas, NoCodeYet
<1>2. ASSUME NEW m \in Submitted, RejectInPreCheck(m) PROVE NoCodeYet'
  BY <1>2 DEF RejectInPreCheck, Reject, NoCodeYet
<1>3. CASE ChargeIntrinsicGas
  BY <1>3 DEF ChargeIntrinsicGas, NoCodeYet
<1>4. CASE UNCHANGED vars
  BY <1>4 DEF NoCodeYet, vars, world, locals
<1>5. CASE RejectIntrinsicGas \/ RejectBeforeExecution
  BY <1>5 DEF RejectIntrinsicGas, RejectBeforeExecution, Reject, NoCodeYet
<1>6. CASE ExecuteCall \/ CreateRefused \/ CreateCollision
  BY <1>6 DEF ExecuteCall, CreateRefused, CreateCollision, NoCodeYet
<1>7. CASE EnterCreate
  <2>1. NewAddress \in Addr
    <3>1. msg \in Messages /\ nonce \in [Addr -> 0..MaxU64]
      BY <1>7 DEF EnterCreate, Creating, TypeOK
    <3> QED BY <3>1, NewAddressTyped
  <2>2. pc' = "deploying" /\ created' = NewAddress /\ hasCode' = hasCode
    BY <1>7 DEF EnterCreate
  <2>3. ~hasCode[NewAddress]
    BY <1>7 DEF EnterCreate, AddressTaken
  <2> QED BY <2>1, <2>2, <2>3 DEF NoCodeYet
<1>8. CASE PayCoinbase
  BY <1>8 DEF PayCoinbase, NoCodeYet
<1>9. ASSUME NEW run \in Runs, FinishCreate(run) PROVE NoCodeYet'
  BY <1>9 DEF FinishCreate, NoCodeYet
<1>10. ASSUME NEW counter \in RefundCounters, RefundGas(counter) PROVE NoCodeYet'
  BY <1>10 DEF RefundGas, NoCodeYet
<1> QED BY <1>1, <1>2, <1>3, <1>4, <1>5, <1>6, <1>7, <1>8, <1>9, <1>10
        DEF Next, Submit, Step

Busy == Creating \/ pc = "deploying"
Stored == IF created = None THEN FALSE ELSE hasCode[created]

(* What is left when Interpreter.Run has returned is one of the outcomes.  *)
LEMMA FinishReturns ==
  ASSUME TypeOK, NoCodeYet, NEW run \in Runs, FinishCreate(run)
  PROVE  Deployed!Succeeded \/ Deployed!Kept \/ Deployed!Burnt
<1>1. /\ run.gas \in 0..gasRemaining /\ run.err \in RunErrors
      /\ run.size \in CodeSizes /\ run.startsEF \in BOOLEAN
  BY DEF Runs, RunResults
<1>2. /\ pc = "deploying" /\ pc' = "executed" /\ created' = created
      /\ vmerr' = DeployError(run) /\ gasRemaining' = GasAfterDeploy(run)
      /\ created \in Addr /\ created # None /\ ~hasCode[created]
  BY Constants DEF FinishCreate, NoCodeYet
<1>3. Busy /\ ~Busy'
  BY <1>2 DEF Busy, Creating
<1>4. /\ run.gas \in Nat /\ gasRemaining \in Nat /\ run.gas <= gasRemaining
      /\ run.size \in Nat /\ CreateDataGas \in Nat /\ CodeCost(run) \in Nat
      /\ CodeCost(run) = run.size * CreateDataGas
  BY <1>1, Constants DEF TypeOK, CodeCost
<1>5. CASE DeployError(run) = NoError
  <2>1. /\ IsEIP158 => run.size <= MaxCodeSize
        /\ run.gas >= CodeCost(run)
    BY <1>1, <1>4, <1>5, Constants DEF DeployError, NoError, RunErrors
  <2>2. gasRemaining' = run.gas - run.size * CreateDataGas
    BY <1>2, <1>4, <1>5 DEF GasAfterDeploy
  <2>3. gasRemaining' \in 0..(gasRemaining - run.size * CreateDataGas)
    <3> HIDE DEF CodeCost
    <3> QED BY <1>4, <2>1, <2>2
  <2>4. hasCode' = [hasCode EXCEPT ![created] = run.size > 0]
    BY <1>5 DEF FinishCreate
  <2>5. Stored' = (run.size > 0)
    BY <1>2, <2>4 DEF Stored, TypeOK
  <2>6. Deployed!Return
    BY <1>3 DEF Deployed!Return, Busy
  <2>7. vmerr' = Deployed!NoError
    BY <1>2, <1>5 DEF NoError, Deployed!NoError
  <2> QED BY <1>1, <2>1, <2>3, <2>5, <2>6, <2>7 DEF Deployed!Succeeded, Stored
<1>6. CASE DeployError(run) # NoError
  <2>1. hasCode' = hasCode /\ ~Stored'
    BY <1>2, <1>6 DEF FinishCreate, Stored
  <2>2. Deployed!Return
    BY <1>3 DEF Deployed!Return, Busy
  <2>3. CASE ~Undoes(DeployError(run)) \/ DeployError(run) = "ErrExecutionReverted"
    <3>1. gasRemaining' = run.gas
      BY <1>2, <1>6, <2>3 DEF GasAfterDeploy
    <3>2. \/ vmerr' = "ErrExecutionReverted"
          \/ ~IsHomestead /\ vmerr' = "ErrCodeStoreOutOfGas"
      BY <1>2, <1>6, <2>3 DEF Undoes
    <3> QED BY <1>1, <2>1, <2>2, <3>1, <3>2 DEF Deployed!Kept, Stored
  <2>4. CASE Undoes(DeployError(run)) /\ DeployError(run) # "ErrExecutionReverted"
    <3>1. gasRemaining' = 0
      BY <1>2, <1>6, <2>4 DEF GasAfterDeploy
    <3>2. \/ vmerr' \in {"ErrExecution", "ErrContractAddressCollision"}
          \/ IsHomestead /\ vmerr' = "ErrCodeStoreOutOfGas"
          \/ IsEIP158 /\ vmerr' = "ErrMaxCodeSizeExceeded"
          \/ IsLondon /\ vmerr' = "ErrInvalidCode"
      BY <1>1, <1>2, <1>6, <2>4 DEF Undoes, DeployError, RunErrors, NoError
    <3> QED BY <2>1, <2>2, <3>1, <3>2 DEF Deployed!Burnt, Stored
  <2> QED BY <2>3, <2>4
<1> QED BY <1>5, <1>6

LEMMA StepDeployment ==
  TypeOK /\ NoCodeYet /\ [Next]_vars
    => [Deployed!DeploymentNext]_(Deployed!deployment)
<1> SUFFICES ASSUME TypeOK, NoCodeYet, [Next]_vars
             PROVE  Deployed!DeploymentNext \/ UNCHANGED Deployed!deployment
  OBVIOUS
<1>1. CASE ~Busy /\ ~Busy'
  BY <1>1 DEF Busy, Deployed!DeploymentNext, Deployed!Outside
<1>2. CASE ChargeIntrinsicGas
  <2>1. gasRemaining' \in Nat /\ ~Busy
    <3>1. MessageGas \in 0..MaxU64 /\ gasRemaining >= MessageGas
      BY <1>2, MessageGasTyped DEF ChargeIntrinsicGas, CoversIntrinsicGas, TypeOK
    <3> QED BY <1>2, <3>1, Constants DEF ChargeIntrinsicGas, TypeOK, Busy, Creating
  <2>2. CASE ~Busy'
    BY <1>1, <2>1, <2>2
  <2>3. CASE Busy'
    BY <2>1, <2>3 DEF Busy, Deployed!DeploymentNext, Deployed!Enter
  <2> QED BY <2>2, <2>3
<1>3. CASE EnterCreate
  <2>1. /\ pc = "charged" /\ pc' = "deploying" /\ Busy /\ Busy'
        /\ gasRemaining' = gasRemaining /\ vmerr' = vmerr
    BY <1>3 DEF EnterCreate, Creating, Busy
  <2>2. Stored' = Stored
    <3>1. NoCodeYet' /\ hasCode' = hasCode
      BY <1>3, StepNoCodeYet DEF EnterCreate
    <3>2. created = None /\ created' \in Addr /\ ~hasCode[created']
      BY <2>1, <3>1 DEF NoCodeYet
    <3>3. created' # None /\ hasCode[created'] = FALSE
      BY <3>2, Constants DEF TypeOK
    <3> QED BY <3>1, <3>2, <3>3 DEF Stored
  <2>3. gasRemaining' \in 0..gasRemaining
    BY <2>1, Constants DEF TypeOK
  <2> QED BY <2>1, <2>2, <2>3
       DEF Busy, Stored, Deployed!DeploymentNext, Deployed!Spend
<1>4. CASE CreateRefused
  <2>1. /\ pc = "charged" /\ pc' = "executed" /\ Busy /\ ~Busy'
        /\ gasRemaining' = gasRemaining /\ created' = created
        /\ vmerr' \in {"ErrNonceUintOverflow", "ErrInsufficientBalance"}
    BY <1>4 DEF CreateRefused, Creating, Busy
  <2>2. ~Stored'
    BY <2>1 DEF NoCodeYet, Stored
  <2> QED BY <2>1, <2>2 DEF Busy, Stored, Deployed!DeploymentNext, Deployed!Refused,
                            Deployed!Return, Deployed!EarlyErrors
<1>5. CASE CreateCollision
  <2>1. /\ pc = "charged" /\ pc' = "executed" /\ Busy /\ ~Busy'
        /\ gasRemaining' = 0 /\ created' = created
        /\ vmerr' = "ErrContractAddressCollision"
    BY <1>5 DEF CreateCollision, Creating, Busy
  <2>2. ~Stored'
    BY <2>1 DEF NoCodeYet, Stored
  <2> QED BY <2>1, <2>2 DEF Busy, Stored, Deployed!DeploymentNext, Deployed!Burnt,
                            Deployed!Return
<1>6. ASSUME NEW run \in Runs, FinishCreate(run) PROVE Deployed!DeploymentNext
  BY <1>6, FinishReturns DEF Deployed!DeploymentNext
<1>7. CASE UNCHANGED vars
  BY <1>7 DEF vars, world, locals, Deployed!deployment, Creating, MayExecute, CanTransfer
<1>8. \/ ~Busy /\ ~Busy'
      \/ ChargeIntrinsicGas \/ EnterCreate \/ CreateRefused \/ CreateCollision
      \/ \E run \in Runs : FinishCreate(run)
      \/ UNCHANGED vars
  <2>1. ASSUME NEW m \in Submitted, RejectInPreCheck(m) \/ BuyGas(m)
        PROVE  ~Busy /\ ~Busy'
    BY <2>1 DEF RejectInPreCheck, Reject, BuyGas, Busy, Creating
  <2>2. CASE RejectIntrinsicGas \/ RejectBeforeExecution \/ ExecuteCall
    BY <2>2 DEF RejectIntrinsicGas, RejectBeforeExecution, ExecuteCall, Reject,
                Busy, Creating
  <2>3. ASSUME NEW counter \in RefundCounters, RefundGas(counter)
        PROVE  ~Busy /\ ~Busy'
    BY <2>3 DEF RefundGas, Busy, Creating
  <2>4. CASE PayCoinbase
    BY <2>4 DEF PayCoinbase, Busy, Creating
  <2> QED BY <2>1, <2>2, <2>3, <2>4 DEF Next, Submit, Step
<1> QED BY <1>1, <1>2, <1>3, <1>4, <1>5, <1>6, <1>7, <1>8

(* Every creation of the pipeline ends in one of the outcomes Deployment   *)
(* states: code that stays is within the limit and paid for, the early     *)
(* returns charge nothing, and every later error but the two that keep the *)
(* rest takes it all.                                                      *)
THEOREM PipelineUsesDeployment == Spec => UsesDeployment
<1>1. Init => Deployed!DeploymentInit /\ NoCodeYet
  BY DEF Init, Deployed!DeploymentInit, NoCodeYet, Creating
<1>2. Spec => []NoCodeYet
  BY <1>1, StepNoCodeYet, TypeCorrect, PTL DEF Spec
<1> QED BY <1>1, <1>2, StepDeployment, TypeCorrect, PTL
        DEF Spec, UsesDeployment, Deployed!DeploymentSpec
=============================================================================
