-------------------------- MODULE SettlementProofs --------------------------
(***************************************************************************)
(* Proofs about the pipeline as a host sees it, from message to message:   *)
(* that it carries no checked message out twice, and that it settles each  *)
(* message as the atomic ledger of Settlement does.                        *)
(***************************************************************************)
EXTENDS PipelineProofs

-----------------------------------------------------------------------------
(* A host that checks every message (TRUE is not a choice of               *)
(* SkipAccountChecks) carries none out twice.  The restriction is needed:  *)
(* an unchecked call at the last nonce wraps the nonce to 0, and every     *)
(* message of that sender could follow a second time.                      *)
LEMMA InitSequence == Init => SequenceInv
<1> SUFFICES ASSUME Init PROVE SequenceInv
  OBVIOUS
<1>1. TypeOK
  BY InitTyped
<1>2. pc = "idle" /\ outcome = "none" /\ carriedOut = {}
  BY DEF Init
<1> QED BY <1>1, <1>2 DEF SequenceInv, NonceCoversMessages, NonceAdvancesOnce

(* A step that leaves nonces, message and history alone and stays on one   *)
(* side of execution.                                                      *)
LEMMA SequenceKept ==
  ASSUME SequenceInv, TypeOK',
         nonce' = nonce, msg' = msg, created' = created, before' = before,
         carriedOut' = carriedOut,
         \/ pc = "bought" /\ pc' = "charged"
         \/ pc \in {"deploying", "executed"} /\ pc' \in {"executed", "refunded", "panicked"}
         \/ pc' = pc /\ outcome' = outcome
  PROVE  SequenceInv'
BY DEF SequenceInv, NonceCoversMessages, NonceAdvanced, NonceAdvancesOnce

(* A step that drops the message.                                          *)
LEMMA SequenceRejected ==
  ASSUME SequenceInv, TypeOK', nonce' = nonce, carriedOut' = carriedOut, Reject
  PROVE  SequenceInv'
BY DEF SequenceInv, Reject, NonceCoversMessages, NonceAdvancesOnce

(* A step that executes the message: the sender's nonce goes up by one and *)
(* at most a new account's nonce goes from 0 to 1.                         *)
LEMMA SequenceExecuted ==
  ASSUME SequenceInv, TypeOK',
         pc = "charged", pc' \in {"deploying", "executed"},
         msg' = msg, before' = before, carriedOut' = carriedOut,
         nonce'[msg.from] = nonce[msg.from] + 1,
         \A a \in Addr \ {msg.from} :
           \/ nonce'[a] = nonce[a]
           \/ nonce[a] = 0 /\ nonce'[a] = 1 /\ a = created'
  PROVE  SequenceInv'
<1>1. /\ msg \in Messages /\ msg.from \in Addr
      /\ nonce \in [Addr -> 0..MaxU64] /\ MaxU64 \in Nat
      /\ carriedOut \subseteq Addr \X (0..MaxU64)
  BY Constants DEF SequenceInv, TypeOK, Messages
<1>2. nonce[msg.from] = msg.nonce /\ nonce = before.nonce
      /\ ~msg.skip /\ <<msg.from, msg.nonce>> \notin carriedOut
  BY DEF SequenceInv
<1>3. NonceCoversMessages'
  <2> SUFFICES ASSUME NEW sent \in carriedOut PROVE sent[2] < nonce'[sent[1]]
    BY DEF NonceCoversMessages
  <2>1. sent[1] \in Addr /\ sent[2] \in Nat /\ sent[2] < nonce[sent[1]]
    BY <1>1 DEF SequenceInv, NonceCoversMessages
  <2>2. nonce[sent[1]] \in Nat
    BY <1>1, <2>1
  <2>3. nonce'[sent[1]] >= nonce[sent[1]]
    BY <2>1, <2>2
  <2>4. nonce'[sent[1]] \in Nat
    BY <1>1, <2>1 DEF TypeOK
  <2> QED BY <2>1, <2>2, <2>3, <2>4
<1>4. NonceAdvanced'
  <2> SUFFICES ASSUME NEW a \in Addr
               PROVE  IF a = msg.from THEN nonce'[a] = before.nonce[a] + 1
                      ELSE nonce'[a] # before.nonce[a]
                             => a = created' /\ nonce'[a] = 1
    BY DEF NonceAdvanced
  <2> QED BY <1>2
<1>5. nonce'[msg.from] > msg.nonce
  BY <1>1, <1>2
<1> QED BY <1>2, <1>3, <1>4, <1>5 DEF SequenceInv, NonceAdvancesOnce

LEMMA StepSequence ==
  ASSUME TRUE \notin SkipChoices
  PROVE  SequenceInv /\ [Next]_vars => SequenceInv'
<1> SUFFICES ASSUME SequenceInv, [Next]_vars PROVE SequenceInv'
  OBVIOUS
<1>0. TypeOK /\ TypeOK'
  BY StepTyped DEF SequenceInv
<1>m. pc # "idle" => /\ msg \in Messages /\ msg.from \in Addr
                     /\ msg.nonce \in 0..MaxU64 /\ msg.value \in Nat
  BY <1>0 DEF TypeOK, Messages
<1>c. pc = "charged" => /\ nonce[msg.from] # MaxU64
                        /\ BumpNonce(msg.from)[msg.from] = nonce[msg.from] + 1
                        /\ \A a \in Addr \ {msg.from} :
                             BumpNonce(msg.from)[a] = nonce[a]
  <2> SUFFICES ASSUME pc = "charged"
               PROVE  /\ nonce[msg.from] # MaxU64
                      /\ BumpNonce(msg.from)[msg.from] = nonce[msg.from] + 1
                      /\ \A a \in Addr \ {msg.from} :
                           BumpNonce(msg.from)[a] = nonce[a]
    OBVIOUS
  <2>1. nonce[msg.from] # MaxU64
    BY DEF SequenceInv
  <2>2. nonce \in [Addr -> 0..MaxU64] /\ msg.from \in Addr
    BY <1>0, <1>m DEF TypeOK
  <2>3. nonce[msg.from] + 1 \in 0..MaxU64
    BY <2>1, <2>2, Constants
  <2>4. Uint64(nonce[msg.from] + 1) = nonce[msg.from] + 1
    BY <2>3, Uint64Fits
  <2> QED BY <2>1, <2>2, <2>4 DEF BumpNonce
<1>1. ASSUME NEW tx \in Txs, NEW skip \in SkipChoices,
             RejectInPreCheck(ToMessage(tx, skip))
      PROVE  SequenceInv'
  BY <1>0, <1>1, SequenceRejected DEF RejectInPreCheck, world
<1>2. ASSUME NEW tx \in Txs, NEW skip \in SkipChoices, BuyGas(ToMessage(tx, skip))
      PROVE  SequenceInv'
  <2> DEFINE m == ToMessage(tx, skip)
  <2>1. m \in Messages /\ ~m.skip
    <3>1. skip = FALSE
      BY TransitionAssumption
    <3> QED BY <3>1, MessageTyped, MessagePriced
  <2>2. /\ Accepts(m) /\ msg' = m /\ pc' = "bought"
        /\ before'.nonce = nonce /\ nonce' = nonce /\ carriedOut' = carriedOut
    BY <1>2 DEF BuyGas, Remember
  <2> HIDE DEF m
  <2>3. m.nonce = nonce[m.from] /\ nonce[m.from] # MaxU64
    BY <2>1, <2>2 DEF Accepts, AccountAccepted
  <2>4. <<m.from, m.nonce>> \notin carriedOut
    <3>1. \A sent \in carriedOut : sent[2] < nonce[sent[1]]
      BY DEF SequenceInv, NonceCoversMessages
    <3>2. m.nonce \in Nat
      BY <2>1, Constants DEF Messages
    <3> QED BY <2>3, <3>1, <3>2
  <2> QED BY <1>0, <2>1, <2>2, <2>3, <2>4
       DEF SequenceInv, NonceCoversMessages, NonceAdvancesOnce
<1>3. CASE ChargeIntrinsicGas
  BY <1>0, <1>3, SequenceKept DEF ChargeIntrinsicGas, world, history
<1>4. CASE RejectIntrinsicGas
  BY <1>0, <1>4, SequenceRejected DEF RejectIntrinsicGas, world, history
<1>5. CASE RejectBeforeExecution
  BY <1>0, <1>5, SequenceRejected DEF RejectBeforeExecution, world, history
<1>6. CASE ExecuteCall
  BY <1>0, <1>6, <1>c, SequenceExecuted DEF ExecuteCall, history
(* Neither reason for create to refuse is left: the nonce is checked by    *)
(* preCheck, the balance by clause 6.                                      *)
<1>7. CASE CreateRefused
  <2>1. pc = "charged" /\ MayExecute
    BY <1>7 DEF CreateRefused, Creating
  <2>2. CanTransfer(msg.from, msg.value)
    <3>1. balance[msg.from] \in Nat
      BY <1>0, <1>m, <2>1, Constants DEF TypeOK, Word
    <3> QED BY <1>m, <2>1, <3>1 DEF MayExecute, CanTransfer
  <2> QED BY <1>7, <1>c, <2>1, <2>2 DEF CreateRefused
<1>8. CASE CreateCollision
  BY <1>0, <1>8, <1>c, SequenceExecuted DEF CreateCollision, Creating, history
<1>9. CASE EnterCreate
  <2>1. /\ pc = "charged" /\ pc' = "deploying" /\ created' = NewAddress
        /\ nonce[NewAddress] = 0
        /\ nonce' = [a \in Addr |-> IF IsEIP158 /\ a = NewAddress THEN 1
                                    ELSE BumpNonce(msg.from)[a]]
        /\ msg' = msg /\ before' = before /\ carriedOut' = carriedOut
    BY <1>9 DEF EnterCreate, Creating, AddressTaken, history
  <2>2. NewAddress \in Addr /\ NewAddress # msg.from
    BY <1>0, <1>m, <2>1, NewAddressTyped DEF TypeOK
  <2>3. nonce'[msg.from] = nonce[msg.from] + 1
    BY <1>c, <1>m, <2>1, <2>2
  <2>4. \A a \in Addr \ {msg.from} :
          \/ nonce'[a] = nonce[a]
          \/ nonce[a] = 0 /\ nonce'[a] = 1 /\ a = created'
    BY <1>c, <2>1
  <2> QED BY <1>0, <2>1, <2>3, <2>4, SequenceExecuted
<1>10. ASSUME NEW run \in Runs, FinishCreate(run) PROVE SequenceInv'
  BY <1>0, <1>10, SequenceKept DEF FinishCreate, history
<1>11. ASSUME NEW counter \in RefundCounters, RefundGas(counter) PROVE SequenceInv'
  BY <1>0, <1>11, SequenceKept DEF RefundGas, history
<1>12. CASE PayCoinbase
  <2>1. /\ pc = "refunded" /\ pc' = "idle" /\ msg' = msg /\ nonce' = nonce
        /\ created' = created /\ before' = before
        /\ carriedOut' = carriedOut \cup {<<msg.from, msg.nonce>>}
    BY <1>12 DEF PayCoinbase, SequenceInv
  <2>2. NonceCoversMessages /\ NonceAdvanced /\ nonce[msg.from] > msg.nonce
    BY <2>1 DEF SequenceInv
  <2>3. NonceCoversMessages'
    <3>1. msg.nonce < nonce[msg.from]
      BY <1>0, <1>m, <2>1, <2>2, Constants DEF TypeOK
    <3> QED BY <2>1, <2>2, <3>1 DEF NonceCoversMessages
  <2>4. NonceAdvanced'
    BY <2>1, <2>2 DEF NonceAdvanced
  <2> QED BY <1>0, <2>1, <2>3, <2>4 DEF SequenceInv, NonceAdvancesOnce
<1>13. CASE UNCHANGED vars
  BY <1>0, <1>13, SequenceKept DEF vars, world, locals, history
<1> QED BY <1>1, <1>2, <1>3, <1>4, <1>5, <1>6, <1>7, <1>8, <1>9, <1>10, <1>11,
           <1>12, <1>13 DEF Next, Submit, Step, Submitted

LEMMA SequenceInvariant ==
  ASSUME TRUE \notin SkipChoices PROVE Spec => []SequenceInv
BY InitSequence, StepSequence, PTL DEF Spec

-----------------------------------------------------------------------------
(* An account's nonce stays above every message it has had carried out.    *)
THEOREM NonceAlwaysCovers ==
  ASSUME TRUE \notin SkipChoices PROVE Spec => []NonceCoversMessages
<1>1. SequenceInv => NonceCoversMessages
  BY DEF SequenceInv
<1> QED BY <1>1, SequenceInvariant, PTL

(* Carrying a message out advances the sender's nonce by exactly one.      *)
THEOREM NonceAlwaysAdvances ==
  ASSUME TRUE \notin SkipChoices PROVE Spec => []NonceAdvancesOnce
<1>1. SequenceInv => NonceAdvancesOnce
  BY DEF SequenceInv
<1> QED BY <1>1, SequenceInvariant, PTL

(* No message is carried out twice.                                        *)
THEOREM NeverReplayed ==
  ASSUME TRUE \notin SkipChoices PROVE Spec => NoReplay
<1> DEFINE Fresh == pc = "refunded" /\ pc' = "idle" /\ ~msg.skip
                      => <<msg.from, msg.nonce>> \notin carriedOut
<1>1. SequenceInv /\ [Next]_vars => [Fresh]_vars
  BY DEF SequenceInv
<1>2. Spec => [][Fresh]_vars
  BY <1>1, SequenceInvariant, PTL DEF Spec
<1> QED BY <1>2 DEF NoReplay

-----------------------------------------------------------------------------
(* Words: what was cut off before does not matter to the result.           *)
LEMMA WordForm ==
  ASSUME NEW x \in Int
  PROVE  \E k \in Int : Uint256(x) = x - k * U256
<1>1. U256 \in Nat /\ U256 > 0
  BY RulesAssumption
<1>2. x \div U256 \in Int /\ x = (x \div U256) * U256 + (x % U256)
  BY <1>1
<1>3. Uint256(x) = x - (x \div U256) * U256
  <2> DEFINE q == x \div U256
             r == x % U256
  <2>1. q \in Int /\ r \in Int /\ x = q * U256 + r
    BY <1>1, <1>2
  <2> HIDE DEF q, r
  <2>2. r = x - q * U256
    BY <1>1, <2>1
  <2> QED BY <2>2 DEF q, r, Uint256
<1> QED BY <1>2, <1>3

LEMMA NoMultipleBetween ==
  ASSUME NEW m \in Nat, NEW d \in Int, NEW k \in Int,
         d = k * m, d < m, -m < d
  PROVE  d = 0
<1>1. CASE k >= 1
  <2>1. k * m >= m
    BY <1>1
  <2> QED BY <2>1
<1>2. CASE k <= -1
  <2>1. (-k) * m >= m
    BY <1>2
  <2>2. (-k) * m = -(k * m)
    OBVIOUS
  <2>3. k * m \in Int
    OBVIOUS
  <2> QED BY <2>1, <2>2, <2>3
<1> QED BY <1>1, <1>2

LEMMA SameWord ==
  ASSUME NEW x \in Int, NEW y \in Int, NEW k \in Int, x - y = k * U256
  PROVE  Uint256(x) = Uint256(y)
<1>1. U256 \in Nat /\ U256 > 0
  BY RulesAssumption
<1>2. PICK i \in Int : Uint256(x) = x - i * U256
  BY WordForm
<1>3. PICK j \in Int : Uint256(y) = y - j * U256
  BY WordForm
<1>4. /\ Uint256(x) \in Nat /\ Uint256(x) < U256
      /\ Uint256(y) \in Nat /\ Uint256(y) < U256
  BY <1>1, Uint256Typed DEF Word
<1> DEFINE a == Uint256(x)
           b == Uint256(y)
<1>5. a - b = (k - i + j) * U256
  <2>1. i * U256 \in Int /\ j * U256 \in Int /\ k * U256 \in Int
    BY <1>1
  <2>2. (k - i + j) * U256 = k * U256 - i * U256 + j * U256
    BY <1>1
  <2> QED BY <1>2, <1>3, <2>1, <2>2
<1> HIDE DEF a, b
<1>6. a \in Nat /\ a < U256 /\ b \in Nat /\ b < U256
  BY <1>4 DEF a, b
<1>7. a - b \in Int /\ k - i + j \in Int /\ a - b < U256 /\ -U256 < a - b
  BY <1>1, <1>6
<1>8. a - b = 0
  BY <1>1, <1>5, <1>7, NoMultipleBetween
<1> QED BY <1>6, <1>8 DEF a, b

(* Adding to a word is adding to what was cut to it.                       *)
LEMMA WordSum ==
  ASSUME NEW x \in Int, NEW y \in Int
  PROVE  Uint256(Uint256(x) + y) = Uint256(x + y)
<1>1. PICK k \in Int : Uint256(x) = x - k * U256
  BY WordForm
<1>2. U256 \in Int /\ Uint256(x) \in Int
  BY RulesAssumption, Uint256Typed DEF Word
<1>3. (Uint256(x) + y) - (x + y) = (-k) * U256
  <2> DEFINE a == Uint256(x)
  <2>1. a \in Int /\ a = x - k * U256
    BY <1>1, <1>2
  <2> HIDE DEF a
  <2>2. k * U256 \in Int /\ (-k) * U256 = -(k * U256)
    BY <1>2
  <2>3. (a + y) - (x + y) = (-k) * U256
    BY <2>1, <2>2
  <2> QED BY <2>3 DEF a
<1>4. Uint256(x) + y \in Int /\ x + y \in Int /\ -k \in Int
  BY <1>2
<1> QED BY <1>3, <1>4, SameWord

LEMMA WordProduct ==
  ASSUME NEW n \in Int, NEW x \in Int
  PROVE  Uint256(n * Uint256(x)) = Uint256(n * x)
<1>1. PICK k \in Int : Uint256(x) = x - k * U256
  BY WordForm
<1>2. U256 \in Int /\ Uint256(x) \in Int
  BY RulesAssumption, Uint256Typed DEF Word
<1>3. n * Uint256(x) - n * x = (-(n * k)) * U256
  <2> DEFINE a == Uint256(x)
  <2>1. a \in Int /\ a = x - k * U256
    BY <1>1, <1>2
  <2> HIDE DEF a
  <2>2. n * a = n * x - n * (k * U256)
    BY <1>2, <2>1
  <2>3. n * (k * U256) = (n * k) * U256 /\ (-(n * k)) * U256 = -((n * k) * U256)
    BY <1>2
  <2>4. n * x \in Int /\ n * a \in Int /\ (n * k) * U256 \in Int
    BY <1>2, <2>1
  <2>5. n * a - n * x = (-(n * k)) * U256
    BY <2>2, <2>3, <2>4
  <2> QED BY <2>5 DEF a
<1>4. n * Uint256(x) \in Int /\ n * x \in Int /\ -(n * k) \in Int
  BY <1>2
<1> QED BY <1>3, <1>4, SameWord

LEMMA LeastLeft ==
  ASSUME NEW used \in Nat, NEW due \in Nat, NEW q \in Nat \ {0}, NEW back \in Nat,
         due <= used, back <= used \div q
  PROVE  used - back >= due - due \div q
<1> DEFINE a == due \div q
           b == used \div q
<1>1. a \in Nat /\ a * q <= due /\ due < a * q + q
  OBVIOUS
<1>2. b \in Nat /\ b * q <= used
  OBVIOUS
<1> HIDE DEF a, b
<1>3. b - a <= used - due
  <2> SUFFICES ASSUME b - a > used - due PROVE FALSE
    BY <1>1, <1>2
  <2> DEFINE d == used - due
  <2>1. d \in Nat /\ b >= a + d + 1 /\ q >= 1
    BY <1>1, <1>2
  <2> HIDE DEF d
  <2>2. b * q >= (a + d + 1) * q
    BY <1>1, <1>2, <2>1
  <2>3. (a + d + 1) * q = a * q + d * q + q
    BY <1>1, <2>1
  <2>4. d * q >= d
    BY <2>1
  <2>5. {a * q, d * q, b * q} \subseteq Int
    BY <1>1, <1>2, <2>1
  <2>6. b * q > due + d
    BY <1>1, <2>1, <2>2, <2>3, <2>4, <2>5
  <2> QED BY <1>2, <2>5, <2>6 DEF d
<1>4. back <= b
  BY DEF b
<1> QED BY <1>1, <1>2, <1>3, <1>4 DEF a

-----------------------------------------------------------------------------
(* The settlement computes with the rules of the pipeline.                 *)
LEMMA SamePrices ==
  ASSUME NEW m
  PROVE  /\ Settled!BalanceCheck(m) = BalanceCheck(m)
         /\ Settled!PurchaseCost(m) = PurchaseCost(m)
         /\ Settled!BlobFee(m) = BlobFee(m)
         /\ Settled!FreeMessage(m) = FreeMessage(m)
         /\ Settled!EffectiveTip(m) = EffectiveTip(m)
BY DEF Settled!BalanceCheck, BalanceCheck, Settled!PurchaseCost, PurchaseCost,
       Settled!BlobFee, BlobFee, Settled!BlobGasUsed, BlobGasUsed,
       Settled!ContextBlobBaseFee, ContextBlobBaseFee, Settled!FreeMessage,
       FreeMessage, Settled!EffectiveTip, EffectiveTip, Settled!ContextBaseFee,
       ContextBaseFee, Settled!BigMin, BigMin

LEMMA SameWords ==
  ASSUME NEW n
  PROVE  Settled!Uint64(n) = Uint64(n) /\ Settled!Uint256(n) = Uint256(n)
BY DEF Settled!Uint64, Uint64, Settled!Uint256, Uint256

LEMMA SameIntrinsicGas ==
  Settled!Intrinsic(msg) = MessageGas /\ Settled!GasUintOverflow = GasUintOverflow
BY DEF Settled!Intrinsic, MessageGas, Settled!IntrinsicGas, IntrinsicGas,
       Settled!DataGas, DataGas, Settled!Priced, Priced, Settled!ToWordSize,
       ToWordSize, Settled!Uint64, Uint64, Settled!GasUintOverflow, GasUintOverflow

LEMMA OwingForm ==
  ASSUME TypeOK, msg \in Messages, NEW a \in Addr, NEW used \in Nat
  PROVE  /\ before.balance[a] \in Word
         /\ used * msg.gasPrice \in Nat /\ BlobFee(msg) \in Nat /\ msg.value \in Nat
         /\ Owing(a, used) =
              before.balance[a]
                - (IF a = msg.from
                   THEN used * msg.gasPrice + BlobFee(msg)
                          + (IF created = None THEN 0 ELSE msg.value)
                   ELSE 0)
                + (IF a = created THEN msg.value ELSE 0)
         /\ Owing(a, used) \in Int
<1>1. before.balance[a] \in Word
  BY DEF TypeOK, World
<1>2. BlobFee(msg) \in Nat
  BY FeesTyped
<1>3. msg.gasPrice \in Nat /\ msg.value \in Nat
  BY DEF Messages
<1>4. used * msg.gasPrice \in Nat
  BY <1>3
<1>5. Settled!BlobFee(msg) = BlobFee(msg)
  BY SamePrices
<1>6. Owing(a, used) =
        before.balance[a]
          - (IF a = msg.from
             THEN used * msg.gasPrice + BlobFee(msg)
                    + (IF created = None THEN 0 ELSE msg.value)
             ELSE 0)
          + (IF a = created THEN msg.value ELSE 0)
  BY <1>5 DEF Owing, Settled!Credit, Settled!Payment
<1>7. before.balance[a] \in Int
  BY <1>1, Constants DEF Word
<1> QED BY <1>1, <1>2, <1>3, <1>4, <1>6, <1>7

-----------------------------------------------------------------------------
(* A message that may execute is one the settlement executes.              *)
LEMMA ChargedExecutable ==
  ASSUME PipelineInv, pc = "charged", MayExecute
  PROVE  Settled!Executable(msg)
<1>1. /\ msg \in Messages /\ initialGas \in Nat /\ gasRemaining \in Nat
      /\ MaxU64 \in Nat /\ initialGas <= MaxU64
      /\ initialGas = msg.gas /\ gasRemaining <= initialGas
      /\ MessageGas # GasUintOverflow /\ GasUsed >= MessageGas
  BY Constants DEF PipelineInv, TypeOK, GasAccounted
<1>2. GasUsed = initialGas - gasRemaining
  <2>1. initialGas - gasRemaining \in 0..MaxU64
    BY <1>1
  <2> QED BY <2>1, Uint64Fits DEF GasUsed
<1>3. MessageGas \in Nat
  BY <1>1, MessageGasTyped, Constants
<1>4. MessageGas <= msg.gas
  BY <1>1, <1>2, <1>3
<1> QED BY <1>1, <1>4, SameIntrinsicGas DEF Settled!Executable, MayExecute

(* What buyGas took is all the sender owes until something is deployed.    *)
LEMMA BoughtOwes ==
  ASSUME PipelineInv, Bought, pc = "charged"
  PROVE  balance = [a \in Addr |-> Uint256(Owing(a, msg.gas))]
<1>1. /\ TypeOK /\ msg \in Messages /\ msg.from \in Addr /\ msg.gas \in Nat
      /\ balance \in [Addr -> Word] /\ created = None /\ None \notin Addr
  BY Constants DEF PipelineInv, TypeOK, Messages, Bought
<1>2. before.balance \in [Addr -> Word]
  BY <1>1 DEF TypeOK, World
<1>3. ASSUME NEW a \in Addr PROVE balance[a] = Uint256(Owing(a, msg.gas))
  <2>1. balance[a] = IF a = msg.from THEN before.balance[a] - PurchaseCost(msg)
                     ELSE before.balance[a]
    BY <1>2 DEF Bought
  <2>2. before.balance[a] \in Int
    BY <1>2, Constants DEF Word
  <2>3. Owing(a, msg.gas) = balance[a]
    BY <1>1, <2>1, <2>2, OwingForm DEF PurchaseCost
  <2> QED BY <1>1, <2>3, Uint256Fits
<1> QED BY <1>1, <1>3

(* The step that executes the message settles the nonces.                  *)
LEMMA NoncesSettled ==
  ASSUME TypeOK, msg \in Messages, pc = "charged", nonce = before.nonce,
         msg' = msg, before' = before, pc' # "idle", NEW dest \in Addr \cup {None},
         created' = dest, dest # None => msg.to = None /\ dest # msg.from,
         nonce' = [a \in Addr |->
                     IF IsEIP158 /\ a = dest THEN 1
                     ELSE IF a = msg.from
                     THEN IF msg.to = None /\ nonce[a] = MaxU64 THEN nonce[a]
                          ELSE Uint64(nonce[a] + 1)
                     ELSE nonce[a]]
  PROVE  nonce' = (Settled!NextNonces(msg, created))'
<1>1. \A n : Settled!Uint64(n) = Uint64(n)
  BY SameWords
<1>2. Nonces(nonce)' = before.nonce
  BY DEF Nonces
<1>3. msg.from # dest
  BY Constants DEF Messages
<1>4. (Settled!NextNonces(msg, created))' =
        [a \in Addr |->
           IF a = msg.from
           THEN IF msg.to = None /\ nonce[a] = MaxU64 THEN nonce[a]
                ELSE Uint64(nonce[a] + 1)
           ELSE IF a = dest /\ IsEIP158 THEN 1 ELSE nonce[a]]
  BY <1>1, <1>2 DEF Settled!NextNonces
<1> QED BY <1>3, <1>4

LEMMA SettledLater ==
  ASSUME PipelineInv, Bought, pc = "charged", MayExecute,
         msg' = msg, before' = before, pc' \in {"deploying", "executed"}
  PROVE  (Settled!Executable(msg))'
<1>1. Settled!Executable(msg)
  BY ChargedExecutable
<1> QED BY <1>1 DEF Settled!Executable, Settled!Intrinsic

(* Executed with nothing deployed.                                         *)
LEMMA ExecutedSettles ==
  ASSUME PipelineInv, Bought, pc = "charged", MayExecute, pc' = "executed",
         UNCHANGED <<msg, before, created, balance>>,
         nonce' = IF msg.to = None /\ nonce[msg.from] = MaxU64 THEN nonce
                  ELSE BumpNonce(msg.from)
  PROVE  SettledAt(msg.gas)'
<1>1. /\ TypeOK /\ msg \in Messages /\ msg.from \in Addr /\ created = None
      /\ nonce = before.nonce /\ nonce \in [Addr -> 0..MaxU64] /\ None \notin Addr
  BY Constants DEF PipelineInv, TypeOK, Bought, Messages
<1>2. nonce' = (Settled!NextNonces(msg, created))'
  <2>1. nonce' = [a \in Addr |->
                    IF IsEIP158 /\ a = None THEN 1
                    ELSE IF a = msg.from
                    THEN IF msg.to = None /\ nonce[a] = MaxU64 THEN nonce[a]
                         ELSE Uint64(nonce[a] + 1)
                    ELSE nonce[a]]
    BY <1>1 DEF BumpNonce
  <2> QED BY <1>1, <2>1, NoncesSettled
<1>3. (Settled!Executable(msg))'
  BY SettledLater
<1>4. balance' = [a \in Addr |-> Uint256(Owing(a, msg.gas))']
  <2>1. balance = [a \in Addr |-> Uint256(Owing(a, msg.gas))]
    BY BoughtOwes
  <2>2. \A a \in Addr : Owing(a, msg.gas)' = Owing(a, msg.gas)
    BY DEF Owing, Settled!Credit, Settled!Payment, Settled!BlobFee,
           Settled!BlobGasUsed, Settled!ContextBlobBaseFee
  <2> QED BY <2>1, <2>2
<1> QED BY <1>1, <1>2, <1>3, <1>4 DEF SettledAt

(* Entering a deployment moves the endowment.                              *)
LEMMA EnteredSettles ==
  ASSUME PipelineInv, Bought, EnterCreate
  PROVE  SettledAt(msg.gas)'
<1> DEFINE d == NewAddress
<1>1. /\ TypeOK /\ msg \in Messages /\ msg.from \in Addr /\ created = None
      /\ nonce = before.nonce /\ nonce \in [Addr -> 0..MaxU64] /\ None \notin Addr
      /\ msg.gas \in Nat /\ pc = "charged" /\ MayExecute /\ msg.to = None
      /\ pc' = "deploying" /\ created' = d /\ nonce[d] = 0 /\ nonce[msg.from] # MaxU64
      /\ UNCHANGED <<msg, before>>
  BY Constants DEF PipelineInv, TypeOK, Bought, Messages, EnterCreate, Creating,
                   AddressTaken, history
<1>2. d \in Addr /\ d # msg.from
  BY <1>1, NewAddressTyped
<1>3. nonce' = (Settled!NextNonces(msg, created))'
  <2>1. nonce' = [a \in Addr |->
                    IF IsEIP158 /\ a = d THEN 1
                    ELSE IF a = msg.from
                    THEN IF msg.to = None /\ nonce[a] = MaxU64 THEN nonce[a]
                         ELSE Uint64(nonce[a] + 1)
                    ELSE nonce[a]]
    BY <1>1, <1>2 DEF BumpNonce, EnterCreate
  <2> QED BY <1>1, <1>2, <2>1, NoncesSettled
<1>4. (Settled!Executable(msg))'
  BY <1>1, SettledLater
<1>5. balance' = [a \in Addr |-> Uint256(Owing(a, msg.gas))']
  <2>1. /\ balance \in [Addr -> Word] /\ before.balance \in [Addr -> Word]
    BY <1>1 DEF TypeOK, World
  <2>2. balance' = Moved(msg.from, d, msg.value)
    BY DEF EnterCreate
  <2>3. ASSUME NEW a \in Addr PROVE balance'[a] = Uint256(Owing(a, msg.gas)')
    <3> DEFINE fee == BlobFee(msg)
               paid == msg.gas * msg.gasPrice
    <3>1. /\ before.balance[a] \in Word /\ before.balance[a] \in Int
          /\ paid \in Nat /\ fee \in Nat /\ msg.value \in Nat
      BY <1>1, OwingForm, Constants DEF Word
    <3>2. Owing(a, msg.gas)' =
            before.balance[a]
              - (IF a = msg.from THEN paid + fee + msg.value ELSE 0)
              + (IF a = d THEN msg.value ELSE 0)
      <4>1. Settled!BlobFee(msg)' = fee
        <5>1. Settled!BlobFee(msg)' = Settled!BlobFee(msg)
          BY <1>1 DEF Settled!BlobFee, Settled!BlobGasUsed, Settled!ContextBlobBaseFee
        <5> QED BY <5>1, SamePrices
      <4> QED BY <1>1, <1>2, <4>1 DEF Owing, Settled!Credit, Settled!Payment
    <3>3. balance[a] = IF a = msg.from THEN before.balance[a] - (paid + fee)
                       ELSE before.balance[a]
      BY <2>1 DEF Bought, PurchaseCost
    <3>4. balance'[a] = IF a = msg.from THEN Uint256(balance[a] - msg.value)
                        ELSE IF a = d THEN Uint256(balance[a] + msg.value)
                        ELSE balance[a]
      BY <1>1, <1>2, <2>1, <2>2 DEF Moved
    <3> HIDE DEF paid, fee, d
    <3>5. CASE a = msg.from
      <4>1. balance[a] - msg.value = Owing(a, msg.gas)'
        BY <1>2, <3>1, <3>2, <3>3, <3>5
      <4> QED BY <3>4, <3>5, <4>1
    <3>6. CASE a = d
      <4>1. balance[a] + msg.value = Owing(a, msg.gas)'
        BY <1>2, <3>1, <3>2, <3>3, <3>6
      <4> QED BY <1>2, <3>4, <3>6, <4>1
    <3>7. CASE a # msg.from /\ a # d
      <4>1. balance'[a] = before.balance[a] /\ Owing(a, msg.gas)' = before.balance[a]
        BY <3>1, <3>2, <3>3, <3>4, <3>7
      <4> QED BY <3>1, <4>1, Uint256Fits
    <3> QED BY <3>5, <3>6, <3>7
  <2>4. balance' = [a \in Addr |-> balance'[a]]
    BY <2>1, <2>2 DEF Moved
  <2> QED BY <2>3, <2>4
<1> QED BY <1>1, <1>2, <1>3, <1>4, <1>5 DEF SettledAt

(* What goes back to the sender leaves the price of the gas that is used.  *)
LEMMA RefundedSettles ==
  ASSUME PipelineInv, SettledAt(msg.gas), NEW counter \in RefundCounters,
         RefundGas(counter)
  PROVE  /\ SettledAt(GasUsed)'
         /\ GasUsed' \in Settled!LeastUsed(msg)..msg.gas
<1> DEFINE left == gasRemaining'
           price == msg.gasPrice
<1>1. /\ msg \in Messages /\ initialGas = msg.gas
      /\ MessageGas \in Nat /\ GasUsed \in Nat /\ Quotient \in Nat \ {0}
      /\ MessageGas <= GasUsed /\ GasUsed = initialGas - gasRemaining
      /\ Refund(counter) \in 0..GasUsed /\ Refund(counter) <= GasUsed \div Quotient
      /\ gasRemaining' = gasRemaining + Refund(counter)
      /\ GasUsed' = GasUsed - Refund(counter)
  BY RefundBounded
<1>2. /\ TypeOK /\ msg.from \in Addr /\ msg.gas \in Nat /\ price \in Nat
      /\ gasRemaining \in Nat /\ balance \in [Addr -> Word]
  BY <1>1, Constants DEF PipelineInv, TypeOK, Messages
<1>3. /\ left \in Nat /\ GasUsed' \in Nat /\ GasUsed' = msg.gas - left
      /\ GasUsed' <= msg.gas
  BY <1>1, <1>2
<1>4. /\ UNCHANGED <<nonce, msg, created, before>> /\ pc # "idle" /\ pc' # "idle"
      /\ balance' = [balance EXCEPT ![msg.from] = Uint256(@ + Uint256(left * price))]
  BY DEF RefundGas, GasReturn, history
<1> HIDE DEF left
<1>5. GasUsed' \in Settled!LeastUsed(msg)..msg.gas
  <2>1. Settled!LeastUsed(msg) = MessageGas - MessageGas \div Quotient
    BY SameIntrinsicGas DEF Settled!LeastUsed, Quotient
  <2>2. GasUsed - Refund(counter) >= MessageGas - MessageGas \div Quotient
    <3> DEFINE used == GasUsed
               due == MessageGas
               q == Quotient
               back == Refund(counter)
    <3>1. /\ used \in Nat /\ due \in Nat /\ q \in Nat \ {0} /\ back \in Nat
          /\ due <= used /\ back <= used \div q
      BY <1>1
    <3> HIDE DEF used, due, q, back
    <3>2. used - back >= due - due \div q
      BY <3>1, LeastLeft
    <3> QED BY <3>2 DEF used, due, q, back
  <2>3. MessageGas - MessageGas \div Quotient \in Int
    BY <1>1
  <2> QED BY <1>1, <1>2, <1>3, <2>1, <2>2, <2>3
<1>6. \A a \in Addr, used \in Nat : Owing(a, used)' = Owing(a, used)
  BY <1>4 DEF Owing, Settled!Credit, Settled!Payment, Settled!BlobFee,
              Settled!BlobGasUsed, Settled!ContextBlobBaseFee
<1>7. balance' = [a \in Addr |-> Uint256(Owing(a, GasUsed'))]
  <2>1. ASSUME NEW a \in Addr PROVE balance'[a] = Uint256(Owing(a, GasUsed'))
    <3> DEFINE full == Owing(a, msg.gas)
               part == Owing(a, GasUsed')
               back == left * price
    <3>1. balance[a] = Uint256(full)
      BY DEF SettledAt
    <3>2. full \in Int /\ part \in Int /\ back \in Nat
      BY <1>1, <1>2, <1>3, OwingForm
    <3>3. CASE a = msg.from
      <4>1. full + back = part
        <5>1. msg.gas * price = GasUsed' * price + back
          <6> DEFINE used == GasUsed'
          <6>1. used \in Nat /\ msg.gas = used + left
            BY <1>2, <1>3
          <6> HIDE DEF used
          <6>2. (used + left) * price = used * price + left * price
            BY <1>2, <1>3, <6>1
          <6> QED BY <6>1, <6>2 DEF used
        <5>2. /\ full = before.balance[a]
                   - (msg.gas * price + BlobFee(msg)
                        + (IF created = None THEN 0 ELSE msg.value))
                   + (IF a = created THEN msg.value ELSE 0)
              /\ part = before.balance[a]
                   - (GasUsed' * price + BlobFee(msg)
                        + (IF created = None THEN 0 ELSE msg.value))
                   + (IF a = created THEN msg.value ELSE 0)
              /\ before.balance[a] \in Word /\ msg.value \in Nat
              /\ BlobFee(msg) \in Nat /\ GasUsed' * price \in Nat
          BY <1>1, <1>2, <1>3, <3>3, OwingForm
        <5>3. before.balance[a] \in Int
          BY <5>2, Constants DEF Word
        <5> HIDE DEF full, part, back
        <5> QED BY <3>2, <5>1, <5>2, <5>3
      <4>2. balance'[a] = Uint256(Uint256(full) + Uint256(back))
        BY <1>2, <1>4, <3>1, <3>3
      <4>3. Uint256(full) \in Int /\ Uint256(back) \in Int
        BY <3>2, Uint256Typed, Constants DEF Word
      <4> HIDE DEF full, part, back
      <4>4. Uint256(Uint256(full) + Uint256(back)) = Uint256(full + Uint256(back))
        BY <3>2, <4>3, WordSum
      <4>5. full + Uint256(back) = Uint256(back) + full
        BY <3>2, <4>3
      <4>6. Uint256(Uint256(back) + full) = Uint256(back + full)
        BY <3>2, WordSum
      <4>7. back + full = part
        BY <3>2, <4>1
      <4> QED BY <4>2, <4>4, <4>5, <4>6, <4>7 DEF part
    <3>4. CASE a # msg.from
      <4>1. full = part
        BY <1>1, <1>2, <1>3, <3>4, OwingForm
      <4> QED BY <1>2, <1>4, <3>1, <3>4, <4>1
    <3> QED BY <3>3, <3>4
  <2>2. balance' = [a \in Addr |-> balance'[a]]
    BY <1>2, <1>4
  <2> QED BY <2>1, <2>2
<1>8. balance' = [a \in Addr |-> Uint256(Owing(a, GasUsed)')]
  <2>1. \A a \in Addr : Owing(a, GasUsed)' = Owing(a, GasUsed')
    BY <1>4 DEF Owing, Settled!Credit, Settled!Payment, Settled!BlobFee,
                Settled!BlobGasUsed, Settled!ContextBlobBaseFee
  <2> QED BY <1>7, <2>1
<1>9. (Settled!Executable(msg))'
  BY <1>4 DEF SettledAt, Settled!Executable, Settled!Intrinsic
<1>10. nonce' = (Settled!NextNonces(msg, created))'
  BY <1>4 DEF SettledAt, Settled!NextNonces, Nonces
<1> QED BY <1>4, <1>5, <1>8, <1>9, <1>10 DEF SettledAt

-----------------------------------------------------------------------------
LEMMA DueKept ==
  ASSUME Settled!Due(msg), pc # "idle", pc' # "idle", msg' = msg, before' = before
  PROVE  (Settled!Due(msg))'
BY DEF Settled!Due, Settled!InSequence, Settled!Affordable, Nonces, Ledger,
       Settled!BalanceCheck, Settled!BlobGasUsed

LEMMA BoughtKept ==
  ASSUME Bought, UNCHANGED <<created, nonce, balance, before, msg>>
  PROVE  Bought'
BY DEF Bought, PurchaseCost, BlobFee, BlobGasUsed, ContextBlobBaseFee

LEMMA SettledKept ==
  ASSUME NEW used, pc # "idle", pc' # "idle",
         SettledAt(used), UNCHANGED <<created, nonce, balance, before, msg>>
  PROVE  SettledAt(used)'
BY DEF SettledAt, Owing, Settled!Credit, Settled!Payment, Settled!BlobFee,
       Settled!BlobGasUsed, Settled!ContextBlobBaseFee, Settled!Executable,
       Settled!Intrinsic, Settled!NextNonces, Nonces

LEMMA BuyGasSettles ==
  ASSUME PipelineInv, NEW m \in Submitted, BuyGas(m), PipelineInv'
  PROVE  SettleInv'
<1>1. /\ msg' = m /\ pc' = "bought" /\ nonce' = nonce /\ created' = None
      /\ gasRemaining' = m.gas /\ Accepts(m)
      /\ before' = [balance |-> balance, nonce |-> nonce, hasCode |-> hasCode]
  BY DEF BuyGas, Remember
<1>2. before'.balance = balance /\ before'.nonce = nonce
  BY <1>1
<1>3. Bought'
  <2>1. balance \in [Addr -> Word] /\ msg'.from \in Addr
    BY <1>1 DEF PipelineInv, TypeOK, Messages
  <2>2. balance'[msg'.from] = balance[msg'.from] - PurchaseCost(msg)'
    BY <1>1, <1>2 DEF PipelineInv, FundsReserved
  <2>3. balance' = [balance EXCEPT ![msg'.from] = balance'[msg'.from]]
    BY <1>1, <2>1 DEF BuyGas
  <2>4. balance' = [balance EXCEPT ![msg'.from] = @ - PurchaseCost(msg)']
    BY <2>1, <2>2, <2>3
  <2> QED BY <1>1, <1>2, <2>4 DEF Bought
<1>4. (Settled!Due(msg))'
  <2>1. Ledger(balance)' = balance /\ Nonces(nonce)' = nonce
    BY <1>1, <1>2 DEF Ledger, Nonces
  <2>2. m.skip \/ m.nonce = nonce[m.from]
    BY <1>1 DEF Accepts, AccountAccepted
  <2>3. balance[m.from] >= BalanceCheck(m)
    BY <1>1 DEF Accepts, CanBuyGas
  <2>4. Settled!BalanceCheck(m) = BalanceCheck(m)
    BY SamePrices
  <2>5. (Settled!BalanceCheck(msg))' = Settled!BalanceCheck(m)
    BY <1>1 DEF Settled!BalanceCheck, Settled!BlobGasUsed
  <2> QED BY <1>1, <2>1, <2>2, <2>3, <2>4, <2>5
       DEF Settled!Due, Settled!InSequence, Settled!Affordable
<1>5. msg' \in Submitted' /\ gasRemaining' = msg'.gas
  BY <1>1 DEF Submitted, ToMessage, MessagePrice
<1> QED BY <1>1, <1>3, <1>4, <1>5 DEF SettleInv

LEMMA StepSettle == SettleInv /\ [Next]_vars => SettleInv'
<1> SUFFICES ASSUME SettleInv, [Next]_vars PROVE SettleInv'
  OBVIOUS
<1>0. PipelineInv /\ PipelineInv'
  BY StepPipeline DEF SettleInv
<1>k. ASSUME pc # "idle", pc' # "idle", msg' = msg, before' = before
      PROVE  msg' \in Submitted' /\ (Settled!Due(msg))'
  BY <1>k, DueKept DEF SettleInv, Submitted, ToMessage, MessagePrice
<1>1. ASSUME NEW m \in Submitted, RejectInPreCheck(m) PROVE SettleInv'
  BY <1>0, <1>1 DEF RejectInPreCheck, Reject, SettleInv
<1>2. ASSUME NEW m \in Submitted, BuyGas(m) PROVE SettleInv'
  BY <1>0, <1>2, BuyGasSettles
<1>3. CASE ChargeIntrinsicGas
  <2>1. /\ pc = "bought" /\ pc' = "charged"
        /\ UNCHANGED <<created, nonce, balance, before, msg>>
    BY <1>3 DEF ChargeIntrinsicGas, world, history
  <2>2. Bought'
    BY <2>1, BoughtKept DEF SettleInv
  <2> QED BY <1>0, <1>k, <2>1, <2>2 DEF SettleInv
<1>4. CASE RejectIntrinsicGas
  BY <1>0, <1>4 DEF RejectIntrinsicGas, Reject, SettleInv
<1>5. CASE RejectBeforeExecution
  BY <1>0, <1>5 DEF RejectBeforeExecution, Reject, SettleInv
<1>e. ASSUME pc = "charged", MayExecute, pc' = "executed",
             UNCHANGED <<msg, before, created, balance>>,
             nonce' = IF msg.to = None /\ nonce[msg.from] = MaxU64 THEN nonce
                      ELSE BumpNonce(msg.from)
      PROVE  SettleInv'
  <2>1. SettledAt(msg.gas)'
    BY <1>0, <1>e, ExecutedSettles DEF SettleInv
  <2> QED BY <1>0, <1>e, <1>k, <2>1 DEF SettleInv
<1>6. CASE ExecuteCall
  BY <1>6, <1>e DEF ExecuteCall, history
<1>7. CASE CreateRefused
  <2>1. CanTransfer(msg.from, msg.value)
    <3>1. pc = "charged" /\ balance[msg.from] >= msg.value
      BY <1>0, <1>7 DEF PipelineInv, FundsReserved, CreateRefused, Creating
    <3> QED BY <3>1 DEF CanTransfer
  <2> QED BY <1>7, <1>e, <2>1 DEF CreateRefused, Creating, world, history
<1>8. CASE CreateCollision
  BY <1>8, <1>e DEF CreateCollision, Creating, history
<1>9. CASE EnterCreate
  <2>1. /\ pc = "charged" /\ pc' = "deploying" /\ UNCHANGED <<msg, before>>
    BY <1>9 DEF EnterCreate, Creating, history
  <2>2. SettledAt(msg.gas)'
    BY <1>0, <1>9, <2>1, EnteredSettles DEF SettleInv
  <2> QED BY <1>0, <1>k, <2>1, <2>2 DEF SettleInv
<1>10. ASSUME NEW run \in Runs, FinishCreate(run) PROVE SettleInv'
  <2>1. /\ pc = "deploying" /\ pc' = "executed"
        /\ UNCHANGED <<created, nonce, balance, before, msg>>
    BY <1>10 DEF FinishCreate, history
  <2>2. SettledAt(msg.gas)'
    <3>1. \E used : used = msg.gas /\ SettledAt(used)
      BY <2>1 DEF SettleInv
    <3>2. PICK used : used = msg.gas /\ SettledAt(used)
      BY <3>1
    <3> QED BY <2>1, <3>2, SettledKept
  <2> QED BY <1>0, <1>k, <2>1, <2>2 DEF SettleInv
<1>11. ASSUME NEW counter \in RefundCounters, RefundGas(counter) PROVE SettleInv'
  <2>1. /\ pc = "executed" /\ pc' \in {"refunded", "panicked"}
        /\ UNCHANGED <<msg, before>>
    BY <1>11 DEF RefundGas, history
  <2>2. SettledAt(GasUsed)' /\ GasUsed' \in Settled!LeastUsed(msg)..msg.gas
    BY <1>0, <1>11, <2>1, RefundedSettles DEF SettleInv
  <2>3. (Settled!LeastUsed(msg))' = Settled!LeastUsed(msg)
    BY <2>1 DEF Settled!LeastUsed, Settled!Intrinsic
  <2> QED BY <1>0, <1>k, <2>1, <2>2, <2>3 DEF SettleInv
<1>12. CASE PayCoinbase
  BY <1>0, <1>12 DEF PayCoinbase, SettleInv
<1>13. CASE UNCHANGED vars
  <2>1. /\ pc' = pc /\ gasRemaining' = gasRemaining /\ initialGas' = initialGas
        /\ UNCHANGED <<created, nonce, balance, before, msg>>
    BY <1>13 DEF vars, world, locals, history
  <2>2. pc \in {"bought", "charged"} => Bought'
    BY <2>1, BoughtKept DEF SettleInv
  <2>3. \A used : pc # "idle" /\ SettledAt(used) => SettledAt(used)'
    BY <2>1, SettledKept
  <2>4. pc = "refunded" => SettledAt(GasUsed)'
    <3>1. ASSUME NEW used, used = GasUsed, pc # "idle", SettledAt(used)
          PROVE  SettledAt(GasUsed)'
      <4>1. GasUsed' = used
        BY <2>1, <3>1 DEF GasUsed
      <4>2. SettledAt(used)'
        BY <2>3, <3>1
      <4> QED BY <4>1, <4>2
    <3> QED BY <3>1 DEF SettleInv
  <2>5. pc \in {"deploying", "executed"} => SettledAt(msg.gas)'
    <3>1. ASSUME NEW used, used = msg.gas, pc # "idle", SettledAt(used)
          PROVE  SettledAt(msg.gas)'
      <4>1. SettledAt(used)'
        BY <2>3, <3>1
      <4> QED BY <2>1, <3>1, <4>1
    <3> QED BY <3>1 DEF SettleInv
  <2>6. pc = "refunded" => GasUsed' \in (Settled!LeastUsed(msg))'..msg'.gas
    BY <2>1 DEF SettleInv, GasUsed, Settled!LeastUsed, Settled!Intrinsic
  <2> QED BY <1>0, <1>k, <2>1, <2>2, <2>4, <2>5, <2>6 DEF SettleInv
<1> QED BY <1>1, <1>2, <1>3, <1>4, <1>5, <1>6, <1>7, <1>8, <1>9, <1>10, <1>11,
           <1>12, <1>13 DEF Next, Submit, Step

-----------------------------------------------------------------------------
LEMMA InitSettle == Init => SettleInv
BY InitPipeline DEF Init, SettleInv

LEMMA SettleInvariant == Spec => []SettleInv
BY InitSettle, StepSettle, PTL DEF Spec

(* Clause 6 cannot fail any more: what is rejected here is too much init   *)
(* code.                                                                   *)
LEMMA RejectForfeits ==
  ASSUME SettleInv, Reject, UNCHANGED <<world, history>>,
         \/ pc = "bought" /\ ~CoversIntrinsicGas
         \/ pc = "charged" /\ ~MayExecute
  PROVE  Settled!Forfeit(msg)
<1>1. /\ PipelineInv /\ TypeOK /\ msg \in Messages /\ msg.from \in Addr
      /\ msg.value \in Nat /\ Settled!Due(msg) /\ Bought
  BY DEF SettleInv, PipelineInv, TypeOK, Messages
<1>2. ~Settled!Executable(msg)
  <2>1. CASE pc = "bought" /\ ~CoversIntrinsicGas
    <3>1. MessageGas # GasUintOverflow =>
            MessageGas \in Nat /\ msg.gas \in Nat /\ ~(msg.gas >= MessageGas)
      BY <1>1, <2>1, MessageGasTyped, Constants DEF SettleInv, CoversIntrinsicGas, Messages
    <3> QED BY <3>1, SameIntrinsicGas DEF Settled!Executable
  <2>2. CASE pc = "charged" /\ ~MayExecute
    <3>1. balance[msg.from] \in Word /\ balance[msg.from] >= msg.value
      BY <1>1, <2>2 DEF PipelineInv, FundsReserved, TypeOK
    <3>2. msg.value < U256
      BY <1>1, <3>1, Constants DEF Word
    <3>3. CanTransfer(msg.from, msg.value)
      BY <3>1 DEF CanTransfer
    <3>4. IsShanghai /\ msg.to = None /\ msg.nz + msg.z > MaxInitCodeSize
      BY <2>2, <3>2, <3>3 DEF MayExecute
    <3> QED BY <3>4 DEF Settled!Executable
  <2> QED BY <2>1, <2>2
<1>3. /\ Ledger(balance) = before.balance /\ Nonces(nonce) = before.nonce
      /\ Ledger(balance)' = balance /\ Nonces(nonce)' = nonce
  BY DEF Reject, Ledger, Nonces, world
<1>4. Ledger(balance)' = [Ledger(balance) EXCEPT ![msg.from] =
                            @ - Settled!PurchaseCost(msg)]
  <2>1. Settled!PurchaseCost(msg) = PurchaseCost(msg)
    BY SamePrices
  <2> QED BY <1>1, <1>3, <2>1 DEF Bought
<1>5. Nonces(nonce)' = Nonces(nonce)
  BY <1>1, <1>3 DEF Bought
<1> QED BY <1>1, <1>2, <1>4, <1>5 DEF Settled!Forfeit

(* The coinbase is paid what the settlement rewards it with, modulo 2^256. *)
LEMMA PayRewards ==
  ASSUME SettleInv, PayCoinbase, NEW a \in Addr
  PROVE  balance'[a] = Uint256(Owing(a, GasUsed)
                                 + Settled!Credit(a, Coinbase, Settled!Reward(msg, GasUsed)))
<1>1. /\ PipelineInv /\ TypeOK /\ msg \in Messages /\ pc = "refunded"
      /\ SettledAt(GasUsed) /\ Coinbase \in Addr /\ balance \in [Addr -> Word]
      /\ initialGas \in Int /\ gasRemaining \in Int
  BY Constants DEF SettleInv, PayCoinbase, PipelineInv, TypeOK
<1>2. GasUsed \in Nat
  BY <1>1, Uint64Typed, Constants DEF GasUsed
<1>3. balance[a] = Uint256(Owing(a, GasUsed)) /\ Owing(a, GasUsed) \in Int
  BY <1>1, <1>2, OwingForm DEF SettledAt
<1>4. EffectiveTip(msg) \in Int
  BY <1>1, FeesTyped
<1> DEFINE tip == EffectiveTip(msg)
           owing == Owing(a, GasUsed)
<1>5. CASE a = Coinbase /\ ~FreeMessage(msg)
  <2>1. Settled!Credit(a, Coinbase, Settled!Reward(msg, GasUsed)) = GasUsed * tip
    BY <1>5, SamePrices DEF Settled!Credit, Settled!Reward
  <2>2. balance'[a] = Uint256(Uint256(owing) + Uint256(GasUsed * Uint256(tip)))
    BY <1>1, <1>3, <1>5 DEF PayCoinbase, Fee
  <2>3. Uint256(GasUsed * Uint256(tip)) = Uint256(GasUsed * tip)
    BY <1>2, <1>4, WordProduct
  <2> DEFINE fee == GasUsed * tip
  <2>4. fee \in Int /\ owing \in Int
    BY <1>2, <1>3, <1>4
  <2>5. balance'[a] = Uint256(Uint256(owing) + Uint256(fee))
    BY <2>2, <2>3
  <2> HIDE DEF fee, owing
  <2>6. Uint256(owing) \in Int /\ Uint256(fee) \in Int
    BY <2>4, Uint256Typed, Constants DEF Word
  <2>7. Uint256(Uint256(owing) + Uint256(fee)) = Uint256(owing + Uint256(fee))
    BY <2>4, <2>6, WordSum
  <2>8. owing + Uint256(fee) = Uint256(fee) + owing
    BY <2>4, <2>6
  <2>9. Uint256(Uint256(fee) + owing) = Uint256(fee + owing)
    BY <2>4, WordSum
  <2>10. fee + owing = owing + fee
    BY <2>4
  <2>11. balance'[a] = Uint256(owing + fee)
    BY <2>5, <2>7, <2>8, <2>9, <2>10
  <2> QED BY <2>1, <2>11 DEF owing, fee
<1>6. CASE a # Coinbase \/ FreeMessage(msg)
  <2>1. Settled!Credit(a, Coinbase, Settled!Reward(msg, GasUsed)) = 0
    BY <1>6, SamePrices DEF Settled!Credit, Settled!Reward
  <2>2. balance'[a] = balance[a]
    BY <1>1, <1>6 DEF PayCoinbase
  <2>3. owing + 0 = owing
    BY <1>3
  <2> QED BY <1>3, <2>1, <2>2, <2>3
<1> QED BY <1>5, <1>6

LEMMA PaySettles ==
  ASSUME SettleInv, PayCoinbase
  PROVE  Settled!Settle(msg)
<1>1. /\ PipelineInv /\ TypeOK /\ pc = "refunded" /\ pc' = "idle" /\ nonce' = nonce
      /\ SettledAt(GasUsed) /\ GasUsed \in Settled!LeastUsed(msg)..msg.gas
      /\ Settled!Due(msg) /\ created \in Addr \cup {None}
      /\ balance \in [Addr -> Word]
  BY DEF SettleInv, PayCoinbase, PipelineInv, TypeOK
<1>2. /\ Ledger(balance) = before.balance /\ Nonces(nonce) = before.nonce
      /\ Ledger(balance)' = balance' /\ Nonces(nonce)' = nonce
  BY <1>1 DEF Ledger, Nonces
<1>3. balance' = [a \in Addr |->
        Settled!Uint256(before.balance[a]
          - Settled!Credit(a, msg.from, Settled!Payment(msg, GasUsed, created))
          + Settled!Credit(a, created, msg.value)
          + Settled!Credit(a, Coinbase, Settled!Reward(msg, GasUsed)))]
  <2>1. \A a \in Addr :
          balance'[a] = Uint256(Owing(a, GasUsed)
                         + Settled!Credit(a, Coinbase, Settled!Reward(msg, GasUsed)))
    BY PayRewards
  <2>2. balance' = [a \in Addr |-> balance'[a]]
    BY <1>1 DEF PayCoinbase
  <2> QED BY <2>1, <2>2, SameWords DEF Owing
<1> QED BY <1>1, <1>2, <1>3 DEF Settled!Settle, SettledAt

LEMMA StepSettles ==
  SettleInv /\ [Next]_vars => [Settled!Next]_(Settled!view)
<1> SUFFICES ASSUME SettleInv, [Next]_vars
             PROVE  \/ \E m \in Submitted : Settled!Forfeit(m) \/ Settled!Settle(m)
                    \/ UNCHANGED Settled!view
  BY DEF Settled!Next
<1>1. ASSUME UNCHANGED <<balance, nonce>>, pc' = pc, before' = before
      PROVE  UNCHANGED Settled!view
  BY <1>1 DEF Settled!view, Ledger, Nonces
<1>2. ASSUME pc # "idle", pc' # "idle", before' = before
      PROVE  UNCHANGED Settled!view
  BY <1>2 DEF Settled!view, Ledger, Nonces
<1>3. ASSUME NEW m \in Submitted, RejectInPreCheck(m) PROVE UNCHANGED Settled!view
  BY <1>3 DEF RejectInPreCheck, Reject, world, Settled!view, Ledger, Nonces
<1>4. ASSUME NEW m \in Submitted, BuyGas(m) PROVE UNCHANGED Settled!view
  BY <1>4 DEF BuyGas, Remember, Settled!view, Ledger, Nonces
<1>5. CASE RejectIntrinsicGas \/ RejectBeforeExecution
  <2>1. msg \in Submitted
    BY <1>5 DEF SettleInv, RejectIntrinsicGas, RejectBeforeExecution
  <2>2. Settled!Forfeit(msg)
    BY <1>5, RejectForfeits DEF RejectIntrinsicGas, RejectBeforeExecution
  <2> QED BY <2>1, <2>2
<1>6. CASE PayCoinbase
  <2>1. msg \in Submitted
    BY <1>6 DEF SettleInv, PayCoinbase
  <2> QED BY <1>6, <2>1, PaySettles
<1>7. CASE \/ ChargeIntrinsicGas \/ ExecuteCall \/ CreateRefused \/ CreateCollision
           \/ EnterCreate \/ \E run \in Runs : FinishCreate(run)
           \/ \E counter \in RefundCounters : RefundGas(counter)
  BY <1>2, <1>7 DEF ChargeIntrinsicGas, ExecuteCall, CreateRefused, CreateCollision,
                    EnterCreate, Creating, FinishCreate, RefundGas, history
<1>8. CASE UNCHANGED vars
  BY <1>1, <1>8 DEF vars, world, locals, history
<1> QED BY <1>3, <1>4, <1>5, <1>6, <1>7, <1>8 DEF Next, Submit, Step

(* Seen between messages, the pipeline is the atomic ledger: a message     *)
(* changes nothing, forfeits what its gas cost, or is settled to the wei.  *)
THEOREM PipelineSettlesMessages == Spec => SettlesMessages
<1>1. Init => Settled!Init
  <2> SUFFICES ASSUME Init PROVE Settled!Init
    OBVIOUS
  <2>1. balance \in [Addr -> Word] /\ nonce \in [Addr -> 0..MaxU64]
    BY TransitionAssumption DEF Init
  <2>2. Ledger(balance) = balance /\ Nonces(nonce) = nonce
    BY DEF Init, Ledger, Nonces
  <2> QED BY <2>1, <2>2 DEF Settled!Init, Word
<1> QED BY <1>1, SettleInvariant, StepSettles, PTL DEF Spec, SettlesMessages, Settled!Spec
=============================================================================
