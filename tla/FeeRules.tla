------------------------------ MODULE FeeRules ------------------------------
(***************************************************************************)
(* The prices of a message: what core/state_transition.go and the          *)
(* transaction types of core/types compute from the fee fields of a        *)
(* transaction and the base fees of the block.  Everything here is a       *)
(* constant-level operator on a record with at least the fields            *)
(*   feeCap, tipCap       GasFeeCap and GasTipCap                          *)
(*   gas, value           Gas and Value                                    *)
(*   blobTx, blobs        whether BlobHashes is non-nil, and its length    *)
(*   blobFeeCap           BlobGasFeeCap                                    *)
(* A legacy transaction has feeCap = tipCap, as its GasPrice() feeds both. *)
(***************************************************************************)
EXTENDS ChainRules

CONSTANTS
  NoBaseFee,     \* Config.NoBaseFee: the caller simulates free messages
  BaseFee,       \* base fee of the block's header
  BlobBaseFee,   \* blob base fee of the block's header
  GasPerBlob     \* params.BlobTxBlobGasPerBlob

ASSUME FeeAssumption ==
  /\ NoBaseFee \in BOOLEAN
  /\ {BaseFee, BlobBaseFee, GasPerBlob} \subseteq Nat

BigMin(a, b) == IF a <= b THEN a ELSE b

-----------------------------------------------------------------------------
(* TransactionToMessage: tx.GasPrice() is the fee cap of every transaction *)
(* type; a base fee is passed exactly when the block has one.              *)
MessagePrice(tx) ==
  IF IsLondon THEN BigMin(tx.tipCap + BaseFee, tx.feeCap) ELSE tx.feeCap

(* BlobTx.effectiveGasPrice, the price of the same transaction as the      *)
(* transaction type computes it.                                           *)
EffectiveGasPriceMutant(tx) ==
  IF ~IsLondon THEN tx.feeCap ELSE BigMin(tx.feeCap, tx.tipCap) + BaseFee

EffectiveGasPrice(tx) ==
  IF ~IsLondon THEN tx.feeCap
  ELSE BigMin(tx.feeCap - BaseFee, tx.tipCap) + BaseFee

-----------------------------------------------------------------------------
(* The BlockContext an EVM runs under: BaseFee and BlobBaseFee are 0 if the *)
(* vm runs with NoBaseFee and the message's price is 0.                    *)
ContextBaseFee(msg) ==
  IF NoBaseFee /\ msg.gasPrice = 0 THEN 0 ELSE BaseFee

ContextBlobBaseFeeMutant(msg) == BlobBaseFee

ContextBlobBaseFee(msg) ==
  IF NoBaseFee /\ msg.blobFeeCap = 0 THEN 0 ELSE BlobBaseFee

-----------------------------------------------------------------------------
(* preCheck, the fee clauses.                                              *)
FreeMessage(msg) == NoBaseFee /\ msg.feeCap = 0 /\ msg.tipCap = 0

FeesAcceptedMutant(msg) ==
  IsLondon /\ ~FreeMessage(msg) => msg.feeCap >= msg.tipCap

FeesAccepted(msg) ==
  IsLondon /\ ~FreeMessage(msg) =>
    /\ msg.feeCap < U256
    /\ msg.tipCap < U256
    /\ msg.feeCap >= msg.tipCap
    /\ msg.feeCap >= ContextBaseFee(msg)

BlobGasUsed(msg) == IF msg.blobTx THEN msg.blobs * GasPerBlob ELSE 0

BlobFeeAccepted(msg) ==
  IsCancun /\ BlobGasUsed(msg) > 0 /\ ~(NoBaseFee /\ msg.blobFeeCap = 0) =>
    msg.blobFeeCap >= ContextBlobBaseFee(msg)

-----------------------------------------------------------------------------
(* buyGas: what the sender must own, and what it is charged up front.      *)
BlobFee(msg) ==
  IF IsCancun THEN BlobGasUsed(msg) * ContextBlobBaseFee(msg) ELSE 0

BalanceCheckMutant(msg) ==
  msg.gas * msg.feeCap + (IF IsCancun THEN BlobGasUsed(msg) * msg.blobFeeCap ELSE 0)

BalanceCheck(msg) ==
  msg.gas * msg.feeCap + msg.value
    + (IF IsCancun THEN BlobGasUsed(msg) * msg.blobFeeCap ELSE 0)

PurchaseCost(msg) == msg.gas * msg.gasPrice + BlobFee(msg)

-----------------------------------------------------------------------------
(* TransitionDb: the price per gas the coinbase receives.                  *)
EffectiveTip(msg) ==
  IF IsLondon THEN BigMin(msg.tipCap, msg.feeCap - ContextBaseFee(msg))
  ELSE msg.gasPrice
=============================================================================
