------------------------------ MODULE GasRules ------------------------------
(***************************************************************************)
(* The rules by which messages and calls of precompiled contracts are      *)
(* priced, fed with one input after another: the properties say what       *)
(* FeeRules, IntrinsicGas and Precompiles, which follow the code step by   *)
(* step, compute for it.                                                   *)
(***************************************************************************)
EXTENDS FeeRules, IntrinsicGas, Precompiles

CONSTANTS
  Inputs,     \* the transactions priced
  Submitted,  \* the calls of precompiled contracts
  None

(* The length of a payload, nz + z, is itself a uint64.  A call is given   *)
(* at most a third of the gas a uint64 can hold: a message of more gas     *)
(* does not fit any block.                                                 *)
ASSUME InputAssumption ==
  /\ Inputs \subseteq [feeCap : Nat, tipCap : Nat, nz : Nat, z : Nat,
                       addresses : Nat, keys : Nat, creation : BOOLEAN]
  /\ \A i \in Inputs : i.nz + i.z <= MaxU64
  /\ Submitted \subseteq Calls
  /\ \A c \in Submitted : 3 * c.gas <= MaxU64
  /\ None \notin Inputs \cup Submitted

VARIABLES tx, call

vars == <<tx, call>>

Init == tx = None /\ call = None

PriceMessage == vars = <<None, None>> /\ tx' \in Inputs /\ call' = None
CallPrecompile == vars = <<None, None>> /\ tx' = None /\ call' \in Submitted
Finish == vars # <<None, None>> /\ tx' = None /\ call' = None

Next == PriceMessage \/ CallPrecompile \/ Finish

Spec == Init /\ [][Next]_vars

-----------------------------------------------------------------------------
(* The two places that price a transaction agree: TransactionToMessage,    *)
(* min(tip + base, cap), and effectiveGasPrice, min(cap - base, tip) + base.*)
PricesAgree == tx # None => MessagePrice(tx) = EffectiveGasPrice(tx)

(* What IntrinsicGas is meant to add up, over the integers.                *)
Words(size) == (size + (WordBytes - 1)) \div WordBytes

ExactDataGas ==
  LET price == IF IsIstanbul THEN NonZeroGasEIP2028 ELSE NonZeroGasFrontier
  IN  (IF tx.creation /\ IsHomestead THEN TxGasContractCreation ELSE TxGas)
      + tx.nz * price + tx.z * ZeroGas
      + (IF tx.creation /\ IsShanghai
         THEN Words(tx.nz + tx.z) * InitCodeWordGas ELSE 0)

ExactGas == ExactDataGas + tx.addresses * AddressGas + tx.keys * StorageKeyGas

(* The divisions that guard each addition find every overflow of the data  *)
(* gas and no other: the result is exact, or an error exactly when the sum *)
(* does not fit; an access list that fits is charged in full.              *)
IntrinsicGasExact ==
  tx # None =>
    LET gas == IntrinsicGas(tx.nz, tx.z, tx.addresses, tx.keys, tx.creation) IN
    /\ gas = GasUintOverflow <=> ExactDataGas > MaxU64
    /\ ExactGas <= MaxU64 => gas = ExactGas

(* The least a contract is paid for one piece of its work.                 *)
LeastPrice(contract) ==
  IF contract \in MultiExps
  THEN (UnitGas[contract] * Discounts[Len(Discounts)]) \div DiscountBase
  ELSE IF contract = "blake2F" THEN 1
  ELSE IF contract \in DOMAIN PieceBytes THEN UnitGas[contract]
  ELSE IF contract = "bigModExp" THEN 0
  ELSE IF contract = "bigModExpEIP2565" THEN MinModExpGas
  ELSE BaseGas[contract]

(* RequiredGas and Run read the input apart from each other, and price and *)
(* work agree: what a contract does, up to the operand that makes it fail, *)
(* was paid for, a price of zero for a malformed input buys nothing.       *)
WorkIsPaid ==
  call # None =>
    LET result == RunPrecompiledContract(call) IN
    /\ result.gas <= call.gas
    /\ result.done * LeastPrice(call.contract) <= call.gas - result.gas

(* A call of modexp that can pay finds its operands where they are: the    *)
(* price rules out lengths that lose bits when they are cut to 64, or add  *)
(* up to more, unless base and modulus are empty and nothing is read.      *)
(* Nothing else keeps the slices of getData from ending before they start: *)
(* its sum wraps, although it calls itself overflow safe (common.go:57).   *)
OperandsInPlace ==
  call # None /\ call.contract \in ModExps /\ call.gas >= RequiredGas(call)
    /\ ~(call.baseLen = 0 /\ call.modLen = 0)
  => /\ ExponentAt(call) = call.baseLen
     /\ ModulusAt(call) = call.baseLen + call.expLen
     /\ Uint64(call.modLen) = call.modLen
     /\ \A s \in OperandSlices(call) : s.from <= s.end

(* Forks are activated in their order, and none takes an address away or   *)
(* changes what its contract does: a call that could be made under some    *)
(* rules is carried out the same, and computes the same, under all later   *)
(* ones, also where two contracts have like inputs and prices.  Only the   *)
(* prices of modexp and bn256 change.                                      *)
Rules == {{Forks[i] : i \in 1..n} : n \in 0..Len(Forks)}

ContractAt(address, rules) == PrecompiledContracts[TableOf(rules)][address]

ForksKeepAnswers ==
  call # None =>
    \A now, later \in Rules : now \subseteq later =>
      \A a \in ActivePrecompiles(now) : ContractAt(a, now) = call.contract =>
        /\ a \in ActivePrecompiles(later)
        /\ Run([call EXCEPT !.contract = ContractAt(a, later)]) = Run(call)
        /\ Computes(ContractAt(a, later)) = Computes(call.contract)
=============================================================================
