----------------------------- MODULE Precompiles -----------------------------
(***************************************************************************)
(* core/vm/contracts.go: what a call of a precompiled contract is charged  *)
(* (RequiredGas) and what it then does (Run).  Hashes and curve arithmetic *)
(* are left out: an input is its length and the number, counted from one,  *)
(* of its first operand that does not decode (0 if all do).  bigModExp     *)
(* reads three lengths of 256 bits from its input and computes its price   *)
(* with big integers, but fetches its operands with the low 64 bits of     *)
(* each length.                                                            *)
(***************************************************************************)
EXTENDS ChainRules, Sequences

CONSTANTS
  BaseGas,       \* per contract, what a call costs
  UnitGas,       \* per contract, what a word, a point or a pair costs
  Discounts,     \* params.Bls12381MultiExpDiscountTable
  DiscountBase,  \* 1000
  MinModExpGas   \* 200, the least price of modexp since EIP-2565

Hashes    == {"sha256hash", "ripemd160hash", "dataCopy"}
MultiExps == {"bls12381G1MultiExp", "bls12381G2MultiExp"}
ModExps   == {"bigModExp", "bigModExpEIP2565"}

(* Contracts that work through their input piece by piece, and those that  *)
(* take one input of a fixed length.  The others pad what they are given.  *)
PieceBytes ==
  [sha256hash |-> 32, ripemd160hash |-> 32, dataCopy |-> 32,
   bn256Pairing |-> 192, bls12381Pairing |-> 384,
   bls12381G1MultiExp |-> 160, bls12381G2MultiExp |-> 288]

InputBytes ==
  [blake2F |-> 213, bls12381G1Add |-> 256, bls12381G1Mul |-> 160,
   bls12381G2Add |-> 512, bls12381G2Mul |-> 288, bls12381MapG1 |-> 64,
   bls12381MapG2 |-> 128, kzgPointEvaluation |-> 192]

Padded == {"ecrecover", "bn256Add", "bn256ScalarMul"}

Contracts == DOMAIN PieceBytes \cup DOMAIN InputBytes \cup Padded \cup ModExps

(* rounds is the counter in the input of blake2F, headBits the bit length  *)
(* of the first 32 bytes of an exponent.                                   *)
Calls ==
  [contract : Contracts, gas : 0..MaxU64, len : Nat, bad : Nat, rounds : Nat,
   baseLen : Nat, expLen : Nat, modLen : Nat, headBits : Nat]

ASSUME PrecompileAssumption ==
  /\ {BaseGas, UnitGas} \subseteq [Contracts -> Nat]
  /\ Discounts \in Seq(Nat) /\ Discounts # <<>>
  /\ \A i \in 1..Len(Discounts) : Discounts[i] >= Discounts[Len(Discounts)]
  /\ DiscountBase \in Nat \ {0}
  /\ MinModExpGas \in Nat \ {0}

-----------------------------------------------------------------------------
(* bigModExp.RequiredGas.                                                  *)
Larger(m, n) == IF m > n THEN m ELSE n

AdjustedMutant(call) == IF call.headBits > 0 THEN call.headBits - 1 ELSE 0

AdjustedExponentLength(call) ==
  (IF call.expLen > 32 THEN 8 * (call.expLen - 32) ELSE 0)
    + (IF call.headBits > 0 THEN call.headBits - 1 ELSE 0)

MultComplexity(x) ==
  IF x <= 64 THEN x * x
  ELSE IF x <= 1024 THEN (x * x) \div 4 + (96 * x - 3072)
  ELSE (x * x) \div 16 + (480 * x - 199680)

Saturated(gas) == IF gas > MaxU64 THEN MaxU64 ELSE gas

ModExpGas(call) ==
  LET size  == Larger(call.modLen, call.baseLen)
      steps == Larger(AdjustedExponentLength(call), 1)
      words == (size + 7) \div 8
  IN  IF call.contract = "bigModExpEIP2565"
      THEN Larger(MinModExpGas, Saturated((words * words * steps) \div 3))
      ELSE Saturated((MultComplexity(size) * steps) \div 20)

-----------------------------------------------------------------------------
(* RequiredGas of every contract.                                          *)
WordsMutant(call) == call.len \div 32

PricedWords(call) == (call.len + 31) \div 32

Pieces(call) == call.len \div PieceBytes[call.contract]

Discount(k) == IF k < Len(Discounts) THEN Discounts[k] ELSE Discounts[Len(Discounts)]

RequiredGas(call) ==
  LET base == BaseGas[call.contract]
      unit == UnitGas[call.contract] IN
  CASE call.contract \in Hashes -> PricedWords(call) * unit + base
    [] call.contract \in MultiExps ->
         IF Pieces(call) = 0 THEN 0
         ELSE (Pieces(call) * unit * Discount(Pieces(call))) \div DiscountBase
    [] call.contract \in {"bn256Pairing", "bls12381Pairing"} ->
         base + Pieces(call) * unit
    [] call.contract = "blake2F" ->
         IF call.len = InputBytes["blake2F"] THEN call.rounds ELSE 0
    [] call.contract \in ModExps -> ModExpGas(call)
    [] OTHER -> base

-----------------------------------------------------------------------------
(* Run: how many pieces of its work a contract has done when it returns,   *)
(* and whether it returns an error.  ecrecover answers nothing for a bad   *)
(* signature, without an error.                                            *)
Refused == [done |-> 0, failed |-> TRUE]

DecodeAll(call, k) ==
  IF call.bad \in 1..k THEN [done |-> call.bad - 1, failed |-> TRUE]
  ELSE [done |-> k, failed |-> FALSE]

RunPieces(call) ==
  IF call.len % PieceBytes[call.contract] # 0
       \/ (call.len = 0 /\ call.contract # "bn256Pairing")
  THEN Refused
  ELSE DecodeAll(call, Pieces(call))

RunSized(call) ==
  IF call.len # InputBytes[call.contract] \/ call.bad # 0 THEN Refused
  ELSE [done |-> IF call.contract = "blake2F" THEN call.rounds ELSE 1,
        failed |-> FALSE]

RunPadded(call) ==
  IF call.contract = "ecrecover" THEN [done |-> 1, failed |-> FALSE]
  ELSE DecodeAll(call, 1)

Run(call) ==
  IF call.contract \in Hashes
  THEN [done |-> (call.len + 31) \div 32, failed |-> FALSE]
  ELSE IF call.contract \in DOMAIN PieceBytes THEN RunPieces(call)
  ELSE IF call.contract \in DOMAIN InputBytes THEN RunSized(call)
  ELSE IF call.contract \in Padded THEN RunPadded(call)
  ELSE [done |-> 1, failed |-> FALSE]

(* What is computed when Run does not fail: by each contract something     *)
(* else, but by bigModExp the same with either price.                      *)
Computes(contract) == IF contract \in ModExps THEN "modular power" ELSE contract

RunPrecompiledContract(call) ==
  IF call.gas < RequiredGas(call)
  THEN [done |-> 0, failed |-> TRUE, gas |-> 0]
  ELSE [done |-> Run(call).done, failed |-> Run(call).failed,
        gas |-> call.gas - RequiredGas(call)]

(* bigModExp.Run: where the exponent and the modulus are read from.        *)
ExponentAt(call) == Uint64(call.baseLen)
ModulusAt(call)  == Uint64(Uint64(call.baseLen) + Uint64(call.expLen))

(* getData (common.go): the part it slices out of so many bytes.  The sum  *)
(* wraps, and Go panics where a slice ends before it starts.               *)
Slice(length, start, size) ==
  LET from == IF start > length THEN length ELSE start
      end  == Uint64(from + size)
  IN  [from |-> from, end |-> IF end > length THEN length ELSE end]

OperandSlices(call) ==
  LET length == Larger(call.len - 96, 0) IN
  {Slice(length, 0, Uint64(call.baseLen)),
   Slice(length, ExponentAt(call), Uint64(call.expLen)),
   Slice(length, ModulusAt(call), Uint64(call.modLen))}

-----------------------------------------------------------------------------
(* The contracts of each fork, at the addresses 1, 2, 3, ...; the two      *)
(* prices of the bn256 contracts are one contract here.                    *)
Forks == <<"Homestead", "Byzantium", "Istanbul", "Berlin", "Cancun", "Prague">>

Base   == <<"ecrecover", "sha256hash", "ripemd160hash", "dataCopy">>
Bn256  == <<"bn256Add", "bn256ScalarMul", "bn256Pairing">>
Curve  == <<"bls12381G1Add", "bls12381G1Mul", "bls12381G1MultiExp", "bls12381G2Add",
            "bls12381G2Mul", "bls12381G2MultiExp", "bls12381Pairing",
            "bls12381MapG1", "bls12381MapG2">>
(* Two contracts of one price and shape change places.                     *)
BerlinMutant ==
  Base \o <<"bigModExpEIP2565", "bn256ScalarMul", "bn256Add", "bn256Pairing", "blake2F">>

Berlin == Base \o <<"bigModExpEIP2565">> \o Bn256 \o <<"blake2F">>

PrecompiledContracts ==
  [Homestead |-> Base,
   Byzantium |-> Base \o <<"bigModExp">> \o Bn256,
   Istanbul  |-> Base \o <<"bigModExp">> \o Bn256 \o <<"blake2F">>,
   Berlin    |-> Berlin,
   Cancun    |-> Berlin \o <<"kzgPointEvaluation">>,
   Prague    |-> Berlin \o <<"kzgPointEvaluation">> \o Curve]

(* The switch of ActivePrecompiles, over the set of forks that are active. *)
(* In the mutant, one case returns the addresses of another.               *)
TableOfMutant(rules) ==
  IF "Prague" \in rules THEN "Prague"
  ELSE IF "Cancun" \in rules THEN "Cancun"
  ELSE IF "Istanbul" \in rules /\ "Berlin" \notin rules THEN "Istanbul"
  ELSE IF "Byzantium" \in rules THEN "Byzantium"
  ELSE "Homestead"

TableOf(rules) ==
  IF "Prague" \in rules THEN "Prague"
  ELSE IF "Cancun" \in rules THEN "Cancun"
  ELSE IF "Berlin" \in rules THEN "Berlin"
  ELSE IF "Istanbul" \in rules THEN "Istanbul"
  ELSE IF "Byzantium" \in rules THEN "Byzantium"
  ELSE "Homestead"

ActivePrecompiles(rules) == DOMAIN PrecompiledContracts[TableOf(rules)]
=============================================================================
