-------------------------- MODULE GasRulesProofs --------------------------
(***************************************************************************)
(* Proofs about the rules a message is priced by, for every width of the   *)
(* machine words and every price the parameters may set.                   *)
(***************************************************************************)
EXTENDS GasRules, SequenceTheorems, TLAPS

LEMMA InputsTyped ==
  ASSUME NEW i \in Inputs
  PROVE  /\ {i.feeCap, i.tipCap, i.nz, i.z, i.addresses, i.keys} \subseteq Nat
         /\ i.creation \in BOOLEAN
         /\ i.nz + i.z \in 0..MaxU64
<1>1. i \in [feeCap : Nat, tipCap : Nat, nz : Nat, z : Nat,
             addresses : Nat, keys : Nat, creation : BOOLEAN]
  BY InputAssumption
<1>2. i.nz + i.z <= MaxU64
  BY InputAssumption
<1> QED BY <1>1, <1>2, RulesAssumption

LEMMA InputInvariant ==
  Spec => [](tx \in Inputs \cup {None} /\ call \in Submitted \cup {None})
<1> DEFINE I == tx \in Inputs \cup {None} /\ call \in Submitted \cup {None}
<1>1. Init => I
  BY DEF Init
<1>2. I /\ [Next]_vars => I'
  BY DEF Next, PriceMessage, CallPrecompile, Finish, vars
<1> QED BY <1>1, <1>2, PTL DEF Spec

-----------------------------------------------------------------------------
(* TransactionToMessage and BlobTx.effectiveGasPrice compute one price for *)
(* every transaction and every base fee.                                   *)
THEOREM PricesAlwaysAgree == Spec => []PricesAgree
<1>1. tx \in Inputs \cup {None} => PricesAgree
  <2> SUFFICES ASSUME tx \in Inputs PROVE PricesAgree
    BY DEF PricesAgree
  <2>1. tx.feeCap \in Nat /\ tx.tipCap \in Nat
    BY InputsTyped
  <2> QED BY <2>1, FeeAssumption
       DEF PricesAgree, MessagePrice, EffectiveGasPrice, BigMin
<1> QED BY <1>1, InputInvariant, PTL

-----------------------------------------------------------------------------
(* toWordSize rounds up, also where size + 31 would overflow.              *)
LEMMA WordSizeExact ==
  ASSUME NEW size \in 0..MaxU64
  PROVE  ToWordSize(size) = Words(size) /\ Words(size) \in Nat
<1> DEFINE W == WordBytes
<1>1. MaxU64 \in Nat \ {0} /\ W \in Nat \ {0} /\ (MaxU64 + 1) % W = 0
  BY RulesAssumption, IntrinsicAssumption
<1>2. PICK k \in Nat : MaxU64 + 1 = k * W
  BY <1>1
<1>3. Words(size) \in Nat
  BY <1>1 DEF Words
<1>4. CASE size > MaxU64 - (W - 1)
  <2>1. MaxU64 \div W = k - 1
    BY <1>1, <1>2
  <2>2. (size + (W - 1)) \div W = k
    BY <1>1, <1>2, <1>4
  <2> QED BY <1>3, <1>4, <2>1, <2>2, <1>2 DEF ToWordSize, Words
<1> QED BY <1>3, <1>4 DEF ToWordSize, Words

(* One guarded addition: the division in the guard refuses exactly the     *)
(* counts whose price does not fit.                                        *)
LEMMA PricedExact ==
  ASSUME NEW gas \in 0..MaxU64, NEW count \in Nat, NEW price \in Nat \ {0}
  PROVE  Priced(gas, count, price) =
           IF gas + count * price > MaxU64 THEN GasUintOverflow
           ELSE gas + count * price
<1>1. MaxU64 \in Nat
  BY RulesAssumption
<1>2. (MaxU64 - gas) \div price < count <=> gas + count * price > MaxU64
  <2>1. (MaxU64 - gas) \in Nat
    BY <1>1
  <2>2. \A n \in Nat : n \div price < count <=> n < count * price
    OBVIOUS
  <2>3. count * price \in Nat
    OBVIOUS
  <2> QED BY <1>1, <2>1, <2>2, <2>3
<1>3. gas + count * price \in Nat
  OBVIOUS
<1>4. gas # GasUintOverflow
  BY DEF GasUintOverflow
<1> QED BY <1>1, <1>2, <1>3, <1>4 DEF Priced, Uint64

LEMMA PricedOverflow ==
  ASSUME NEW count, NEW price
  PROVE  Priced(GasUintOverflow, count, price) = GasUintOverflow
BY DEF Priced

(* Two additions in a row, as DataGas makes them.                          *)
LEMMA PricedTwice ==
  ASSUME NEW gas \in 0..MaxU64,
         NEW c1 \in Nat, NEW p1 \in Nat \ {0},
         NEW c2 \in Nat, NEW p2 \in Nat \ {0}
  PROVE  Priced(Priced(gas, c1, p1), c2, p2) =
           IF gas + c1 * p1 + c2 * p2 > MaxU64 THEN GasUintOverflow
           ELSE gas + c1 * p1 + c2 * p2
<1>1. MaxU64 \in Nat /\ c1 * p1 \in Nat /\ c2 * p2 \in Nat
  BY RulesAssumption
<1>2. CASE gas + c1 * p1 > MaxU64
  <2>1. Priced(gas, c1, p1) = GasUintOverflow
    BY <1>2, PricedExact
  <2>2. gas + c1 * p1 + c2 * p2 > MaxU64
    BY <1>1, <1>2
  <2> QED BY <2>1, <2>2, PricedOverflow
<1>3. CASE ~(gas + c1 * p1 > MaxU64)
  <2>1. Priced(gas, c1, p1) = gas + c1 * p1
    BY <1>3, PricedExact
  <2>2. gas + c1 * p1 \in 0..MaxU64
    BY <1>1, <1>3
  <2> QED BY <2>1, <2>2, PricedExact
<1> QED BY <1>2, <1>3

(* IntrinsicGas reports an overflow exactly when the data gas does not fit *)
(* 64 bits, and otherwise charges the whole of what the message costs.     *)
THEOREM IntrinsicGasIsExact == Spec => []IntrinsicGasExact
<1>1. tx \in Inputs \cup {None} => IntrinsicGasExact
  <2> SUFFICES ASSUME tx \in Inputs PROVE IntrinsicGasExact
    BY DEF IntrinsicGasExact
  <2> DEFINE
    price == IF IsIstanbul THEN NonZeroGasEIP2028 ELSE NonZeroGasFrontier
    base  == IF tx.creation /\ IsHomestead THEN TxGasContractCreation ELSE TxGas
    init  == tx.creation /\ IsShanghai
    words == Words(tx.nz + tx.z)
    bytes == base + tx.nz * price + tx.z * ZeroGas
  <2>1. /\ tx.nz \in Nat /\ tx.z \in Nat /\ tx.nz + tx.z \in 0..MaxU64
        /\ tx.addresses \in Nat /\ tx.keys \in Nat
    BY InputsTyped
  <2>2. /\ price \in Nat \ {0} /\ ZeroGas \in Nat \ {0}
        /\ InitCodeWordGas \in Nat \ {0} /\ WordBytes \in Nat \ {0}
        /\ base \in 0..MaxU64 /\ MaxU64 \in Nat
        /\ AddressGas \in Nat /\ StorageKeyGas \in Nat
    BY RulesAssumption, IntrinsicAssumption
  <2>3. /\ tx.nz * price \in Nat /\ tx.z * ZeroGas \in Nat
        /\ bytes \in Nat
    <3> HIDE DEF price, base
    <3>1. tx.nz * price \in Nat /\ tx.z * ZeroGas \in Nat
      BY <2>1, <2>2
    <3> QED BY <2>2, <3>1
  <2>4. words \in Nat /\ words * InitCodeWordGas \in Nat
        /\ ToWordSize(tx.nz + tx.z) = words
    BY <2>1, <2>2, WordSizeExact
  <2>5. ExactDataGas = bytes + (IF init THEN words * InitCodeWordGas ELSE 0)
    BY DEF ExactDataGas
  <2>6. ExactDataGas \in Nat
    BY <2>3, <2>4, <2>5
  <2> DEFINE data == IF tx.nz + tx.z > 0
                     THEN DataGas(base, tx.nz, tx.z, tx.creation) ELSE base
  <2>7. data = IF ExactDataGas > MaxU64 THEN GasUintOverflow ELSE ExactDataGas
    <3>1. CASE tx.nz + tx.z = 0
      <4>1. tx.nz = 0 /\ tx.z = 0
        BY <2>1, <3>1
      <4>2. bytes = base
        BY <2>2, <4>1
      <4>3. words = 0 /\ words * InitCodeWordGas = 0
        BY <2>2, <3>1 DEF Words
      <4>4. ExactDataGas = base
        BY <2>2, <2>5, <4>2, <4>3
      <4> QED BY <2>2, <3>1, <4>4
    <3>2. CASE tx.nz + tx.z > 0
      <4>1. Priced(Priced(base, tx.nz, price), tx.z, ZeroGas) =
              IF bytes > MaxU64 THEN GasUintOverflow ELSE bytes
        <5> HIDE DEF price, base
        <5> QED BY <2>1, <2>2, PricedTwice
      <4>2. CASE ~init
        BY <2>3, <2>5, <3>2, <4>1, <4>2 DEF DataGas
      <4>3. CASE init
        <5>1. data = Priced(Priced(Priced(base, tx.nz, price), tx.z, ZeroGas),
                            words, InitCodeWordGas)
          BY <2>4, <3>2, <4>3 DEF DataGas
        <5>2. CASE bytes > MaxU64
          <6>1. data = GasUintOverflow
            BY <4>1, <5>1, <5>2, PricedOverflow
          <6>2. ExactDataGas > MaxU64
            BY <2>2, <2>3, <2>4, <2>5, <5>2
          <6> QED BY <6>1, <6>2
        <5>3. CASE ~(bytes > MaxU64)
          <6>1. bytes \in 0..MaxU64
            BY <2>2, <2>3, <5>3
          <6>2. data = Priced(bytes, words, InitCodeWordGas)
            BY <4>1, <5>1, <5>3
          <6>3. ExactDataGas = bytes + words * InitCodeWordGas
            BY <2>5, <4>3
          <6> HIDE DEF data, bytes, words
          <6> QED BY <2>2, <2>4, <6>1, <6>2, <6>3, PricedExact
        <5> QED BY <5>2, <5>3
      <4> QED BY <4>2, <4>3
    <3> QED BY <2>1, <3>1, <3>2
  <2> DEFINE gas == IntrinsicGas(tx.nz, tx.z, tx.addresses, tx.keys, tx.creation)
  <2>8. gas = IF data = GasUintOverflow THEN GasUintOverflow
              ELSE Uint64(data + tx.addresses * AddressGas + tx.keys * StorageKeyGas)
    BY DEF IntrinsicGas
  <2>9. tx.addresses * AddressGas \in Nat /\ tx.keys * StorageKeyGas \in Nat
    BY <2>1, <2>2
  <2>10. gas = GasUintOverflow <=> ExactDataGas > MaxU64
    <3>1. ASSUME ~(ExactDataGas > MaxU64) PROVE gas \in Nat
      <4>1. data = ExactDataGas /\ data # GasUintOverflow
        BY <2>6, <2>7, <3>1 DEF GasUintOverflow
      <4> HIDE DEF data
      <4>2. gas = Uint64(data + tx.addresses * AddressGas + tx.keys * StorageKeyGas)
        BY <2>8, <4>1
      <4> QED BY <2>2, <2>6, <2>9, <4>1, <4>2 DEF Uint64
    <3> HIDE DEF data, gas
    <3> QED BY <2>7, <2>8, <3>1 DEF GasUintOverflow
  <2>11. ExactGas <= MaxU64 => gas = ExactGas
    <3> SUFFICES ASSUME ExactGas <= MaxU64 PROVE gas = ExactGas
      OBVIOUS
    <3>1. ExactDataGas <= MaxU64 /\ ExactGas \in 0..MaxU64
      BY <2>2, <2>6, <2>9 DEF ExactGas
    <3>2. data = ExactDataGas /\ data # GasUintOverflow
      BY <2>2, <2>6, <2>7, <3>1 DEF GasUintOverflow
    <3> HIDE DEF data
    <3>3. gas = Uint64(ExactGas)
      BY <2>8, <3>2 DEF ExactGas
    <3> QED BY <2>2, <3>1, <3>3 DEF Uint64
  <2> QED BY <2>10, <2>11 DEF IntrinsicGasExact
<1> QED BY <1>1, InputInvariant, PTL

-----------------------------------------------------------------------------
(* Rounding the price of one piece down and multiplying gives no more than *)
(* rounding the price of all of them down.                                 *)
LEMMA RoundedPrice ==
  ASSUME NEW k \in Nat, NEW unit \in Nat, NEW least \in Nat, NEW rate \in Nat,
         NEW base \in Nat \ {0}, least <= rate
  PROVE  k * ((unit * least) \div base) <= (k * unit * rate) \div base
<1> DEFINE q == (unit * least) \div base
           total == k * unit * rate
<1>1. q \in Nat /\ q * base <= unit * least
  <2>1. unit * least \in Nat
    OBVIOUS
  <2>2. \A n \in Nat : n \div base \in Nat /\ (n \div base) * base <= n
    OBVIOUS
  <2> QED BY <2>1, <2>2
<1>2. total \in Nat
  OBVIOUS
<1>3. (k * q) * base <= total
  <2> HIDE DEF q
  <2>1. unit * least <= unit * rate
    OBVIOUS
  <2>2. q * base <= unit * rate
    BY <1>1, <2>1
  <2>3. \A m, n \in Nat : m <= n => k * m <= k * n
    OBVIOUS
  <2>4. k * (q * base) <= k * (unit * rate)
    BY <1>1, <2>2, <2>3
  <2> QED BY <1>1, <2>4
<1>4. \A m, n \in Nat : m * base <= n => m <= n \div base
  OBVIOUS
<1>5. k * q \in Nat
  BY <1>1
<1> HIDE DEF q, total
<1>6. k * q <= total \div base
  BY <1>2, <1>3, <1>4, <1>5
<1> QED BY <1>6 DEF q, total

LEMMA DiscountTyped ==
  ASSUME NEW k \in Nat \ {0}
  PROVE  /\ Discount(k) \in Nat
         /\ Discounts[Len(Discounts)] \in Nat
         /\ Discounts[Len(Discounts)] <= Discount(k)
<1>1. Len(Discounts) \in Nat \ {0}
  BY PrecompileAssumption, EmptySeq, LenProperties
<1>2. \A i \in 1..Len(Discounts) : Discounts[i] \in Nat
  BY PrecompileAssumption, ElementOfSeq
<1> QED BY <1>1, <1>2, PrecompileAssumption DEF Discount

(* The kinds of contract are apart from each other.                        *)
LEMMA Kinds ==
  /\ DOMAIN PieceBytes = Hashes \cup MultiExps \cup {"bn256Pairing", "bls12381Pairing"}
  /\ \A h \in Hashes :
       h \notin MultiExps \cup {"bn256Pairing", "bls12381Pairing", "blake2F"}
              \cup ModExps \cup DOMAIN InputBytes \cup Padded
  /\ \A h \in MultiExps :
       h \notin {"bn256Pairing", "bls12381Pairing", "blake2F"}
              \cup ModExps \cup DOMAIN InputBytes \cup Padded
  /\ \A h \in {"bn256Pairing", "bls12381Pairing"} :
       h \notin {"blake2F"} \cup ModExps \cup DOMAIN InputBytes \cup Padded
  /\ \A h \in DOMAIN InputBytes : h \notin ModExps \cup Padded
  /\ "blake2F" \in DOMAIN InputBytes
  /\ \A h \in Padded : h \notin ModExps
BY DEF PieceBytes, InputBytes, Hashes, MultiExps, ModExps, Padded

LEMMA DecodedDone ==
  ASSUME NEW c, c.bad \in Nat, NEW k \in Nat
  PROVE  DecodeAll(c, k).done \in 0..k
BY DEF DecodeAll

LEMMA PiecesDone ==
  ASSUME NEW c \in Calls, c.contract \in DOMAIN PieceBytes
  PROVE  Pieces(c) \in Nat /\ RunPieces(c).done \in 0..Pieces(c)
<1>1. c.len \in Nat /\ c.bad \in Nat
  BY DEF Calls
<1>2. PieceBytes[c.contract] \in Nat \ {0}
  BY DEF PieceBytes
<1>3. Pieces(c) \in Nat
  BY <1>1, <1>2 DEF Pieces
<1> QED BY <1>1, <1>3, DecodedDone DEF RunPieces, Refused

LEMMA ModExpPriced ==
  ASSUME NEW c \in Calls
  PROVE  /\ ModExpGas(c) \in Nat
         /\ c.contract = "bigModExpEIP2565" => ModExpGas(c) >= MinModExpGas
<1> DEFINE size  == Larger(c.modLen, c.baseLen)
           steps == Larger(AdjustedExponentLength(c), 1)
           words == (size + 7) \div 8
           old   == (MultComplexity(size) * steps) \div 20
           new   == (words * words * steps) \div 3
<1>1. c.baseLen \in Nat /\ c.expLen \in Nat /\ c.modLen \in Nat /\ c.headBits \in Nat
  BY DEF Calls
<1>2. size \in Nat
  BY <1>1 DEF Larger
<1>3. AdjustedExponentLength(c) \in Nat
  BY <1>1 DEF AdjustedExponentLength
<1>4. steps \in Nat
  BY <1>3 DEF Larger
<1>5. MultComplexity(size) \in Nat
  <2> HIDE DEF size
  <2>1. size * size \in Nat
    BY <1>2
  <2>2. (size * size) \div 4 \in Nat /\ (size * size) \div 16 \in Nat
    BY <2>1
  <2> QED BY <1>2, <2>1, <2>2 DEF MultComplexity
<1>6. old \in Nat
  <2>1. MultComplexity(size) * steps \in Nat
    BY <1>4, <1>5
  <2> HIDE DEF size, steps
  <2> QED BY <2>1
<1>7. new \in Nat
  <2>1. words \in Nat
    BY <1>2
  <2> HIDE DEF words, steps
  <2>2. words * words * steps \in Nat
    BY <1>4, <2>1
  <2> QED BY <2>2
<1>8. ModExpGas(c) = IF c.contract = "bigModExpEIP2565"
                     THEN Larger(MinModExpGas, Saturated(new)) ELSE Saturated(old)
  BY DEF ModExpGas
<1> HIDE DEF old, new
<1>9. Saturated(new) \in Nat /\ Saturated(old) \in Nat
  BY <1>6, <1>7, RulesAssumption DEF Saturated
<1> QED BY <1>8, <1>9, PrecompileAssumption DEF Larger

(* What Run does never costs more than RequiredGas asks.                   *)
LEMMA RunPaid ==
  ASSUME NEW c \in Submitted
  PROVE  /\ RequiredGas(c) \in Nat
         /\ Run(c).done \in Nat /\ LeastPrice(c.contract) \in Nat
         /\ Run(c).done * LeastPrice(c.contract) <= RequiredGas(c)
<1> DEFINE base == BaseGas[c.contract]
           unit == UnitGas[c.contract]
           k == Pieces(c)
<1>1. /\ c.contract \in Contracts /\ c.len \in Nat /\ c.bad \in Nat /\ c.rounds \in Nat
      /\ c.baseLen \in Nat /\ c.expLen \in Nat /\ c.modLen \in Nat /\ c.headBits \in Nat
  BY InputAssumption DEF Calls
<1>a. c \in Calls
  BY InputAssumption
<1>2. base \in Nat /\ unit \in Nat
  BY <1>1, PrecompileAssumption
<1>3. CASE c.contract \in Hashes
  <2> DEFINE w == (c.len + 31) \div 32
  <2>1. w \in Nat
    BY <1>1
  <2>2. RequiredGas(c) = w * unit + base
    BY <1>3, Kinds DEF RequiredGas, PricedWords
  <2>3. Run(c).done = w
    <3>1. Run(c) = [done |-> w, failed |-> FALSE]
      BY <1>3, Kinds DEF Run
    <3> QED BY <3>1
  <2>4. LeastPrice(c.contract) = unit
    BY <1>3 DEF LeastPrice, Hashes, MultiExps, PieceBytes
  <2> HIDE DEF w, unit, base
  <2>5. w * unit \in Nat
    BY <1>2, <2>1
  <2> QED BY <1>2, <2>1, <2>2, <2>3, <2>4, <2>5
<1>4. CASE c.contract \in MultiExps
  <2>1. Run(c).done \in 0..k /\ k \in Nat
    BY <1>4, <1>a, Kinds, PiecesDone DEF Run
  <2> DEFINE least == (unit * Discounts[Len(Discounts)]) \div DiscountBase
  <2>2. LeastPrice(c.contract) = least
    BY <1>4 DEF LeastPrice
  <2>3. least \in Nat
    <3>1. Discounts[Len(Discounts)] \in Nat /\ DiscountBase \in Nat \ {0}
      BY DiscountTyped, PrecompileAssumption
    <3>2. unit * Discounts[Len(Discounts)] \in Nat
      BY <1>2, <3>1
    <3> QED BY <3>1, <3>2
  <2>4. CASE k = 0
    <3>1. RequiredGas(c) = 0
      BY <1>4, <2>4, Kinds DEF RequiredGas
    <3> HIDE DEF least, k
    <3> QED BY <2>1, <2>2, <2>3, <2>4, <3>1
  <2>5. CASE k # 0
    <3> DEFINE price == (k * unit * Discount(k)) \div DiscountBase
    <3>1. RequiredGas(c) = price
      BY <1>4, <2>5, Kinds DEF RequiredGas
    <3>2. Discount(k) \in Nat /\ DiscountBase \in Nat \ {0}
      BY <2>1, <2>5, DiscountTyped, PrecompileAssumption
    <3>3. k * least <= price
      BY <1>2, <2>1, <2>5, <3>2, DiscountTyped, RoundedPrice
    <3>4. price \in Nat
      <4>1. k * unit * Discount(k) \in Nat
        BY <1>2, <2>1, <3>2
      <4> QED BY <3>2, <4>1
    <3> HIDE DEF least, price, k
    <3>5. Run(c).done * least <= k * least
      BY <2>1, <2>3
    <3> QED BY <2>1, <2>2, <2>3, <3>1, <3>3, <3>4, <3>5
  <2> QED BY <2>4, <2>5
<1>5. CASE c.contract \in {"bn256Pairing", "bls12381Pairing"}
  <2>1. Run(c).done \in 0..k /\ k \in Nat
    BY <1>5, <1>a, Kinds, PiecesDone DEF Run
  <2>2. RequiredGas(c) = base + k * unit
    BY <1>5, Kinds DEF RequiredGas
  <2>3. LeastPrice(c.contract) = unit
    BY <1>5, Kinds DEF LeastPrice
  <2> HIDE DEF k, base, unit
  <2>4. Run(c).done * unit <= k * unit /\ k * unit \in Nat
    BY <1>2, <2>1
  <2> QED BY <1>2, <2>1, <2>2, <2>3, <2>4
<1>6. CASE c.contract = "blake2F"
  <2>1. Run(c) = RunSized(c)
    BY <1>6, Kinds DEF Run
  <2>2. Run(c).done = IF c.len # 213 \/ c.bad # 0 THEN 0 ELSE c.rounds
    BY <1>6, <2>1 DEF RunSized, Refused, InputBytes
  <2>3. RequiredGas(c) = IF c.len = 213 THEN c.rounds ELSE 0
    BY <1>6, Kinds DEF RequiredGas, InputBytes
  <2>4. LeastPrice(c.contract) = 1
    BY <1>6, Kinds DEF LeastPrice
  <2> QED BY <1>1, <2>2, <2>3, <2>4
<1>7. CASE c.contract \in DOMAIN InputBytes \ {"blake2F"}
  <2>1. Run(c) = RunSized(c)
    BY <1>7, Kinds DEF Run
  <2>2. Run(c).done \in 0..1
    BY <1>7, <2>1 DEF RunSized, Refused
  <2>3. RequiredGas(c) = base
    BY <1>7, Kinds DEF RequiredGas
  <2>4. LeastPrice(c.contract) = base
    BY <1>7, Kinds DEF LeastPrice, ModExps
  <2> HIDE DEF base
  <2> QED BY <1>2, <2>2, <2>3, <2>4
<1>8. CASE c.contract \in Padded
  <2>1. Run(c) = RunPadded(c)
    BY <1>8, Kinds DEF Run
  <2>2. Run(c).done \in 0..1
    <3>1. DecodeAll(c, 1).done \in 0..1
      BY <1>1, DecodedDone
    <3>2. CASE c.contract = "ecrecover"
      BY <2>1, <3>2 DEF RunPadded
    <3>3. CASE c.contract # "ecrecover"
      BY <2>1, <3>1, <3>3 DEF RunPadded
    <3> QED BY <3>2, <3>3
  <2>3. RequiredGas(c) = base
    BY <1>8, Kinds DEF RequiredGas
  <2>4. LeastPrice(c.contract) = base
    BY <1>8, Kinds DEF LeastPrice, ModExps, Padded
  <2> HIDE DEF base
  <2> QED BY <1>2, <2>2, <2>3, <2>4
<1>9. CASE c.contract \in ModExps
  <2>1. Run(c).done = 1
    BY <1>9, Kinds DEF Run
  <2>2. RequiredGas(c) = ModExpGas(c)
    BY <1>9, Kinds DEF RequiredGas
  <2>3. LeastPrice(c.contract) = IF c.contract = "bigModExp" THEN 0 ELSE MinModExpGas
    BY <1>9, Kinds DEF LeastPrice, ModExps
  <2>4. ModExpGas(c) \in Nat
        /\ (c.contract = "bigModExpEIP2565" => ModExpGas(c) >= MinModExpGas)
    BY <1>a, ModExpPriced
  <2> QED BY <1>9, <2>1, <2>2, <2>3, <2>4, PrecompileAssumption DEF ModExps
<1> QED BY <1>1, <1>3, <1>4, <1>5, <1>6, <1>7, <1>8, <1>9, Kinds DEF Contracts

(* A precompiled contract does nothing that was not paid for, whatever its *)
(* input, its prices and its table of discounts are.                       *)
THEOREM WorkAlwaysPaid == Spec => []WorkIsPaid
<1>1. call \in Submitted \cup {None} => WorkIsPaid
  <2> SUFFICES ASSUME call \in Submitted PROVE WorkIsPaid
    BY DEF WorkIsPaid
  <2> DEFINE result == RunPrecompiledContract(call)
             price == LeastPrice(call.contract)
  <2>1. call.gas \in Nat
    BY InputAssumption, RulesAssumption DEF Calls
  <2>2. /\ RequiredGas(call) \in Nat /\ Run(call).done \in Nat /\ price \in Nat
        /\ Run(call).done * price <= RequiredGas(call)
    BY RunPaid
  <2>3. CASE call.gas < RequiredGas(call)
    <3>1. result.done = 0 /\ result.gas = 0
      BY <2>3 DEF RunPrecompiledContract
    <3> HIDE DEF result, price
    <3>2. result.gas <= call.gas /\ result.done * price <= call.gas - result.gas
      BY <2>1, <2>2, <3>1
    <3> QED BY <3>2 DEF WorkIsPaid, result, price
  <2>4. CASE ~(call.gas < RequiredGas(call))
    <3>1. result.done = Run(call).done /\ result.gas = call.gas - RequiredGas(call)
      BY <2>4 DEF RunPrecompiledContract
    <3> HIDE DEF result, price
    <3>2. result.gas <= call.gas /\ result.done * price <= call.gas - result.gas
      BY <2>1, <2>2, <2>4, <3>1
    <3> QED BY <3>2 DEF WorkIsPaid, result, price
  <2> QED BY <2>3, <2>4
<1> QED BY <1>1, InputInvariant, PTL

-----------------------------------------------------------------------------
(* The prices of modexp bound the lengths of what can be paid for: a sum   *)
(* is at most its product plus one, and a square grows faster than a line. *)
LEMMA ProductBound ==
  ASSUME NEW m \in Nat \ {0}, NEW n \in Nat \ {0}
  PROVE  m * n \in Nat /\ m + n <= m * n + 1
<1>1. PICK a \in Nat : m = a + 1
  BY m - 1 \in Nat, m = (m - 1) + 1
<1>2. PICK b \in Nat : n = b + 1
  BY n - 1 \in Nat, n = (n - 1) + 1
<1>3. a * b \in Nat
  OBVIOUS
<1>4. m * n = a * b + a + b + 1
  BY <1>1, <1>2
<1> QED BY <1>1, <1>2, <1>3, <1>4

LEMMA FitsNewPrice ==
  ASSUME NEW size \in Nat \ {0}, NEW steps \in Nat \ {0}, NEW exp \in Nat,
         NEW gas \in Nat, NEW max \in Nat, max >= 511, 3 * gas <= max,
         8 * exp <= steps + 256,
         (((size + 7) \div 8) * ((size + 7) \div 8) * steps) \div 3 <= gas
  PROVE  2 * size + exp <= max
<1> DEFINE w == (size + 7) \div 8
           q == w * w
<1>1. w \in Nat \ {0} /\ size <= 8 * w
  OBVIOUS
<1>2. q \in Nat \ {0} /\ 40 * w <= q + 400
  <2> HIDE DEF w
  <2>1. q \in Nat /\ q >= w
    BY <1>1
  <2>2. (w - 20) * (w - 20) >= 0
    <3>1. \A i \in Int : i * i >= 0
      OBVIOUS
    <3>2. w - 20 \in Int
      BY <1>1
    <3> QED BY <3>1, <3>2
  <2>3. (w - 20) * (w - 20) = q - 40 * w + 400
    BY <1>1
  <2> QED BY <1>1, <2>1, <2>2, <2>3
<1>3. (q * steps) \div 3 <= gas
  OBVIOUS
<1> HIDE DEF q, w
<1>4. q * steps \in Nat /\ q + steps <= q * steps + 1
  BY <1>2, ProductBound
<1> DEFINE p == q * steps
<1> HIDE DEF p
<1>5. p \in Nat /\ p \div 3 <= gas /\ q + steps <= p + 1
  BY <1>3, <1>4 DEF p
<1>6. p <= 3 * gas + 2
  BY <1>5
<1> QED BY <1>1, <1>2, <1>5, <1>6

LEMMA ComplexityBound ==
  ASSUME NEW x \in Nat \ {0}
  PROVE  MultComplexity(x) \in Nat \ {0} /\ 32 * x <= MultComplexity(x) + 256
<1> DEFINE q == x * x
<1>1. q \in Nat /\ q >= x
  OBVIOUS
<1>2. CASE x <= 64
  <2>1. MultComplexity(x) = q
    BY <1>2 DEF MultComplexity
  <2>2. (x - 16) * (x - 16) >= 0
    <3>1. \A i \in Int : i * i >= 0
      OBVIOUS
    <3>2. x - 16 \in Int
      OBVIOUS
    <3> QED BY <3>1, <3>2
  <2>3. (x - 16) * (x - 16) = q - 32 * x + 256
    OBVIOUS
  <2> QED BY <1>1, <2>1, <2>2, <2>3
<1>3. CASE x > 64 /\ x <= 1024
  <2>1. MultComplexity(x) = q \div 4 + (96 * x - 3072)
    BY <1>3 DEF MultComplexity
  <2> HIDE DEF q
  <2>2. q \div 4 \in Nat
    BY <1>1
  <2> QED BY <1>3, <2>1, <2>2
<1>4. CASE x > 1024
  <2>1. MultComplexity(x) = q \div 16 + (480 * x - 199680)
    BY <1>4 DEF MultComplexity
  <2> HIDE DEF q
  <2>2. q \div 16 \in Nat
    BY <1>1
  <2> QED BY <1>4, <2>1, <2>2
<1> QED BY <1>2, <1>3, <1>4

LEMMA FitsOldPrice ==
  ASSUME NEW size \in Nat \ {0}, NEW steps \in Nat \ {0}, NEW exp \in Nat,
         NEW gas \in Nat, NEW max \in Nat, max >= 511, 3 * gas <= max,
         8 * exp <= steps + 256,
         (MultComplexity(size) * steps) \div 20 <= gas
  PROVE  2 * size + exp <= max
<1> DEFINE q == MultComplexity(size)
           p == q * steps
<1>1. q \in Nat \ {0} /\ 32 * size <= q + 256
  BY ComplexityBound
<1> HIDE DEF q
<1>2. p \in Nat /\ q + steps <= p + 1
  BY <1>1, ProductBound
<1>3. p \div 20 <= gas
  BY DEF q
<1> HIDE DEF p
<1>4. p <= 20 * gas + 19
  BY <1>2, <1>3
<1> QED BY <1>1, <1>2, <1>4

(* Lengths that were paid for fit a word, all three together.              *)
LEMMA ModExpFits ==
  ASSUME MaxU64 >= 511, NEW c \in Calls, c.contract \in ModExps,
         3 * c.gas <= MaxU64, c.gas >= RequiredGas(c),
         ~(c.baseLen = 0 /\ c.modLen = 0)
  PROVE  /\ {c.baseLen, c.expLen, c.modLen} \subseteq Nat
         /\ c.baseLen + c.expLen + c.modLen <= MaxU64
<1> DEFINE size  == Larger(c.modLen, c.baseLen)
           steps == Larger(AdjustedExponentLength(c), 1)
           words == (size + 7) \div 8
           new   == (words * words * steps) \div 3
           old   == (MultComplexity(size) * steps) \div 20
<1>1. /\ c.gas \in Nat /\ c.baseLen \in Nat /\ c.expLen \in Nat /\ c.modLen \in Nat
      /\ c.headBits \in Nat
  BY RulesAssumption DEF Calls
<1>2. MaxU64 \in Nat
  BY RulesAssumption
<1>3. size \in Nat \ {0} /\ c.baseLen <= size /\ c.modLen <= size
  BY <1>1 DEF Larger
<1>4. steps \in Nat \ {0} /\ 8 * c.expLen <= steps + 256
  BY <1>1 DEF Larger, AdjustedExponentLength
<1>5. RequiredGas(c) = ModExpGas(c)
  BY Kinds DEF RequiredGas
<1>6. c.gas < MaxU64
  BY <1>1, <1>2
<1>7. 2 * size + c.expLen <= MaxU64
  <2>1. CASE c.contract = "bigModExpEIP2565"
    <3>1. ModExpGas(c) = Larger(MinModExpGas, Saturated(new))
      BY <2>1 DEF ModExpGas
    <3>2. new \in Nat
      <4>1. words \in Nat
        BY <1>3
      <4> HIDE DEF words, steps
      <4>2. words * words * steps \in Nat
        BY <1>4, <4>1
      <4> QED BY <4>2
    <3> HIDE DEF new
    <3>3. Saturated(new) <= c.gas
      BY <1>1, <1>2, <1>5, <3>1, <3>2, PrecompileAssumption DEF Larger, Saturated
    <3>4. new <= c.gas
      BY <1>1, <1>2, <1>6, <3>2, <3>3 DEF Saturated
    <3> HIDE DEF size, steps
    <3> QED BY <1>1, <1>2, <1>3, <1>4, <3>4, FitsNewPrice DEF new
  <2>2. CASE c.contract # "bigModExpEIP2565"
    <3>1. ModExpGas(c) = Saturated(old)
      BY <2>2 DEF ModExpGas
    <3>2. old \in Nat
      <4> HIDE DEF size, steps
      <4>1. MultComplexity(size) \in Nat
        BY <1>3, ComplexityBound
      <4>2. MultComplexity(size) * steps \in Nat
        BY <1>4, <4>1
      <4> QED BY <4>2
    <3> HIDE DEF old
    <3>3. old <= c.gas
      BY <1>1, <1>2, <1>5, <1>6, <3>1, <3>2 DEF Saturated
    <3> HIDE DEF size, steps
    <3> QED BY <1>1, <1>2, <1>3, <1>4, <3>3, FitsOldPrice DEF old
  <2> QED BY <2>1, <2>2
<1> HIDE DEF size
<1> QED BY <1>1, <1>2, <1>3, <1>7

LEMMA SliceInOrder ==
  ASSUME NEW length \in Nat, NEW start \in Nat, NEW size \in Nat,
         start + size <= MaxU64
  PROVE  Slice(length, start, size).from <= Slice(length, start, size).end
<1> DEFINE from == IF start > length THEN length ELSE start
           end  == Uint64(from + size)
<1>1. from \in Nat /\ from <= start /\ from <= length
  OBVIOUS
<1>2. end = from + size
  <2> HIDE DEF from
  <2>1. from + size \in 0..MaxU64
    BY <1>1, RulesAssumption
  <2> QED BY <2>1, RulesAssumption DEF Uint64
<1>3. /\ Slice(length, start, size).from = from
      /\ Slice(length, start, size).end = IF end > length THEN length ELSE end
  BY DEF Slice
<1> HIDE DEF from, end
<1> QED BY <1>1, <1>2, <1>3

(* No slice of bigModExp.Run ends before it starts, and none starts away   *)
(* from its operand, whenever the call was paid for.  Words of eight bits  *)
(* would be too narrow for that: 32 bytes of an exponent are free.         *)
THEOREM OperandsAlwaysInPlace ==
  ASSUME MaxU64 >= 511
  PROVE  Spec => []OperandsInPlace
<1>1. call \in Submitted \cup {None} => OperandsInPlace
  <2> SUFFICES ASSUME call \in Submitted, call.contract \in ModExps,
                      call.gas >= RequiredGas(call),
                      ~(call.baseLen = 0 /\ call.modLen = 0)
               PROVE  /\ ExponentAt(call) = call.baseLen
                      /\ ModulusAt(call) = call.baseLen + call.expLen
                      /\ Uint64(call.modLen) = call.modLen
                      /\ \A s \in OperandSlices(call) : s.from <= s.end
    BY DEF OperandsInPlace
  <2>1. call \in Calls /\ 3 * call.gas <= MaxU64
    BY InputAssumption
  <2>2. /\ call.baseLen \in Nat /\ call.expLen \in Nat /\ call.modLen \in Nat
        /\ call.baseLen + call.expLen + call.modLen <= MaxU64
    BY <2>1, ModExpFits
  <2>3. \A n \in Nat : n <= MaxU64 => Uint64(n) = n
    BY RulesAssumption DEF Uint64
  <2>4. /\ Uint64(call.baseLen) = call.baseLen
        /\ Uint64(call.expLen) = call.expLen
        /\ Uint64(call.modLen) = call.modLen
        /\ Uint64(call.baseLen + call.expLen) = call.baseLen + call.expLen
    BY <2>2, <2>3, RulesAssumption
  <2>5. ExponentAt(call) = call.baseLen /\ ModulusAt(call) = call.baseLen + call.expLen
    BY <2>4 DEF ExponentAt, ModulusAt
  <2>6. ASSUME NEW s \in OperandSlices(call) PROVE s.from <= s.end
    <3> DEFINE length == Larger(call.len - 96, 0)
    <3>1. length \in Nat
      BY <2>1 DEF Larger, Calls
    <3>2. \/ s = Slice(length, 0, call.baseLen)
          \/ s = Slice(length, call.baseLen, call.expLen)
          \/ s = Slice(length, call.baseLen + call.expLen, call.modLen)
      BY <2>4, <2>5 DEF OperandSlices
    <3> HIDE DEF length
    <3>3. Slice(length, 0, call.baseLen).from <= Slice(length, 0, call.baseLen).end
      <4>1. 0 + call.baseLen <= MaxU64
        BY <2>2, RulesAssumption
      <4> QED BY <2>2, <3>1, <4>1, SliceInOrder
    <3>4. Slice(length, call.baseLen, call.expLen).from
            <= Slice(length, call.baseLen, call.expLen).end
      BY <2>2, <3>1, SliceInOrder, RulesAssumption
    <3>5. Slice(length, call.baseLen + call.expLen, call.modLen).from
            <= Slice(length, call.baseLen + call.expLen, call.modLen).end
      BY <2>2, <3>1, SliceInOrder, RulesAssumption
    <3> QED BY <3>2, <3>3, <3>4, <3>5
  <2> QED BY <2>4, <2>5, <2>6
<1> QED BY <1>1, InputInvariant, PTL

-----------------------------------------------------------------------------
(* Two contracts at one address under two sets of rules: the same, or the  *)
(* two prices of modexp.                                                   *)
Alike(c, d) == c = d \/ {c, d} \subseteq ModExps

(* Every address of the table s is one of t, with the same contract.       *)
Keeps(s, t) == \A i \in DOMAIN s : i \in DOMAIN t /\ Alike(s[i], t[i])

LEMMA Appended ==
  ASSUME NEW S, NEW s \in Seq(S), NEW t \in Seq(S)
  PROVE  s \o t \in Seq(S) /\ Keeps(s, s \o t)
<1>1. /\ s \o t \in Seq(S)
      /\ Len(s \o t) = Len(s) + Len(t)
      /\ \A i \in 1..Len(s) : (s \o t)[i] = s[i]
  BY ConcatProperties
<1>2. DOMAIN s = 1..Len(s) /\ DOMAIN (s \o t) = 1..Len(s \o t)
  BY <1>1, LenProperties
<1>3. Len(s) \in Nat /\ Len(t) \in Nat
  BY LenProperties
<1> QED BY <1>1, <1>2, <1>3 DEF Keeps, Alike

LEMMA BothGrown ==
  ASSUME NEW S, NEW s \in Seq(S), NEW t \in Seq(S), NEW u \in Seq(S), NEW v \in Seq(S),
         Len(s) = Len(t), Keeps(s, t), Keeps(u, v)
  PROVE  Keeps(s \o u, t \o v)
<1>1. /\ Len(s) \in Nat /\ Len(t) \in Nat /\ Len(u) \in Nat /\ Len(v) \in Nat
      /\ DOMAIN s = 1..Len(s) /\ DOMAIN t = 1..Len(t)
      /\ DOMAIN u = 1..Len(u) /\ DOMAIN v = 1..Len(v)
  BY LenProperties
<1>2. /\ s \o u \in Seq(S) /\ Len(s \o u) = Len(s) + Len(u)
      /\ \A i \in 1..(Len(s) + Len(u)) :
           (s \o u)[i] = IF i <= Len(s) THEN s[i] ELSE u[i - Len(s)]
  BY ConcatProperties
<1>3. /\ t \o v \in Seq(S) /\ Len(t \o v) = Len(s) + Len(v)
      /\ \A i \in 1..(Len(s) + Len(v)) :
           (t \o v)[i] = IF i <= Len(s) THEN t[i] ELSE v[i - Len(s)]
  BY ConcatProperties
<1>4. DOMAIN (s \o u) = 1..(Len(s) + Len(u)) /\ DOMAIN (t \o v) = 1..(Len(s) + Len(v))
  BY <1>2, <1>3, LenProperties
<1> SUFFICES ASSUME NEW i \in 1..(Len(s) + Len(u))
             PROVE  i \in 1..(Len(s) + Len(v)) /\ Alike((s \o u)[i], (t \o v)[i])
  BY <1>4 DEF Keeps
<1>5. CASE i <= Len(s)
  <2>1. i \in DOMAIN s /\ i \in 1..(Len(s) + Len(v))
    BY <1>1, <1>5
  <2>2. Alike(s[i], t[i])
    BY <2>1 DEF Keeps
  <2> QED BY <1>2, <1>3, <1>5, <2>1, <2>2
<1>6. CASE ~(i <= Len(s))
  <2>1. i - Len(s) \in DOMAIN u
    BY <1>1, <1>6
  <2>2. i - Len(s) \in DOMAIN v /\ Alike(u[i - Len(s)], v[i - Len(s)])
    BY <2>1 DEF Keeps
  <2>3. i \in 1..(Len(s) + Len(v))
    BY <1>1, <2>2
  <2> QED BY <1>2, <1>3, <1>6, <2>2, <2>3
<1> QED BY <1>5, <1>6

LEMMA KeepsItself ==
  ASSUME NEW s
  PROVE  Keeps(s, s)
BY DEF Keeps, Alike

LEMMA KeepsTransitive ==
  ASSUME NEW r, NEW s, NEW t, Keeps(r, s), Keeps(s, t)
  PROVE  Keeps(r, t)
BY DEF Keeps, Alike

LEMMA PartsTyped ==
  /\ Base \in Seq(Contracts) /\ Bn256 \in Seq(Contracts) /\ Curve \in Seq(Contracts)
  /\ \A c \in Contracts : <<c>> \in Seq(Contracts) /\ Len(<<c>>) = 1
  /\ {"bigModExp", "bigModExpEIP2565", "blake2F", "kzgPointEvaluation"}
       \subseteq Contracts
  /\ Keeps(<<"bigModExp">>, <<"bigModExpEIP2565">>)
<1>1. Base \in Seq(Contracts)
  BY DEF Base, Contracts, PieceBytes, Padded
<1>2. Bn256 \in Seq(Contracts)
  BY DEF Bn256, Contracts, PieceBytes, Padded
<1>3. Curve \in Seq(Contracts)
  BY DEF Curve, Contracts, PieceBytes, InputBytes
<1>4. \A c \in Contracts : <<c>> \in Seq(Contracts) /\ Len(<<c>>) = 1
  OBVIOUS
<1>5. {"bigModExp", "bigModExpEIP2565", "blake2F", "kzgPointEvaluation"}
        \subseteq Contracts
  BY DEF Contracts, InputBytes, ModExps
<1>6. Keeps(<<"bigModExp">>, <<"bigModExpEIP2565">>)
  BY DEF Keeps, Alike, ModExps
<1> QED BY <1>1, <1>2, <1>3, <1>4, <1>5, <1>6

(* From Homestead to Prague, every table keeps the one before it.          *)
Table(fork) == PrecompiledContracts[fork]

LEMMA TablesKeep ==
  /\ Keeps(Table("Homestead"), Table("Byzantium"))
  /\ Keeps(Table("Byzantium"), Table("Istanbul"))
  /\ Keeps(Table("Istanbul"), Table("Berlin"))
  /\ Keeps(Table("Berlin"), Table("Cancun"))
  /\ Keeps(Table("Cancun"), Table("Prague"))
<1> DEFINE S == Contracts
           old  == <<"bigModExp">>
           new  == <<"bigModExpEIP2565">>
           hash == <<"blake2F">>
           kzg  == <<"kzgPointEvaluation">>
           byzantium == (Base \o old) \o Bn256
           istanbul  == byzantium \o hash
           berlin    == ((Base \o new) \o Bn256) \o hash
           cancun    == berlin \o kzg
           prague    == cancun \o Curve
<1>1. /\ Table("Homestead") = Base      /\ Table("Byzantium") = byzantium
      /\ Table("Istanbul")  = istanbul  /\ Table("Berlin")    = berlin
      /\ Table("Cancun")    = cancun    /\ Table("Prague")    = prague
  BY DEF Table, PrecompiledContracts, Berlin
<1>2. /\ Base \in Seq(S) /\ Bn256 \in Seq(S) /\ Curve \in Seq(S)
      /\ old \in Seq(S) /\ new \in Seq(S) /\ hash \in Seq(S) /\ kzg \in Seq(S)
      /\ Len(old) = 1 /\ Len(new) = 1 /\ Keeps(old, new)
  BY PartsTyped
<1> HIDE DEF S, old, new, hash, kzg
<1>3. /\ Base \o old \in Seq(S) /\ Keeps(Base, Base \o old)
      /\ Base \o new \in Seq(S) /\ Keeps(Base \o old, Base \o new)
      /\ Len(Base \o old) = Len(Base \o new)
  <2>1. /\ Base \o old \in Seq(S) /\ Keeps(Base, Base \o old)
        /\ Base \o new \in Seq(S)
    BY <1>2, Appended
  <2>2. Keeps(Base \o old, Base \o new)
    <3>1. Keeps(Base, Base) /\ Len(Base) = Len(Base)
      BY KeepsItself
    <3> QED BY <1>2, <3>1, BothGrown
  <2>3. Len(Base \o old) = Len(Base) + Len(old) /\ Len(Base \o new) = Len(Base) + Len(new)
    BY <1>2, ConcatProperties
  <2> QED BY <1>2, <2>1, <2>2, <2>3
<1>4. /\ byzantium \in Seq(S) /\ Keeps(Base \o old, byzantium)
      /\ (Base \o new) \o Bn256 \in Seq(S)
      /\ Keeps(byzantium, (Base \o new) \o Bn256)
      /\ Len(byzantium) = Len((Base \o new) \o Bn256)
  <2>1. byzantium \in Seq(S) /\ Keeps(Base \o old, byzantium)
        /\ (Base \o new) \o Bn256 \in Seq(S)
    BY <1>2, <1>3, Appended
  <2>2. Keeps(byzantium, (Base \o new) \o Bn256)
    BY <1>2, <1>3, BothGrown, KeepsItself
  <2>3. Len(byzantium) = Len((Base \o new) \o Bn256)
    <3>1. /\ Len(byzantium) = Len(Base \o old) + Len(Bn256)
          /\ Len((Base \o new) \o Bn256) = Len(Base \o new) + Len(Bn256)
      BY <1>2, <1>3, ConcatProperties
    <3> QED BY <1>3, <3>1
  <2> QED BY <2>1, <2>2, <2>3
<1>5. Keeps(Base, byzantium)
  BY <1>3, <1>4, KeepsTransitive
<1>6. istanbul \in Seq(S) /\ Keeps(byzantium, istanbul)
  BY <1>2, <1>4, Appended
<1>7. berlin \in Seq(S) /\ Keeps(istanbul, berlin)
  <2>1. berlin \in Seq(S)
    BY <1>2, <1>4, Appended
  <2>2. Keeps(istanbul, berlin)
    BY <1>2, <1>4, BothGrown, KeepsItself
  <2> QED BY <2>1, <2>2
<1>8. cancun \in Seq(S) /\ Keeps(berlin, cancun)
  BY <1>2, <1>7, Appended
<1>9. Keeps(cancun, prague)
  BY <1>2, <1>8, Appended
<1> QED BY <1>1, <1>5, <1>6, <1>7, <1>8, <1>9

LEMMA LaterTables ==
  ASSUME NEW now, NEW later, now \subseteq later
  PROVE  Keeps(Table(TableOf(now)), Table(TableOf(later)))
<1> DEFINE H == Table("Homestead")
           B == Table("Byzantium")
           I == Table("Istanbul")
           L == Table("Berlin")
           C == Table("Cancun")
           P == Table("Prague")
<1> HIDE DEF H, B, I, L, C, P
<1>1. /\ Keeps(H, B) /\ Keeps(B, I) /\ Keeps(I, L) /\ Keeps(L, C) /\ Keeps(C, P)
  BY TablesKeep DEF H, B, I, L, C, P
<1>2. Keeps(L, P)
  BY <1>1, KeepsTransitive
<1>3. Keeps(I, C) /\ Keeps(I, P)
  BY <1>1, <1>2, KeepsTransitive
<1>4. Keeps(B, L) /\ Keeps(B, C) /\ Keeps(B, P)
  BY <1>1, <1>3, KeepsTransitive
<1>5. Keeps(H, I) /\ Keeps(H, L) /\ Keeps(H, C) /\ Keeps(H, P)
  BY <1>1, <1>4, KeepsTransitive
<1>6. /\ Keeps(H, H) /\ Keeps(B, B) /\ Keeps(I, I)
      /\ Keeps(L, L) /\ Keeps(C, C) /\ Keeps(P, P)
  BY KeepsItself
<1> QED BY <1>1, <1>2, <1>3, <1>4, <1>5, <1>6 DEF TableOf, H, B, I, L, C, P

(* What a fork keeps answers every call as before: the prices of modexp    *)
(* differ, what it computes does not.                                      *)
LEMMA AlikeRuns ==
  ASSUME NEW c \in Calls, NEW d, Alike(c.contract, d)
  PROVE  Run([c EXCEPT !.contract = d]) = Run(c) /\ Computes(d) = Computes(c.contract)
<1>1. CASE c.contract = d
  <2>1. [c EXCEPT !.contract = d] = c
    BY <1>1 DEF Calls
  <2>2. Computes(d) = Computes(c.contract)
    BY <1>1
  <2>3. Run([c EXCEPT !.contract = d]) = Run(c)
    BY <2>1
  <2> QED BY <2>2, <2>3
<1>2. CASE {c.contract, d} \subseteq ModExps
  <2> DEFINE e == [c EXCEPT !.contract = d]
  <2>1. e.contract = d
    BY DEF Calls
  <2>2. \A x : x.contract \in ModExps => Run(x) = [done |-> 1, failed |-> FALSE]
    BY Kinds DEF Run
  <2>3. Run(e) = Run(c)
    BY <1>2, <2>1, <2>2
  <2>4. Computes(d) = Computes(c.contract)
    BY <1>2 DEF Computes
  <2> QED BY <2>3, <2>4
<1> QED BY <1>1, <1>2 DEF Alike

(* No fork takes a precompiled contract away or changes what it does, for  *)
(* every call and every two sets of rules of which one contains the other. *)
THEOREM ForksAlwaysKeepAnswers == Spec => []ForksKeepAnswers
<1>1. call \in Submitted \cup {None} => ForksKeepAnswers
  <2> SUFFICES ASSUME call \in Submitted, NEW now \in Rules, NEW later \in Rules,
                      now \subseteq later, NEW a \in ActivePrecompiles(now),
                      ContractAt(a, now) = call.contract
               PROVE  /\ a \in ActivePrecompiles(later)
                      /\ Run([call EXCEPT !.contract = ContractAt(a, later)]) = Run(call)
                      /\ Computes(ContractAt(a, later)) = Computes(call.contract)
    BY DEF ForksKeepAnswers
  <2>1. call \in Calls
    BY InputAssumption
  <2>2. a \in ActivePrecompiles(later) /\ Alike(ContractAt(a, now), ContractAt(a, later))
    BY LaterTables DEF Keeps, Table, ActivePrecompiles, ContractAt
  <2> QED BY <2>1, <2>2, AlikeRuns
<1> QED BY <1>1, InputInvariant, PTL
=============================================================================
