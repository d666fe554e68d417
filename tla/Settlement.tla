----------------------------- MODULE Settlement -----------------------------
(***************************************************************************)
(* What applying messages promises, with no pipeline inside: a ledger of   *)
(* balances and the nonces of the accounts, on which each message has one  *)
(* atomic effect.                                                          *)
(***************************************************************************)
EXTENDS FeeRules, IntrinsicGas

CONSTANTS
  Addr, None, Coinbase,
  MaxInitCodeSize,
  RefundQuotient, RefundQuotientEIP3529,
  Submitted         \* the messages that may be applied

VARIABLES ledger, nonces

view == <<ledger, nonces>>

Intrinsic(m) == IntrinsicGas(m.nz, m.z, m.addresses, m.keys, m.to = None)

(* A refund gives back at most this part of the gas that was used.         *)
LeastUsed(m) ==
  Intrinsic(m)
    - Intrinsic(m) \div (IF IsLondon THEN RefundQuotientEIP3529 ELSE RefundQuotient)

Affordable(m) == ledger[m.from] >= BalanceCheck(m)

InSequence(m) == m.skip \/ m.nonce = nonces[m.from]

Executable(m) ==
  /\ Intrinsic(m) # GasUintOverflow
  /\ Intrinsic(m) <= m.gas
  /\ ~(IsShanghai /\ m.to = None /\ m.nz + m.z > MaxInitCodeSize)

(* The three sides of a settlement at "used" units of gas.  dest is the    *)
(* account a creation got as far as endowing.  It keeps the endowment and  *)
(* its nonce also when the creation fails after that: RevertToSnapshot is  *)
(* a stub (statedb.go:180), where evm.go:215 means them to be undone.      *)
Payment(m, used, dest) ==
  used * m.gasPrice + BlobFee(m) + (IF dest = None THEN 0 ELSE m.value)

Reward(m, used) == IF FreeMessage(m) THEN 0 ELSE used * EffectiveTip(m)

Credit(a, who, amount) == IF a = who THEN amount ELSE 0

(* Every path ends the sender's message for good, except an unchecked      *)
(* creation at the last nonce.                                             *)
NextNonces(m, dest) ==
  [a \in Addr |->
     IF a = m.from
     THEN IF m.to = None /\ nonces[a] = MaxU64 THEN nonces[a] ELSE Uint64(nonces[a] + 1)
     ELSE IF a = dest /\ IsEIP158 THEN 1 ELSE nonces[a]]

Due(m) == InSequence(m) /\ Affordable(m)

Settle(m) ==
  /\ Due(m)
  /\ Executable(m)
  /\ \E dest \in Addr \cup {None} :
       /\ dest # None => m.to = None /\ dest # m.from /\ nonces[dest] = 0
       /\ nonces' = NextNonces(m, dest)
       /\ \E used \in LeastUsed(m)..m.gas :
            ledger' = [a \in Addr |->
              Uint256(ledger[a] - Credit(a, m.from, Payment(m, used, dest))
                                + Credit(a, dest, m.value)
                                + Credit(a, Coinbase, Reward(m, used)))]

(* The gas is sold before the message is known to be executable.           *)
Forfeit(m) ==
  /\ Due(m)
  /\ ~Executable(m)
  /\ ledger' = [ledger EXCEPT ![m.from] = @ - PurchaseCost(m)]
  /\ UNCHANGED nonces

Init ==
  /\ ledger \in [Addr -> 0..(U256 - 1)]
  /\ nonces \in [Addr -> 0..MaxU64]

(* A message whose effect is nothing is no step at all.                    *)
Next ==
  /\ view' # view
  /\ \E m \in Submitted : Forfeit(m) \/ Settle(m)

Spec == Init /\ [][Next]_view
=============================================================================
