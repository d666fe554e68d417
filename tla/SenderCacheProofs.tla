-------------------------- MODULE SenderCacheProofs --------------------------
(* Sender answers every caller with the sender of its own signer, for any  *)
(* number of callers and signers.                                          *)
EXTENDS SenderCache, TLAPS

LEMMA InitCache == Init => CacheInv
BY DEF Init, CacheInv, TypeOK

LEMMA StepCache == CacheInv /\ [Next]_vars => CacheInv'
<1> SUFFICES ASSUME CacheInv, [Next]_vars PROVE CacheInv'
  OBVIOUS
<1> USE DEF CacheInv, TypeOK, SigCache
<1>1. ASSUME NEW c \in Callers, NEW s \in Signers, Load(c, s) PROVE CacheInv'
  <2>1. CASE Usable(from, s)
    <3>1. from.from = Derive[s] /\ from.from \in Addr
      BY <2>1, SignerAssumption DEF Usable
    <3> QED BY <1>1, <2>1, <3>1 DEF Load
  <2>2. CASE ~Usable(from, s)
    BY <1>1, <2>2 DEF Load
  <2> QED BY <2>1, <2>2
<1>2. ASSUME NEW c \in Callers, DeriveSender(c) PROVE CacheInv'
  <2>1. Derive[signer[c]] \in Addr \cup {Failed}
    BY SignerAssumption
  <2>2. addr'[c] = Derive[signer[c]]
    BY <1>2 DEF DeriveSender
  <2> QED BY <1>2, <2>1, <2>2 DEF DeriveSender
<1>3. ASSUME NEW c \in Callers, Store(c) PROVE CacheInv'
  <2>1. addr[c] \in Addr
    BY <1>3, SignerAssumption DEF Store
  <2>2. from' \in SigCache /\ from'.from = addr[c] /\ from'.signer = signer[c]
    BY <1>3, <2>1 DEF Store
  <2> QED BY <1>3, <2>1, <2>2 DEF Store
<1>4. CASE UNCHANGED vars
  BY <1>4 DEF vars
<1> QED BY <1>1, <1>2, <1>3, <1>4 DEF Next

(* Every caller is answered with what its own signer derives.              *)
THEOREM AlwaysOwnAnswer == Spec => []AnswersAreOwn
<1>1. CacheInv => AnswersAreOwn
  BY DEF CacheInv, AnswersAreOwn
<1> QED BY InitCache, StepCache, <1>1, PTL DEF Spec
=============================================================================
