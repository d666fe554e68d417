----------------------------- MODULE SenderCache -----------------------------
(***************************************************************************)
(* core/types/transaction_signing.go: Sender derives the sender of one     *)
(* transaction and caches it, with the signer it was derived by, in an     *)
(* atomic pointer of the transaction.  Any number of goroutines may ask,   *)
(* each with a signer of its own: the load, the derivation and the store   *)
(* are separate steps.                                                     *)
(***************************************************************************)
CONSTANTS
  Callers, Signers, Addr,
  Failed,            \* the derivation returned an error
  Empty,             \* the nil pointer, or no result yet
  Derive,            \* Signer.Sender of this transaction
  Equal              \* Signer.Equal: pairs of signers

(* Implementations of Signer: signers that call each other equal derive    *)
(* the same sender, and a signer is equal to itself.                       *)
ASSUME SignerAssumption ==
  /\ Derive \in [Signers -> Addr \cup {Failed}]
  /\ Equal \subseteq Signers \X Signers
  /\ \A s \in Signers : <<s, s>> \in Equal
  /\ \A p \in Equal : Derive[p[1]] = Derive[p[2]]
  /\ Failed \notin Addr /\ Empty \notin Addr /\ Failed # Empty
  /\ Empty \notin [signer : Signers, from : Addr]

VARIABLES
  from,      \* tx.from, the atomic pointer
  at,        \* where each caller is
  signer,    \* the signer it called Sender with
  addr       \* what it derived or was answered

vars == <<from, at, signer, addr>>

SigCache == [signer : Signers, from : Addr]

TypeOK ==
  /\ from \in SigCache \cup {Empty}
  /\ at \in [Callers -> {"idle", "deriving", "storing", "returned"}]
  /\ signer \in [Callers -> Signers]
  /\ addr \in [Callers -> Addr \cup {Failed, Empty}]

Init ==
  /\ from = Empty
  /\ at = [c \in Callers |-> "idle"]
  /\ signer \in [Callers -> Signers]
  /\ addr = [c \in Callers |-> Empty]

-----------------------------------------------------------------------------
UsableMutant(cached, s) == cached # Empty

Usable(cached, s) == cached # Empty /\ <<cached.signer, s>> \in Equal

(* The load: answered from the cache, or on to the derivation.             *)
Load(c, s) ==
  /\ at[c] \in {"idle", "returned"}
  /\ signer' = [signer EXCEPT ![c] = s]
  /\ IF Usable(from, s)
     THEN at' = [at EXCEPT ![c] = "returned"] /\ addr' = [addr EXCEPT ![c] = from.from]
     ELSE at' = [at EXCEPT ![c] = "deriving"] /\ addr' = [addr EXCEPT ![c] = Empty]
  /\ UNCHANGED from

DeriveSenderMutant(c) ==
  /\ at[c] = "deriving"
  /\ addr' = [addr EXCEPT ![c] = Derive[signer[c]]]
  /\ at' = [at EXCEPT ![c] = "storing"]
  /\ UNCHANGED <<from, signer>>

DeriveSender(c) ==
  /\ at[c] = "deriving"
  /\ addr' = [addr EXCEPT ![c] = Derive[signer[c]]]
  /\ at' = [at EXCEPT ![c] = IF addr'[c] = Failed THEN "returned" ELSE "storing"]
  /\ UNCHANGED <<from, signer>>

Store(c) ==
  /\ at[c] = "storing"
  /\ from' = [signer |-> signer[c], from |-> addr[c]]
  /\ at' = [at EXCEPT ![c] = "returned"]
  /\ UNCHANGED <<signer, addr>>

Next ==
  \E c \in Callers :
    \/ \E s \in Signers : Load(c, s)
    \/ DeriveSender(c)
    \/ Store(c)

Spec == Init /\ [][Next]_vars

-----------------------------------------------------------------------------
(* Whatever other callers cached in between, and with whatever signers,    *)
(* a caller is answered with the sender its own signer derives, and an     *)
(* error of another caller's signer never reaches it.                      *)
AnswersAreOwn ==
  \A c \in Callers : at[c] = "returned" => addr[c] = Derive[signer[c]]

(* What the steps preserve: the cached pair belongs together, and what is  *)
(* about to be cached was derived by the caller's signer without error.    *)
CacheInv ==
  /\ TypeOK
  /\ from # Empty => from.from = Derive[from.signer]
  /\ \A c \in Callers :
       at[c] \in {"storing", "returned"} =>
         /\ addr[c] = Derive[signer[c]]
         /\ at[c] = "storing" => addr[c] # Failed
=============================================================================
