----------------------------- MODULE WorldState -----------------------------
(***************************************************************************)
(* What the state database promises about accounts: which exist, which     *)
(* became contracts in this transaction, and that every change can be      *)
(* taken back, the last one first.                                         *)
(***************************************************************************)
EXTENDS Integers, Sequences

CONSTANT Addr

VARIABLES
  exists, contracts,
  past               \* the worlds before each change that can be undone

world == <<exists, contracts, past>>

Init ==
  /\ exists \in SUBSET Addr
  /\ contracts = {}
  /\ past = <<>>

Remembered == Append(past, [exists |-> exists, contracts |-> contracts])

Create(a) ==
  /\ a \notin exists
  /\ exists' = exists \cup {a}
  /\ past' = Remembered
  /\ UNCHANGED contracts

MakeContract(a) ==
  /\ a \in exists \ contracts
  /\ contracts' = contracts \cup {a}
  /\ past' = Remembered
  /\ UNCHANGED exists

Undo ==
  /\ past # <<>>
  /\ exists' = past[Len(past)].exists
  /\ contracts' = past[Len(past)].contracts
  /\ past' = SubSeq(past, 1, Len(past) - 1)

(* A transaction ends for good, with some accounts destructed.             *)
EndTx(gone) ==
  /\ exists' = exists \ gone
  /\ contracts' = {}
  /\ past' = <<>>

Next ==
  \/ \E a \in Addr : Create(a) \/ MakeContract(a)
  \/ Undo
  \/ \E gone \in SUBSET Addr : EndTx(gone)

Spec == Init /\ [][Next]_world
=============================================================================
