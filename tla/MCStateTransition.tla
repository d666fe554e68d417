------------------------- MODULE MCStateTransition -------------------------
(* Small instances of StateTransition: two senders, a coinbase, a contract *)
(* that is already there, and two addresses that creations land on.        *)
EXTENDS StateTransition

CONSTANTS alice, miner, wallet, c0, c1

MCAddr == {alice, miner, wallet, c0, c1}

(* alice's creation at nonce 1 lands on wallet, an account that is in use. *)
MCCreateAddr ==
  [p \in MCAddr \X (0..MaxU64) |->
     IF p[1] \in {c0, c1} THEN wallet
     ELSE IF p[1] = alice /\ p[2] = 1 THEN wallet
     ELSE IF p[2] = 0 THEN c0 ELSE c1]

Tx(from, to, nonce_, value, gas, feeCap, tipCap, nz, z) ==
  [from |-> from, to |-> to, nonce |-> nonce_, value |-> value, gas |-> gas,
   feeCap |-> feeCap, tipCap |-> tipCap, nz |-> nz, z |-> z,
   addresses |-> 0, keys |-> 0, blobTx |-> FALSE, blobs |-> 0,
   badHash |-> FALSE, blobFeeCap |-> 0]

BlobTx(from, nonce_, blobs, badHash, blobFeeCap) ==
  [Tx(from, wallet, nonce_, 1, 5, 3, 1, 0, 0) EXCEPT
     !.blobTx = TRUE, !.blobs = blobs, !.badHash = badHash,
     !.blobFeeCap = blobFeeCap, !.addresses = 1]

MCNonces == 0..2

(* Since London: caps above, at and below the base fee, tips above the cap.*)
MCTxs ==
  {Tx(alice, wallet, n, v, 6, f[1], f[2], d, 0) :
     n \in MCNonces, v \in {0, 3}, d \in {0, 4},
     f \in {<<4, 1>>, <<1, 1>>, <<2, 3>>}}
  \cup {Tx(alice, None, n, v, 9, f[1], f[2], d, 1) :
     n \in MCNonces, v \in {0, 3}, d \in {1, 3}, f \in {<<3, 1>>, <<2, 2>>}}
  \cup {Tx(miner, wallet, 0, 2, 6, 2, 1, 0, 1), Tx(c1, wallet, 1, 0, 6, 2, 1, 0, 0)}
  \cup {BlobTx(alice, n, b, FALSE, p) : n \in {0, 1}, b \in {0, 2}, p \in {0, 1, 2}}
  \cup {BlobTx(alice, 0, 1, TRUE, 2)}

(* Before London a transaction has one price: its caps are equal.          *)
FrontierTxs ==
  {Tx(alice, to, n, v, g, f, f, 0, 0) :
     to \in {None, wallet}, n \in MCNonces, v \in {0, 3}, g \in {2, 6}, f \in {0, 3}}

(* Free messages of a simulation, and messages at the nonce limit.         *)
SimulationTxs ==
  {Tx(alice, to, n, 3, 7, f[1], f[2], 0, 0) :
     to \in {None, wallet}, n \in {MaxU64 - 1, MaxU64}, f \in {<<0, 0>>, <<1, 0>>, <<3, 0>>}}
  \cup {[BlobTx(alice, MaxU64 - 1, 2, FALSE, p) EXCEPT !.feeCap = f, !.tipCap = 0] :
           p \in {0, 2}, f \in {0, 3}}

Fund(x, y) == [a \in MCAddr |-> IF a = alice THEN x ELSE IF a = miner THEN y ELSE 0]
MCBalances == {Fund(45, 14), Fund(30, 0)}
MCInitNonces == {[a \in MCAddr |-> IF a = wallet THEN 1 ELSE 0]}
SimulationBalances == {Fund(30, 0)}
LateNonces == {[a \in MCAddr |-> IF a = alice THEN MaxU64 - 1 ELSE 0]}
MCInitCode == {[a \in MCAddr |-> FALSE]}
ContractAtC0 == {[a \in MCAddr |-> a = c0]}
=============================================================================
