----------------------------- MODULE MCGasRules -----------------------------
(* Payloads and prices around every threshold of an 8-bit word.            *)
EXTENDS GasRules, TLC

MCInputs ==
  {i \in [feeCap : {3}, tipCap : {1}, nz : 0..8,
          z : {0, 1, 31, 32, 33, 64, 95, 127, 128, 159, 160, 191, 195, 223, 224, 255},
          addresses : {0, 2}, keys : {0, 1}, creation : BOOLEAN] :
     i.nz + i.z <= MaxU64}
  \cup
  [feeCap : 0..7, tipCap : 0..7, nz : {0}, z : {0},
   addresses : {0}, keys : {0}, creation : {FALSE}]

MCBaseGas == [c \in Contracts |-> IF c \in Hashes THEN 2 ELSE 7]
MCUnitGas == [c \in Contracts |-> IF c \in Hashes THEN 3 ELSE 10]
MCDiscounts == <<12, 9, 7>>

Call(contract, gas) ==
  [contract |-> contract, gas |-> gas, len |-> 0, bad |-> 0, rounds |-> 0,
   baseLen |-> 0, expLen |-> 0, modLen |-> 0, headBits |-> 0]

(* Lengths at, below and above every multiple of a piece.                  *)
Lengths(size) == {n \in 0..(4 * size + 1) : n % size \in {0, 1, size - 1}}

PieceCalls ==
  UNION {{[Call(c, g) EXCEPT !.len = n, !.bad = b] :
            g \in {6, 17, 85}, n \in Lengths(PieceBytes[c]), b \in 0..3} :
           c \in DOMAIN PieceBytes}

SizedCalls ==
  UNION {{[Call(c, g) EXCEPT !.len = InputBytes[c] + n, !.bad = b, !.rounds = r] :
            g \in {6, 85}, n \in {-1, 0, 1}, b \in {0, 1}, r \in {0, 7, 86}} :
           c \in DOMAIN InputBytes}
  \cup {[Call(c, g) EXCEPT !.len = n, !.bad = b] :
          c \in Padded, g \in {6, 85}, n \in {0, 64}, b \in {0, 1}}

(* Lengths that are payable, that are not, and that do not fit a word.     *)
ModExpCalls ==
  {c \in [contract : ModExps, gas : {6, 85}, len : {96, 140}, bad : {0}, rounds : {0},
          baseLen : {0, 1, 8, 9, 32, 41, 65, 216, 255, 256, 1025},
          expLen : {0, 1, 32, 33, 60, 127, 128, 223, 244, 255, 256, 300, 700},
          modLen : {0, 1, 8, 41, 64, 256}, headBits : {0, 1, 2, 255, 256}] :
     c.headBits <= 8 * c.expLen /\ (c.len - 96 <= c.baseLen => c.headBits = 0)}

MCSubmitted == PieceCalls \cup SizedCalls \cup ModExpCalls
=============================================================================
