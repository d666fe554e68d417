--------------------------- MODULE MCSenderCache ---------------------------
(* Three callers; two equal signers, one of another kind that derives      *)
(* another sender, and one whose derivation fails.                         *)
EXTENDS SenderCache, TLC

CONSTANTS p, q, r, eip155, london, homestead, wrongChain, alice, mallory

MCDerive ==
  [s \in Signers |-> CASE s = homestead  -> mallory
                       [] s = wrongChain -> Failed
                       [] OTHER          -> alice]

MCEqual == {<<s, s>> : s \in Signers} \cup {<<eip155, london>>, <<london, eip155>>}

CallerSymmetry == Permutations(Callers)
=============================================================================
