---------------------------- MODULE MCOnChainDB ----------------------------
(* Two accounts, one with a code and one without, and an explorer that     *)
(* may send the text of its rate limit, or a reply without a result, in    *)
(* place of a code.                                                        *)
EXTENDS OnChainDB, TLC

CONSTANTS
  p, q,                     \* goroutines
  token, pair,              \* accounts
  tokenText, pairText, rateLimit, noText,
  tokenKey, pairKey, limitKey,       \* hashes of the texts
  tokenBytes, empty                  \* hash of a code's bytes, of no code

MCTextHash ==
  tokenText :> tokenKey @@ pairText :> pairKey @@ rateLimit :> limitKey @@ noText :> empty
MCCodeHash == token :> tokenBytes @@ pair :> empty
Object(a) == [address |-> a, hash |-> MCCodeHash[a], direct |-> FALSE]
Direct(a, h) == [address |-> a, hash |-> h, direct |-> TRUE]
MCQuestions ==
  {Object(token), Object(pair), Direct(token, empty), Direct(pair, tokenKey),
   Direct(pair, tokenBytes)}
MCReplies == token :> {tokenText, rateLimit, noText} @@ pair :> {pairText}
=============================================================================
