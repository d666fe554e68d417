\* An account whose code was loaded is asked for again.
SPECIFICATION Spec
CONSTANTS
  p = p
  q = q
  token = token
  pair = pair
  tokenText = tokenText
  pairText = pairText
  rateLimit = rateLimit
  noText = noText
  tokenKey = tokenKey
  pairKey = pairKey
  limitKey = limitKey
  tokenBytes = tokenBytes
  empty = empty
  Callers = {p, q}
  Addresses = {token, pair}
  Texts = {tokenText, pairText, rateLimit, noText}
  Hashes = {tokenKey, limitKey, pairKey, tokenBytes, empty}
  TextHash <- MCTextHash
  CodeHash <- MCCodeHash
  EmptyCodeHash = empty
  Questions <- MCQuestions
  Replies <- MCReplies
  None = None
INVARIANTS
  SeenCodesNotLoaded
CHECK_DEADLOCK FALSE
