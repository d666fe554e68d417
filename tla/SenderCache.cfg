\* One transaction, three goroutines, four signers.
SPECIFICATION Spec
CONSTANTS
  p = p
  q = q
  r = r
  eip155 = eip155
  london = london
  homestead = homestead
  wrongChain = wrongChain
  alice = alice
  mallory = mallory
  Callers = {p, q, r}
  Signers = {eip155, london, homestead, wrongChain}
  Addr = {alice, mallory}
  Failed = Failed
  Empty = Empty
  Derive <- MCDerive
  Equal <- MCEqual
SYMMETRY CallerSymmetry
INVARIANTS
  AnswersAreOwn
